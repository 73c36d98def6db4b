--------------------------------- MODULE Rpc ---------------------------------
(***************************************************************************)
(* RPC and RPCStream of src/rpc/index.ts: calls, handlers and hooks, and   *)
(* the module-wide MAP from request ids to the promises of open calls.     *)
(*                                                                         *)
(* A process has one RPC object. Its producer hands a message to its own   *)
(* consumers, within the same turn of JavaScript, or to the transport, of  *)
(* which Anycast is the promise: a message goes to one of the servers of   *)
(* its topic, the one that answers first.                                  *)
(***************************************************************************)
EXTENDS Naturals, FiniteSets

CONSTANTS
  Proc,         \* processes
  Topic,        \* topics given to on() and send()
  Payload,      \* "json", and "undefined", which JSON.stringify leaves out
  Callers,      \* processes that make calls
  Transported,  \* processes that call set_consumer and set_producer
  Route,        \* Route["req"], Route["res"]: servers of the topics req:t and res:t
  Reliable,     \* does the producer send reliably? (it may repeat, else lose)
  Discipline,   \* what the application is taken to do, see below
  MaxCalls,     \* bound: calls of a process
  MaxRuns,      \* bound: how often one request is handled
  MaxPushes,    \* bound: responses pushed by one handling
  MaxExits,     \* bound: process ends
  None          \* absent value

(* "prepared": sets consumer and producer, then topics, before it calls    *)
(* "awaits":   handlers and hooks await their pushes before they return    *)
(* "answers":  _after does not return before some phase has pushed         *)
ASSUME RpcAssumption ==
  /\ Payload \subseteq {"json", "undefined"}
  /\ Callers \subseteq Proc /\ Transported \subseteq Proc
  /\ \A kind \in {"req", "res"} : Route[kind] \subseteq Proc
  /\ Reliable \in BOOLEAN
  /\ Discipline \subseteq {"prepared", "awaits", "answers"}
  /\ MaxCalls \in Nat /\ MaxRuns \in Nat /\ MaxPushes \in Nat /\ MaxExits \in Nat

\* generate_request_id(): a clock reading. That no two processes, and no two calls of
\* one, read the same is assumed.
Id == Proc \X (1..MaxCalls)
Run == Id \X (1..MaxRuns)

\* The responses to one request: the run that pushed it, and its number there.
Answer == (1..MaxRuns) \X (1..MaxPushes)

Phases == {"before", "action", "after"}

Channels == {"own", "transport"}

VARIABLES
  consumer,  \* consumer[p]: where cb_consumer registers, "own" or "transport"
  producer,  \* producer[p]: where cb_producer sends
  own,       \* own[p]: topics in the consumers map
  bound,     \* bound[p]: topics registered at the transport
  MAP,       \* MAP[p]: ids with an entry in MAP
  call,      \* call[i]: "new", "waiting", "settled", "returned" or "cut"
  answer,    \* answer[i]: the response that settled i
  run,       \* run[r]: one execution of req_consumer, with its RPCStream
  channel,   \* messages the transport carries
  exits      \* process ends so far

vars == <<consumer, producer, own, bound, MAP, call, answer, run, channel, exits>>

setup == <<consumer, producer, own, bound>>
calls == <<MAP, call, answer>>

Init ==
  /\ consumer = [p \in Proc |-> "own"]
  /\ producer = [p \in Proc |-> "own"]
  /\ own = [p \in Proc |-> {}]
  /\ bound = [p \in Proc |-> {}]
  /\ MAP = [p \in Proc |-> {}]
  /\ call = [i \in Id |-> "new"]
  /\ answer = [i \in Id |-> None]
  /\ run = [r \in Run |-> [phase |-> "none", at |-> None, topic |-> None, sent |-> FALSE,
                           pushes |-> 0, awaited |-> 0, answered |-> {}]]
  /\ channel = {}
  /\ exits = 0

(***************************************************************************)
(* Setting up                                                              *)
(***************************************************************************)

Prepared == "prepared" \in Discipline
MaySet(p) == p \in Transported /\ (Prepared => own[p] = {} /\ bound[p] = {})
IsSet(p) == p \in Transported => consumer[p] = "transport" /\ producer[p] = "transport"

SetConsumer(p) ==
  /\ MaySet(p)
  /\ consumer' = [consumer EXCEPT ![p] = "transport"]
  /\ UNCHANGED <<producer, own, bound, calls, run, channel, exits>>

SetProducer(p) ==
  /\ MaySet(p)
  /\ producer' = [producer EXCEPT ![p] = "transport"]
  /\ UNCHANGED <<consumer, own, bound, calls, run, channel, exits>>

\* on(): the consumers of requests and of responses of the topic.
On(p, t) ==
  /\ Prepared => IsSet(p)
  /\ IF consumer[p] = "own"
       THEN own' = [own EXCEPT ![p] = @ \cup {t}] /\ UNCHANGED bound
       ELSE bound' = [bound EXCEPT ![p] = @ \cup {t}] /\ UNCHANGED own
  /\ UNCHANGED <<consumer, producer, calls, run, channel, exits>>

(***************************************************************************)
(* The two consumers of a topic                                            *)
(***************************************************************************)

\* read_block(): a message without payload is refused, and only logged.
Readable(m) == m.payload # "undefined"

\* The next execution of req_consumer for request i: MaxRuns bounds the copies.
NextRun(i) == {r \in Run : /\ r[1] = i /\ run[r].phase = "none"
                           /\ \A n \in 1..(r[2] - 1) : run[<<i, n>>].phase # "none"}

\* req_consumer at p: a stream for the request, and _before is called.
HandleRequest(p, m) ==
  run' = [r \in Run |->
            IF Readable(m) /\ r \in NextRun(m.id)
              THEN [run[r] EXCEPT !.phase = "before", !.at = p, !.topic = m.topic]
              ELSE run[r]]

\* Bug: responses resolve the oldest open call.
AddresseeBug(p, m) == {i \in MAP[p] : \A j \in MAP[p] : i[2] <= j[2]}

\* The entries of MAP a response is for.
Addressee(p, m) == {i \in MAP[p] : i = m.id}

\* Bug: a second response replaces the first until send goes on.
HandleResponseBug(p, m) ==
  LET heard == {i \in Addressee(p, m) : Readable(m)}
  IN  /\ call' = [i \in Id |-> IF i \in heard THEN "settled" ELSE call[i]]
      /\ answer' = [i \in Id |-> IF i \in heard THEN m.answer ELSE answer[i]]

\* res_consumer at p: resolve is called; of a promise resolved before it does nothing.
HandleResponse(p, m) ==
  LET heard == {i \in Addressee(p, m) : Readable(m) /\ call[i] = "waiting"}
  IN  /\ call' = [i \in Id |-> IF i \in heard THEN "settled" ELSE call[i]]
      /\ answer' = [i \in Id |-> IF i \in heard THEN m.answer ELSE answer[i]]

(***************************************************************************)
(* The producer                                                            *)
(***************************************************************************)

\* The request of call i; who gets it is known when it is submitted.
Request(i, t, payload) ==
  [kind |-> "req", id |-> i, topic |-> t, payload |-> payload, answer |-> None, to |-> None]

\* Bug: the reader is reset before the stream gets the request's id.
ResponseIdBug(r, payload) ==
  [kind |-> "res", id |-> None, topic |-> run[r].topic, payload |-> payload,
   answer |-> <<r[2], run[r].pushes + 1>>, to |-> None]

\* Bug: the stream is not given the topic of responses.
ResponseTopicBug(r, payload) ==
  [kind |-> "res", id |-> r[1], topic |-> None, payload |-> payload,
   answer |-> <<r[2], run[r].pushes + 1>>, to |-> None]

\* push, push_bytes and push_json: the response on the stream of run r.
Response(r, payload) ==
  [kind |-> "res", id |-> r[1], topic |-> run[r].topic, payload |-> payload,
   answer |-> <<r[2], run[r].pushes + 1>>, to |-> None]

\* A message of p that its own consumer takes; without a consumer it is gone.
Locally(p, m) == producer[p] = "own" /\ m.topic \in own[p]

\* The server of the message's topic that answers first gets it.
Submit(p, m) ==
  IF producer[p] = "transport"
    THEN \E q \in Route[m.kind] : channel' = channel \cup {[m EXCEPT !.to = q]}
    ELSE UNCHANGED channel

\* send, send_bytes and send_json of RPC and of RPCStream: an entry in MAP, and
\* the request to the producer, which is not awaited.
Call(p, i) ==
  /\ p \in Callers /\ i[1] = p /\ call[i] = "new"
  /\ \A n \in 1..(i[2] - 1) : call[<<p, n>>] # "new"
  /\ MAP' = [MAP EXCEPT ![p] = @ \cup {i}]
  /\ call' = [call EXCEPT ![i] = "waiting"]
  /\ \E t \in Topic, payload \in Payload :
       LET m == Request(i, t, payload)
       IN  /\ Prepared => t \in own[p] \cup bound[p]
           /\ IF Locally(p, m) THEN HandleRequest(p, m) ELSE UNCHANGED run
           /\ Submit(p, m)
  /\ UNCHANGED <<setup, answer, exits>>

\* Bug: the entry stays in MAP.
ReturnBug(i) ==
  /\ call[i] = "settled"
  /\ call' = [call EXCEPT ![i] = "returned"]
  /\ UNCHANGED <<setup, MAP, answer, run, channel, exits>>

\* The promise's await is over: send removes the entry and returns.
Return(i) ==
  /\ call[i] = "settled"
  /\ MAP' = [MAP EXCEPT ![i[1]] = @ \ {i}]
  /\ call' = [call EXCEPT ![i] = "returned"]
  /\ UNCHANGED <<setup, answer, run, channel, exits>>

(***************************************************************************)
(* A run of req_consumer                                                   *)
(***************************************************************************)

\* The code of a hook or of the handler pushes a response, also from a callback
\* that outlives it unless it awaits. The response has reached the caller or the
\* transport before push comes to its await.
Push(r) ==
  /\ run[r].phase \in IF "awaits" \in Discipline THEN Phases ELSE Phases \cup {"done"}
  /\ run[r].pushes < MaxPushes
  /\ run' = [run EXCEPT ![r].pushes = @ + 1,
                        ![r].answered = @ \cup {run[r].phase}]
  /\ \E payload \in Payload :
       LET m == Response(r, payload)
           p == run[r].at
       IN  /\ IF Locally(p, m) THEN HandleResponse(p, m) ELSE UNCHANGED <<call, answer>>
           /\ Submit(p, m)
  /\ UNCHANGED <<setup, MAP, exits>>

\* The await of a push is over: only now the stream knows that it has answered.
Pushed(r) ==
  /\ run[r].awaited < run[r].pushes /\ run[r].phase # "gone"
  /\ run' = [run EXCEPT ![r].awaited = @ + 1, ![r].sent = TRUE]
  /\ UNCHANGED <<setup, calls, channel, exits>>

\* Bug: nobody asks whether a response was sent.
PhaseAfterSentBug(phase, sent) ==
  CASE phase = "before" -> "action" [] phase = "action" -> "after" [] OTHER -> "done"

\* Bug: _after is not called.
PhaseAfterEndBug(phase, sent) ==
  IF phase = "before" /\ ~sent THEN "action" ELSE "done"

\* What req_consumer goes on with when a phase has returned.
PhaseAfter(phase, sent) ==
  CASE phase = "before" /\ ~sent -> "action"
    [] phase = "action" /\ ~sent -> "after"
    [] OTHER -> "done"

\* The promise of a hook or of the handler is settled.
PhaseReturns(r) ==
  /\ run[r].phase \in Phases
  /\ "awaits" \in Discipline => run[r].awaited = run[r].pushes
  /\ "answers" \in Discipline /\ run[r].phase = "after" => run[r].pushes > 0
  /\ run' = [run EXCEPT ![r].phase = PhaseAfter(@, run[r].sent)]
  /\ UNCHANGED <<setup, calls, channel, exits>>

(***************************************************************************)
(* The transport, and the end of a process                                 *)
(***************************************************************************)

\* A message reaches the JavaScript of its receiver, again and again if it is
\* repeated. Without a consumer of the topic it is acknowledged all the same.
Deliver(m) ==
  /\ m \in channel
  /\ channel' = channel \ {m} \/ (Reliable /\ UNCHANGED channel)
  /\ IF m.kind = "req" /\ m.topic \in bound[m.to]
       THEN HandleRequest(m.to, m) ELSE UNCHANGED run
  /\ IF m.kind = "res" /\ m.topic \in bound[m.to]
       THEN HandleResponse(m.to, m) ELSE UNCHANGED <<call, answer>>
  /\ UNCHANGED <<setup, MAP, exits>>

Lose(m) ==
  /\ m \in channel /\ ~Reliable
  /\ channel' = channel \ {m}
  /\ UNCHANGED <<setup, calls, run, exits>>

\* A process ends and another takes its place. Of the messages it has been given
\* but not handled, some are repeated by their senders.
Exit(p) ==
  /\ exits < MaxExits
  /\ exits' = exits + 1
  /\ consumer' = [consumer EXCEPT ![p] = "own"]
  /\ producer' = [producer EXCEPT ![p] = "own"]
  /\ own' = [own EXCEPT ![p] = {}]
  /\ bound' = [bound EXCEPT ![p] = {}]
  /\ MAP' = [MAP EXCEPT ![p] = {}]
  /\ call' = [i \in Id |-> IF i \in MAP[p] THEN "cut" ELSE call[i]]
  /\ run' = [r \in Run |-> IF run[r].phase # "none" /\ run[r].at = p
                             THEN [run[r] EXCEPT !.phase = "gone"] ELSE run[r]]
  /\ \E repeated \in SUBSET {m \in channel : m.to = p} :
        channel' = {m \in channel : m.to # p} \cup repeated
  /\ UNCHANGED answer

Setup(p) == SetConsumer(p) \/ SetProducer(p) \/ (\E t \in Topic : On(p, t))
Handler(r) == Push(r) \/ Pushed(r) \/ PhaseReturns(r)
Transport == \E m \in channel : Deliver(m) \/ Lose(m)

\* Processes do not stop: a broker without work waits for some.
Next ==
  \/ \E p \in Proc : Setup(p) \/ Exit(p) \/ (\E i \in Id : Call(p, i))
  \/ \E i \in Id : Return(i)
  \/ \E r \in Run : Handler(r)
  \/ Transport

Spec == Init /\ [][Next]_vars

-----------------------------------------------------------------------------
(* Safety *)

Message == [kind : {"req", "res"}, id : Id, topic : Topic, payload : Payload,
            answer : Answer \cup {None}, to : Proc]
Execution == [phase : Phases \cup {"none", "done", "gone"}, at : Proc \cup {None},
              topic : Topic \cup {None}, sent : BOOLEAN,
              pushes : 0..MaxPushes, awaited : 0..MaxPushes,
              answered : SUBSET (Phases \cup {"done"})]

\* Every variable has its type; an execution has a process and a topic.
TypeOK ==
  /\ consumer \in [Proc -> Channels] /\ producer \in [Proc -> Channels]
  /\ own \in [Proc -> SUBSET Topic] /\ bound \in [Proc -> SUBSET Topic]
  /\ MAP \in [Proc -> SUBSET Id]
  /\ call \in [Id -> {"new", "waiting", "settled", "returned", "cut"}]
  /\ answer \in [Id -> Answer \cup {None}]
  /\ run \in [Run -> Execution]
  /\ \A r \in Run : run[r].phase # "none" => run[r].at \in Proc /\ run[r].topic \in Topic
  /\ channel \subseteq Message
  /\ exits \in 0..MaxExits

\* MAP has an entry for exactly the calls that have not returned: none stays behind
\* when a call is over, and none is missing while its response may come.
MapHoldsOpenCalls ==
  \A p \in Proc : MAP[p] = {i \in Id : i[1] = p /\ call[i] \in {"waiting", "settled"}}

\* If the application awaits its pushes, one phase of a run at most has answered: after
\* a hook that answered neither the handler nor _after is called, whatever repeats
\* the request or settles other calls in between.
OnePhaseAnswers == \A r \in Run : Cardinality(run[r].answered) <= 1

\* A call whose request was taken by a handler is not forgotten: while it waits, a
\* run of it goes on or a response is on its way.
NoStrandedCall ==
  \A i \in Id :
    call[i] = "waiting" /\ (\E r \in Run : r[1] = i /\ run[r].phase # "none") =>
      \/ \E r \in Run : r[1] = i /\ run[r].phase \in Phases
      \/ \E m \in channel : m.kind = "res" /\ m.id = i

-----------------------------------------------------------------------------
(* Liveness *)

\* JavaScript goes on when a promise is settled, handlers go on, and the transport
\* delivers what it does not lose.
Fairness ==
  /\ \A i \in Id : WF_vars(Return(i))
  /\ \A r \in Run : WF_vars(Push(r) \/ PhaseReturns(r)) /\ WF_vars(Pushed(r))
  /\ WF_vars(\E m \in channel : m.kind = "req" /\ Deliver(m))
  /\ WF_vars(\E m \in channel : m.kind = "res" /\ Deliver(m))

FairSpec == Spec /\ Fairness

\* A call whose request a handler has taken returns.
CallReturns ==
  \A r \in Run : run[r].phase = "before" ~> call[r[1]] \in {"returned", "cut"}
=============================================================================
