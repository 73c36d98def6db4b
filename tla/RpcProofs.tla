------------------------------ MODULE RpcProofs ------------------------------
(***************************************************************************)
(* Theorems about Rpc, for any processes, topics and bounds.               *)
(***************************************************************************)
EXTENDS RpcRemoteCall, FiniteSetTheorems, TLAPS

-----------------------------------------------------------------------------
(* What the helpers do *)

\* A new run has a process and a topic; no push is added or forgotten.
LEMMA Handled ==
  ASSUME TypeOK, NEW p \in Proc, NEW m, m.topic \in Topic, m.id \in Id, HandleRequest(p, m)
  PROVE  /\ run' \in [Run -> Execution]
         /\ \A r \in Run : run'[r].phase # "none" =>
              /\ run'[r].at \in Proc /\ run'[r].topic \in Topic
              /\ run[r].phase # "none" \/ r[1] = m.id
         /\ \A r \in Run : run'[r].pushes = run[r].pushes
<1>1. ASSUME NEW r \in Run
      PROVE  /\ run'[r] \in Execution
             /\ run'[r].phase # "none" =>
                  /\ run'[r].at \in Proc /\ run'[r].topic \in Topic
                  /\ run[r].phase # "none" \/ r[1] = m.id
             /\ run'[r].pushes = run[r].pushes
  <2>1. run[r] \in Execution
    BY DEF TypeOK
  <2>2. CASE Readable(m) /\ r \in NextRun(m.id)
    <3>1. run'[r] = [run[r] EXCEPT !.phase = "before", !.at = p, !.topic = m.topic]
      BY <2>2 DEF HandleRequest
    <3> QED BY <2>1, <2>2, <3>1 DEF Execution, Phases, NextRun
  <2>3. CASE ~(Readable(m) /\ r \in NextRun(m.id))
    <3>1. run'[r] = run[r]
      BY <2>3 DEF HandleRequest
    <3> QED BY <2>1, <3>1 DEF TypeOK
  <2> QED BY <2>2, <2>3
<1>2. run' = [r \in Run |-> run'[r]]
  BY DEF HandleRequest
<1> QED BY <1>1, <1>2

\* A response settles the waiting call it is for, with the answer it carries, or
\* changes nothing.
LEMMA Heard ==
  ASSUME TypeOK, NEW p \in Proc, NEW m, m.id \in Id, m.answer \in Answer,
         HandleResponse(p, m)
  PROVE  \/ UNCHANGED <<call, answer>>
         \/ /\ call[m.id] = "waiting"
            /\ call' = [call EXCEPT ![m.id] = "settled"]
            /\ answer' = [answer EXCEPT ![m.id] = m.answer]
<1> DEFINE heard == {i \in Addressee(p, m) : Readable(m) /\ call[i] = "waiting"}
<1>1. /\ call' = [i \in Id |-> IF i \in heard THEN "settled" ELSE call[i]]
      /\ answer' = [i \in Id |-> IF i \in heard THEN m.answer ELSE answer[i]]
  BY DEF HandleResponse
<1>2. call = [i \in Id |-> call[i]] /\ answer = [i \in Id |-> answer[i]]
  BY DEF TypeOK
<1>3. heard = {} \/ (heard = {m.id} /\ call[m.id] = "waiting")
  BY DEF Addressee
<1>4. CASE heard = {}
  BY <1>1, <1>2, <1>4
<1>5. CASE heard = {m.id} /\ call[m.id] = "waiting"
  BY <1>1, <1>2, <1>5
<1> QED BY <1>3, <1>4, <1>5

\* A push adds one answer of its run, and nothing else about who answered what.
LEMMA Pushing ==
  ASSUME TypeOK, NEW r \in Run, Push(r)
  PROVE  /\ run[r].phase # "none"
         /\ run[r].pushes + 1 \in 1..MaxPushes
         /\ <<r[2], run[r].pushes + 1>> \in Answer
         /\ run' \in [Run -> Execution]
         /\ run'[r].pushes = run[r].pushes + 1
         /\ \A q \in Run : /\ q # r => run'[q] = run[q]
                           /\ run'[q].phase = run[q].phase
                           /\ run'[q].at = run[q].at
                           /\ run'[q].topic = run[q].topic
<1> DEFINE more == run[r].answered \cup {run[r].phase}
           next == [run[r] EXCEPT !.pushes = @ + 1, !.answered = more]
<1>1. run[r] \in Execution /\ r[2] \in 1..MaxRuns
  BY DEF TypeOK, Run
<1>2. /\ run[r].phase \in Phases \cup {"done"}
      /\ run[r].pushes < MaxPushes
      /\ run' = [run EXCEPT ![r].pushes = @ + 1, ![r].answered = more]
  BY DEF Push
<1>3. run[r].pushes + 1 \in 1..MaxPushes
  BY <1>1, <1>2, RpcAssumption DEF Execution
<1>4. run' = [run EXCEPT ![r] = next]
  BY <1>2 DEF TypeOK, Execution
<1>5. more \in SUBSET (Phases \cup {"done"})
  BY <1>1, <1>2 DEF Execution
<1>6. /\ next \in Execution
      /\ next.pushes = run[r].pushes + 1
      /\ next.phase = run[r].phase /\ next.at = run[r].at /\ next.topic = run[r].topic
  <2> DEFINE pushed == run[r].pushes + 1
  <2>1. pushed \in 0..MaxPushes
    BY <1>3, RpcAssumption
  <2>2. next = [run[r] EXCEPT !.pushes = pushed, !.answered = more]
    OBVIOUS
  <2> HIDE DEF more, pushed, next
  <2>3. next \in Execution /\ next.pushes = pushed
    BY <1>1, <1>5, <2>1, <2>2 DEF Execution
  <2>4. next.phase = run[r].phase /\ next.at = run[r].at /\ next.topic = run[r].topic
    BY <1>1, <2>2 DEF Execution
  <2> QED BY <2>3, <2>4 DEF pushed
<1>7. run' \in [Run -> Execution] /\ run'[r] = next /\ \A q \in Run : q # r => run'[q] = run[q]
  <2> HIDE DEF next
  <2> QED BY <1>4, <1>6 DEF TypeOK
<1>8. <<r[2], run[r].pushes + 1>> \in Answer
  BY <1>1, <1>3 DEF Answer
<1>9. run[r].phase # "none"
  BY <1>2 DEF Phases
<1> HIDE DEF next
<1> QED BY <1>3, <1>6, <1>7, <1>8, <1>9

\* The producer adds a message for one process, or none.
LEMMA Submitted ==
  ASSUME NEW p \in Proc, NEW m, m.kind \in {"req", "res"}, Submit(p, m)
  PROVE  \/ channel' = channel
         \/ \E q \in Proc : channel' = channel \cup {[m EXCEPT !.to = q]}
BY RpcAssumption DEF Submit

-----------------------------------------------------------------------------
(* The invariant and the promise, action by action *)

Kept == Inductive' /\ [Promise!Next]_(Promise!vars)

\* What the promise speaks of does not change.
LEMMA Silent ==
  ASSUME UNCHANGED <<call, answer>>, \A r \in Run : run'[r].pushes = run[r].pushes
  PROVE  UNCHANGED Promise!vars
<1>1. \A i \in Id : Offered(i)' = Offered(i)
  BY DEF Offered, Answer, Run
<1> QED BY <1>1 DEF Promise!vars

\* Nothing is open, asked or pushed at first.
LEMMA InitLemma ==
  ASSUME Init
  PROVE  Inductive /\ Promise!Init
<1>1. TypeOK
  BY RpcAssumption DEF Init, TypeOK, Execution, Channels, Phases
<1>2. MapHoldsOpenCalls
  BY DEF Init, MapHoldsOpenCalls
<1>3. Asked /\ WasPushed
  BY DEF Init, Asked, WasPushed
<1>4. \A i \in Id : Offered(i) = {}
  <2> SUFFICES ASSUME NEW i \in Id, NEW a \in Answer, a[2] <= run[<<i, a[1]>>].pushes
               PROVE  FALSE
    BY DEF Offered
  <2>1. <<i, a[1]>> \in Run /\ a[2] \in 1..MaxPushes
    BY DEF Run, Answer
  <2>2. run[<<i, a[1]>>].pushes = 0
    BY <2>1 DEF Init
  <2> QED BY <2>1, <2>2, RpcAssumption
<1>5. Promise!Init
  BY <1>4 DEF Init, Promise!Init
<1> QED BY <1>1, <1>2, <1>3, <1>5 DEF Inductive

\* Setting up: no call, run or message changes.
LEMMA SetupLemma ==
  ASSUME Inductive, NEW p \in Proc, Setup(p)
  PROVE  Kept
<1>1. UNCHANGED <<calls, run, channel, exits>>
  BY DEF Setup, SetConsumer, SetProducer, On
<1>2. /\ consumer' \in [Proc -> Channels] /\ producer' \in [Proc -> Channels]
      /\ own' \in [Proc -> SUBSET Topic] /\ bound' \in [Proc -> SUBSET Topic]
  <2>1. CASE SetConsumer(p)
    BY <2>1 DEF SetConsumer, Inductive, TypeOK, Channels
  <2>2. CASE SetProducer(p)
    BY <2>2 DEF SetProducer, Inductive, TypeOK, Channels
  <2>3. CASE \E t \in Topic : On(p, t)
    <3> PICK t \in Topic : On(p, t)
      BY <2>3
    <3>1. \/ own' = [own EXCEPT ![p] = @ \cup {t}] /\ UNCHANGED <<consumer, producer, bound>>
          \/ bound' = [bound EXCEPT ![p] = @ \cup {t}] /\ UNCHANGED <<consumer, producer, own>>
      BY DEF On
    <3> QED BY <3>1 DEF Inductive, TypeOK
  <2> QED BY <2>1, <2>2, <2>3 DEF Setup
<1>3. TypeOK'
  BY <1>1, <1>2 DEF Inductive, TypeOK, calls
<1>4. MapHoldsOpenCalls' /\ Asked' /\ WasPushed'
  BY <1>1 DEF Inductive, MapHoldsOpenCalls, Asked, WasPushed, Offered, calls
<1>5. UNCHANGED Promise!vars
  BY <1>1, Silent DEF calls
<1> QED BY <1>3, <1>4, <1>5 DEF Kept, Inductive

\* send() makes the call; MAP gets its entry with it.
LEMMA CallLemma ==
  ASSUME Inductive, NEW p \in Proc, NEW i \in Id, Call(p, i)
  PROVE  Kept
<1> PICK t \in Topic, payload \in Payload :
      /\ IF Locally(p, Request(i, t, payload)) THEN HandleRequest(p, Request(i, t, payload))
                                               ELSE UNCHANGED run
      /\ Submit(p, Request(i, t, payload))
  BY DEF Call
<1> DEFINE m == Request(i, t, payload)
<1>1. /\ i[1] = p /\ call[i] = "new"
      /\ MAP' = [MAP EXCEPT ![p] = @ \cup {i}]
      /\ call' = [call EXCEPT ![i] = "waiting"]
      /\ UNCHANGED <<setup, answer, exits>>
  BY DEF Call
<1>2. m.kind = "req" /\ m.id = i /\ m.topic = t
  BY DEF Request
<1>3. /\ run' \in [Run -> Execution]
      /\ \A r \in Run : run'[r].phase # "none" =>
           /\ run'[r].at \in Proc /\ run'[r].topic \in Topic
           /\ run[r].phase # "none" \/ r[1] = i
      /\ \A r \in Run : run'[r].pushes = run[r].pushes
  <2>1. CASE HandleRequest(p, m)
    BY <1>2, <2>1, Handled DEF Inductive
  <2>2. CASE UNCHANGED run
    BY <2>2 DEF Inductive, TypeOK
  <2> QED BY <2>1, <2>2
<1>4. \/ channel' = channel
      \/ \E q \in Proc : channel' = channel \cup {[m EXCEPT !.to = q]}
  BY <1>2, Submitted
<1>5. \A n \in channel' : n \in channel \/ (n \in Message /\ n.kind = "req" /\ n.id = i)
  BY <1>4 DEF Request, Message
<1>6. TypeOK'
  BY <1>1, <1>3, <1>5 DEF Inductive, TypeOK, setup
<1>7. MapHoldsOpenCalls'
  BY <1>1 DEF Inductive, TypeOK, MapHoldsOpenCalls
<1>8. Asked'
  <2>1. \A j \in Id : call[j] # "new" \/ j = i => call'[j] # "new"
    BY <1>1 DEF Inductive, TypeOK
  <2>2. \A r \in Run : r[1] \in Id
    BY DEF Run
  <2>3. \A n \in channel : n.id \in Id
    BY DEF Inductive, TypeOK, Message
  <2> QED BY <1>3, <1>5, <2>1, <2>2, <2>3 DEF Inductive, Asked
<1>9. \A j \in Id : Offered(j)' = Offered(j)
  BY <1>3 DEF Offered, Answer, Run
<1>10. WasPushed'
  BY <1>5, <1>9 DEF Inductive, WasPushed, TypeOK, Message
<1>11. Promise!Make(i)
  BY <1>1, <1>9 DEF Promise!Make
<1> QED BY <1>6, <1>7, <1>8, <1>10, <1>11 DEF Kept, Inductive, Promise!Next

\* send() returns: its entry leaves MAP.
LEMMA ReturnLemma ==
  ASSUME Inductive, NEW i \in Id, Return(i)
  PROVE  Kept
<1>1. /\ call[i] = "settled"
      /\ MAP' = [MAP EXCEPT ![i[1]] = @ \ {i}]
      /\ call' = [call EXCEPT ![i] = "returned"]
      /\ UNCHANGED <<setup, answer, run, channel, exits>>
  BY DEF Return
<1>2. i[1] \in Proc
  BY DEF Id
<1>3. TypeOK'
  BY <1>1, <1>2 DEF Inductive, TypeOK, setup
<1>4. MapHoldsOpenCalls'
  BY <1>1, <1>2 DEF Inductive, TypeOK, MapHoldsOpenCalls
<1>5. Asked'
  <2>1. \A j \in Id : call[j] # "new" => call'[j] # "new"
    BY <1>1 DEF Inductive, TypeOK
  <2>2. (\A r \in Run : r[1] \in Id) /\ (\A n \in channel : n.id \in Id)
    BY DEF Run, Inductive, TypeOK, Message
  <2> QED BY <1>1, <2>1, <2>2 DEF Inductive, Asked
<1>6. \A j \in Id : Offered(j)' = Offered(j)
  BY <1>1 DEF Offered
<1>7. WasPushed'
  BY <1>1, <1>6 DEF Inductive, WasPushed, TypeOK, Message
<1>8. Promise!Return(i)
  BY <1>1, <1>6 DEF Promise!Return
<1> QED BY <1>3, <1>4, <1>5, <1>7, <1>8 DEF Kept, Inductive, Promise!Next

\* A settled call keeps its entry, and nobody forgets that it was made.
LEMMA StillOpen ==
  ASSUME Inductive, UNCHANGED MAP, NEW i \in Id, call[i] = "waiting",
         call' = [call EXCEPT ![i] = "settled"]
  PROVE  MapHoldsOpenCalls' /\ \A j \in Id : call[j] # "new" => call'[j] # "new"
BY DEF Inductive, TypeOK, MapHoldsOpenCalls

\* A push: the answer is offered, and if the producer is local heard at once.
LEMMA PushLemma ==
  ASSUME Inductive, NEW r \in Run, Push(r)
  PROVE  Kept
<1> PICK payload \in Payload :
      /\ IF Locally(run[r].at, Response(r, payload))
           THEN HandleResponse(run[r].at, Response(r, payload))
           ELSE UNCHANGED <<call, answer>>
      /\ Submit(run[r].at, Response(r, payload))
  BY DEF Push
<1> DEFINE m == Response(r, payload)
           i == r[1]
           a == <<r[2], run[r].pushes + 1>>
<1>1. UNCHANGED <<setup, MAP, exits>>
  BY DEF Push
<1>2. /\ run[r].phase # "none" /\ a \in Answer
      /\ run' \in [Run -> Execution]
      /\ run'[r].pushes = run[r].pushes + 1
      /\ \A q \in Run : /\ q # r => run'[q] = run[q]
                        /\ run'[q].phase = run[q].phase
                        /\ run'[q].at = run[q].at
                        /\ run'[q].topic = run[q].topic
  BY Pushing DEF Inductive
<1>3. /\ m.kind = "res" /\ m.id = i /\ m.answer = a
      /\ run[r].at \in Proc /\ run[r].topic \in Topic
      /\ i \in Id /\ r[2] \in 1..MaxRuns /\ r = <<i, r[2]>>
  BY <1>2 DEF Response, Inductive, TypeOK, Run
<1>4. \/ UNCHANGED <<call, answer>>
      \/ /\ call[i] = "waiting"
         /\ call' = [call EXCEPT ![i] = "settled"]
         /\ answer' = [answer EXCEPT ![i] = a]
  <2>1. CASE HandleResponse(run[r].at, m)
    BY <1>2, <1>3, <2>1, Heard DEF Inductive
  <2>2. CASE UNCHANGED <<call, answer>>
    BY <2>2
  <2> QED BY <2>1, <2>2
<1>5. \/ channel' = channel
      \/ \E q \in Proc : channel' = channel \cup {[m EXCEPT !.to = q]}
  BY <1>3, Submitted
<1>6. \A n \in channel' : \/ n \in channel
                          \/ n \in Message /\ n.kind = "res" /\ n.id = i /\ n.answer = a
  BY <1>2, <1>3, <1>5 DEF Response, Message
<1>7. /\ call' \in [Id -> {"new", "waiting", "settled", "returned", "cut"}]
      /\ answer' \in [Id -> Answer \cup {None}]
  BY <1>2, <1>4 DEF Inductive, TypeOK
<1>8. TypeOK'
  BY <1>1, <1>2, <1>6, <1>7 DEF Inductive, TypeOK, setup
<1>9. MapHoldsOpenCalls' /\ \A j \in Id : call[j] # "new" => call'[j] # "new"
  BY <1>1, <1>3, <1>4, StillOpen DEF Inductive, MapHoldsOpenCalls
<1>10. Asked'
  <2>1. (\A q \in Run : q[1] \in Id) /\ (\A n \in channel : n.id \in Id)
    BY DEF Run, Inductive, TypeOK, Message
  <2>2. call[i] # "new"
    BY <1>2 DEF Inductive, Asked
  <2> QED BY <1>2, <1>3, <1>6, <1>9, <2>1, <2>2 DEF Inductive, Asked
<1>11. \A j \in Id : Offered(j)' = IF j = i THEN Offered(j) \cup {a} ELSE Offered(j)
  <2> TAKE j \in Id
  <2>1. CASE j # i
    <3>1. \A b \in Answer : <<j, b[1]>> \in Run /\ <<j, b[1]>> # r
      BY <1>3, <2>1 DEF Answer, Run
    <3> QED BY <1>2, <2>1, <3>1 DEF Offered
  <2>2. CASE j = i
    <3> SUFFICES ASSUME NEW b \in Answer
                 PROVE  b[2] <= run'[<<i, b[1]>>].pushes <=>
                          b = a \/ b[2] <= run[<<i, b[1]>>].pushes
      BY <1>2, <2>2 DEF Offered
    <3>1. <<i, b[1]>> \in Run /\ b = <<b[1], b[2]>> /\ b[2] \in Nat
      BY <1>3, RpcAssumption DEF Answer, Run
    <3>2. run[r].pushes \in Nat
      BY RpcAssumption DEF Inductive, TypeOK, Execution
    <3>3. CASE b[1] = r[2]
      <4>1. <<i, b[1]>> = r
        BY <1>3, <3>3
      <4>2. b = a <=> b[2] = run[r].pushes + 1
        BY <3>1, <3>3
      <4>3. b[2] <= run[r].pushes + 1 <=> b[2] = run[r].pushes + 1 \/ b[2] <= run[r].pushes
        BY <3>1, <3>2
      <4> QED BY <1>2, <4>1, <4>2, <4>3
    <3>4. CASE b[1] # r[2]
      <4>1. <<i, b[1]>> # r /\ b # a
        BY <1>3, <3>4
      <4> QED BY <1>2, <3>1, <4>1
    <3> QED BY <3>3, <3>4
  <2> QED BY <2>1, <2>2
<1>12. WasPushed'
  <2>1. \A n \in channel : n.id \in Id
    BY DEF Inductive, TypeOK, Message
  <2> QED BY <1>3, <1>6, <1>11, <2>1 DEF Inductive, WasPushed
<1>13. a \notin Offered(i)
  <2>1. run[r].pushes \in Nat
    BY RpcAssumption DEF Inductive, TypeOK, Execution
  <2>2. <<i, a[1]>> = r /\ a[2] = run[r].pushes + 1
    BY <1>3
  <2>3. ~(run[r].pushes + 1 <= run[r].pushes)
    BY <2>1
  <2> QED BY <2>2, <2>3 DEF Offered
<1>14. Promise!Offer(i, a)
  <2>1. call[i] # "new"
    BY <1>2 DEF Inductive, Asked
  <2>2. [j \in Id |-> Offered(j)]' = [[j \in Id |-> Offered(j)] EXCEPT ![i] = @ \cup {a}]
    BY <1>3, <1>11
  <2> HIDE DEF a, i
  <2> QED BY <1>3, <1>4, <1>13, <2>1, <2>2 DEF Promise!Offer, Promise!Settles
<1> HIDE DEF a, i
<1> QED BY <1>2, <1>3, <1>8, <1>9, <1>10, <1>12, <1>14 DEF Kept, Inductive, Promise!Next

\* Steps of a run that push nothing: only the run changes.
LEMMA RunLemma ==
  ASSUME Inductive, NEW r \in Run, Pushed(r) \/ PhaseReturns(r)
  PROVE  Kept
<1> DEFINE next == run'[r]
<1>1. UNCHANGED <<setup, calls, channel, exits>>
  BY DEF Pushed, PhaseReturns
<1>2. run[r] \in Execution
  BY DEF Inductive, TypeOK
<1>3. /\ run' \in [Run -> Execution]
      /\ \A q \in Run : /\ run'[q].phase # "none" => run[q].phase # "none"
                        /\ run'[q].at = run[q].at /\ run'[q].topic = run[q].topic
                        /\ run'[q].pushes = run[q].pushes
  <2>1. CASE Pushed(r)
    <3> DEFINE counted == run[r].awaited + 1
               heard == [run[r] EXCEPT !.awaited = counted, !.sent = TRUE]
    <3>1. counted \in 0..MaxPushes
      BY <1>2, <2>1, RpcAssumption DEF Pushed, Execution
    <3>2. run' = [run EXCEPT ![r] = heard]
      BY <2>1 DEF Pushed, Inductive, TypeOK, Execution
    <3>3. /\ heard \in Execution
          /\ heard.phase = run[r].phase /\ heard.at = run[r].at
          /\ heard.topic = run[r].topic /\ heard.pushes = run[r].pushes
      <4> HIDE DEF counted
      <4> QED BY <1>2, <3>1 DEF Execution
    <3> HIDE DEF heard
    <3> QED BY <3>2, <3>3 DEF Inductive, TypeOK
  <2>2. CASE PhaseReturns(r)
    <3> DEFINE p == PhaseAfter(run[r].phase, run[r].sent)
               gone == [run[r] EXCEPT !.phase = p]
    <3>1. p \in Phases \cup {"done"} /\ run[r].phase \in Phases
      BY <2>2 DEF PhaseReturns, PhaseAfter, Phases
    <3>2. run' = [run EXCEPT ![r] = gone]
      BY <2>2 DEF PhaseReturns, Inductive, TypeOK, Execution
    <3>3. /\ gone \in Execution /\ run[r].phase # "none"
          /\ gone.at = run[r].at
          /\ gone.topic = run[r].topic /\ gone.pushes = run[r].pushes
      <4> HIDE DEF p
      <4> QED BY <1>2, <3>1 DEF Execution, Phases
    <3> HIDE DEF gone
    <3> QED BY <3>2, <3>3 DEF Inductive, TypeOK
  <2> QED BY <2>1, <2>2
<1>4. TypeOK'
  BY <1>1, <1>3 DEF Inductive, TypeOK, setup, calls
<1>5. MapHoldsOpenCalls'
  BY <1>1 DEF Inductive, MapHoldsOpenCalls, calls
<1>6. Asked'
  BY <1>1, <1>3 DEF Inductive, Asked, calls
<1>7. \A i \in Id : Offered(i)' = Offered(i)
  BY <1>3 DEF Offered, Answer, Run
<1>8. WasPushed'
  BY <1>1, <1>7 DEF Inductive, WasPushed, TypeOK, Message
<1>9. UNCHANGED Promise!vars
  BY <1>1, <1>3, Silent DEF calls
<1> QED BY <1>4, <1>5, <1>6, <1>8, <1>9 DEF Kept, Inductive

\* Delivery: a request starts a run, a response that was pushed may settle its call.
LEMMA DeliverLemma ==
  ASSUME Inductive, NEW m \in channel, Deliver(m)
  PROVE  Kept
<1>1. /\ UNCHANGED <<setup, MAP, exits>>
      /\ channel' \subseteq channel
      /\ HandleRequest(m.to, m) \/ UNCHANGED run
      /\ UNCHANGED <<call, answer>> \/ (m.kind = "res" /\ HandleResponse(m.to, m))
      /\ m.kind = "res" \/ UNCHANGED <<call, answer>>
      /\ m.kind = "req" \/ UNCHANGED run
  BY DEF Deliver
<1>2. m.id \in Id /\ m.topic \in Topic /\ m.to \in Proc /\ m.kind \in {"req", "res"}
  BY DEF Inductive, TypeOK, Message
<1>3. /\ run' \in [Run -> Execution]
      /\ \A r \in Run : run'[r].phase # "none" =>
           /\ run'[r].at \in Proc /\ run'[r].topic \in Topic
           /\ run[r].phase # "none" \/ r[1] = m.id
      /\ \A r \in Run : run'[r].pushes = run[r].pushes
  <2>1. CASE HandleRequest(m.to, m)
    BY <1>2, <2>1, Handled DEF Inductive
  <2>2. CASE UNCHANGED run
    BY <2>2 DEF Inductive, TypeOK
  <2> QED BY <1>1, <2>1, <2>2
<1>4. \A i \in Id : Offered(i)' = Offered(i)
  BY <1>3 DEF Offered, Answer, Run
<1>5. \/ UNCHANGED <<call, answer>>
      \/ /\ m.kind = "res" /\ m.answer \in Offered(m.id)
         /\ call[m.id] = "waiting"
         /\ call' = [call EXCEPT ![m.id] = "settled"]
         /\ answer' = [answer EXCEPT ![m.id] = m.answer]
  <2>1. CASE m.kind = "res" /\ HandleResponse(m.to, m)
    <3>1. m.answer \in Offered(m.id)
      BY <2>1 DEF Inductive, WasPushed
    <3>2. m.answer \in Answer
      BY <3>1 DEF Offered
    <3> QED BY <1>2, <2>1, <3>1, <3>2, Heard DEF Inductive
  <2> QED BY <1>1, <2>1
<1>6. /\ call' \in [Id -> {"new", "waiting", "settled", "returned", "cut"}]
      /\ answer' \in [Id -> Answer \cup {None}]
  BY <1>2, <1>5 DEF Inductive, TypeOK, Offered
<1>7. TypeOK'
  BY <1>1, <1>3, <1>6 DEF Inductive, TypeOK, setup
<1>8. MapHoldsOpenCalls' /\ \A j \in Id : call[j] # "new" => call'[j] # "new"
  BY <1>1, <1>2, <1>5, StillOpen DEF Inductive, MapHoldsOpenCalls
<1>9. Asked'
  <2>1. (\A q \in Run : q[1] \in Id) /\ (\A n \in channel : n.id \in Id)
    BY DEF Run, Inductive, TypeOK, Message
  <2>2. call[m.id] # "new"
    BY DEF Inductive, Asked
  <2> QED BY <1>1, <1>3, <1>8, <2>1, <2>2 DEF Inductive, Asked
<1>10. WasPushed'
  BY <1>1, <1>4 DEF Inductive, WasPushed, TypeOK, Message
<1>11. [Promise!Next]_(Promise!vars)
  <2>1. CASE UNCHANGED <<call, answer>>
    BY <1>3, <2>1, Silent
  <2>2. CASE ~UNCHANGED <<call, answer>>
    <3>1. Promise!Settle(m.id)
      BY <1>2, <1>4, <1>5, <2>2 DEF Promise!Settle, Promise!Settles
    <3> QED BY <1>2, <3>1 DEF Promise!Next
  <2> QED BY <2>1, <2>2
<1> QED BY <1>7, <1>8, <1>9, <1>10, <1>11 DEF Kept, Inductive

\* A lost message takes no promise with it.
LEMMA LoseLemma ==
  ASSUME Inductive, NEW m \in channel, Lose(m)
  PROVE  Kept
<1>1. UNCHANGED <<setup, calls, run, exits>> /\ channel' \subseteq channel
  BY DEF Lose
<1>2. TypeOK'
  BY <1>1 DEF Inductive, TypeOK, setup, calls
<1>3. MapHoldsOpenCalls' /\ Asked' /\ WasPushed'
  BY <1>1 DEF Inductive, MapHoldsOpenCalls, Asked, WasPushed, Offered, calls
<1>4. UNCHANGED Promise!vars
  BY <1>1, Silent DEF calls
<1> QED BY <1>2, <1>3, <1>4 DEF Kept, Inductive

\* The end of a process cuts exactly its open calls, those with an entry in MAP.
LEMMA ExitLemma ==
  ASSUME Inductive, NEW p \in Proc, Exit(p)
  PROVE  Kept
<1>1. /\ exits < MaxExits /\ exits' = exits + 1
      /\ consumer' = [consumer EXCEPT ![p] = "own"]
      /\ producer' = [producer EXCEPT ![p] = "own"]
      /\ own' = [own EXCEPT ![p] = {}]
      /\ bound' = [bound EXCEPT ![p] = {}]
      /\ MAP' = [MAP EXCEPT ![p] = {}]
      /\ call' = [i \in Id |-> IF i \in MAP[p] THEN "cut" ELSE call[i]]
      /\ channel' \subseteq channel
      /\ UNCHANGED answer
  BY DEF Exit
<1>2. MAP[p] = {i \in Id : i[1] = p /\ call[i] \in {"waiting", "settled"}}
  BY DEF Inductive, MapHoldsOpenCalls
<1>3. /\ run' \in [Run -> Execution]
      /\ \A q \in Run : /\ run'[q].phase # "none" => run[q].phase # "none"
                        /\ run'[q].at = run[q].at /\ run'[q].topic = run[q].topic
                        /\ run'[q].pushes = run[q].pushes
  <2>1. run' = [r \in Run |-> IF run[r].phase # "none" /\ run[r].at = p
                                THEN [run[r] EXCEPT !.phase = "gone"] ELSE run[r]]
    BY DEF Exit
  <2>2. ASSUME NEW q \in Run
        PROVE  /\ run'[q] \in Execution
               /\ run'[q].phase # "none" => run[q].phase # "none"
               /\ run'[q].at = run[q].at /\ run'[q].topic = run[q].topic
               /\ run'[q].pushes = run[q].pushes
    <3>1. run[q] \in Execution
      BY DEF Inductive, TypeOK
    <3>2. CASE run[q].phase # "none" /\ run[q].at = p
      <4>1. run'[q] = [run[q] EXCEPT !.phase = "gone"]
        BY <2>1, <3>2
      <4> QED BY <3>1, <3>2, <4>1 DEF Execution
    <3>3. CASE ~(run[q].phase # "none" /\ run[q].at = p)
      <4>1. run'[q] = run[q]
        BY <2>1, <3>3
      <4> QED BY <3>1, <4>1
    <3> QED BY <3>2, <3>3
  <2> QED BY <2>1, <2>2
<1>4. TypeOK'
  <2>1. exits' \in 0..MaxExits
    BY <1>1, RpcAssumption DEF Inductive, TypeOK
  <2>2. /\ consumer' \in [Proc -> Channels] /\ producer' \in [Proc -> Channels]
        /\ own' \in [Proc -> SUBSET Topic] /\ bound' \in [Proc -> SUBSET Topic]
        /\ MAP' \in [Proc -> SUBSET Id]
    BY <1>1 DEF Inductive, TypeOK, Channels
  <2>3. call' \in [Id -> {"new", "waiting", "settled", "returned", "cut"}]
    BY <1>1 DEF Inductive, TypeOK
  <2> QED BY <1>1, <1>3, <2>1, <2>2, <2>3 DEF Inductive, TypeOK
<1>5. MapHoldsOpenCalls'
  BY <1>1, <1>2 DEF Inductive, TypeOK, MapHoldsOpenCalls
<1>6. Asked'
  <2>1. (\A q \in Run : q[1] \in Id) /\ (\A n \in channel : n.id \in Id)
    BY DEF Run, Inductive, TypeOK, Message
  <2>2. \A j \in Id : call[j] # "new" => call'[j] # "new"
    BY <1>1
  <2> QED BY <1>1, <1>3, <2>1, <2>2 DEF Inductive, Asked
<1>7. \A i \in Id : Offered(i)' = Offered(i)
  BY <1>3 DEF Offered, Answer, Run
<1>8. WasPushed'
  BY <1>1, <1>7 DEF Inductive, WasPushed, TypeOK, Message
<1>9. Promise!Cut
  <2>1. MAP[p] \in SUBSET {i \in Id : call[i] \in {"waiting", "settled"}}
    BY <1>2
  <2> QED BY <1>1, <1>7, <2>1 DEF Promise!Cut
<1> QED BY <1>4, <1>5, <1>6, <1>8, <1>9 DEF Kept, Inductive, Promise!Next

\* Every step keeps the invariant and is one the promise allows.
LEMMA StepLemma ==
  ASSUME Inductive, [Next]_vars
  PROVE  Kept
<1>1. CASE \E p \in Proc : Setup(p) \/ Exit(p) \/ (\E i \in Id : Call(p, i))
  BY <1>1, SetupLemma, ExitLemma, CallLemma
<1>2. CASE \E i \in Id : Return(i)
  BY <1>2, ReturnLemma
<1>3. CASE \E r \in Run : Handler(r)
  BY <1>3, PushLemma, RunLemma DEF Handler
<1>4. CASE Transport
  BY <1>4, DeliverLemma, LoseLemma DEF Transport
<1>5. CASE UNCHANGED vars
  <2>1. Inductive'
    BY <1>5 DEF vars, Inductive, TypeOK, MapHoldsOpenCalls, Asked, WasPushed, Offered
  <2>2. UNCHANGED Promise!vars
    BY <1>5, Silent DEF vars
  <2> QED BY <2>1, <2>2 DEF Kept
<1> QED BY <1>1, <1>2, <1>3, <1>4, <1>5 DEF Next

-----------------------------------------------------------------------------
(* The theorems *)

\* The inductive invariant holds in every behaviour of Rpc.
THEOREM RpcInvariance == Spec => []Inductive
<1>1. Init => Inductive
  BY InitLemma
<1>2. Inductive /\ [Next]_vars => Inductive'
  BY StepLemma DEF Kept
<1> QED BY <1>1, <1>2, PTL DEF Spec

\* Every variable of Rpc always has its type.
THEOREM RpcTypeCorrect == Spec => []TypeOK
<1>1. Inductive => TypeOK
  BY DEF Inductive
<1> QED BY <1>1, RpcInvariance, PTL

\* MAP holds the open calls and nothing else: whatever handlers and the transport do,
\* no entry leaks and none is missing.
THEOREM NoEntryLeaks == Spec => []MapHoldsOpenCalls
<1>1. Inductive => MapHoldsOpenCalls
  BY DEF Inductive
<1> QED BY <1>1, RpcInvariance, PTL

\* rpc.send keeps the promise of RemoteCall: it returns at most once, with the first
\* response heard of those its own request was given.
THEOREM KeepsPromise == Spec => ImplementsRemoteCall
<1>1. Init => Promise!Init
  BY InitLemma
<1>2. Inductive /\ [Next]_vars => [Promise!Next]_(Promise!vars)
  BY StepLemma DEF Kept
<1> QED BY <1>1, <1>2, RpcInvariance, PTL DEF Spec, ImplementsRemoteCall, Promise!Spec

-----------------------------------------------------------------------------
(* One phase answers *)

\* A run whose phase has answered and has awaited that knows it, and goes on to "done".
RunOf(r) ==
  /\ run[r].phase = "none" => run[r].answered = {}
  /\ run[r].phase \in Phases => run[r].answered \subseteq {run[r].phase}
  /\ run[r].answered # {} => run[r].pushes > 0
  /\ run[r].awaited > 0 => run[r].sent
  /\ \A x, y \in run[r].answered : x = y

\* What a step does to one run, if pushes are awaited.
Progress(r) ==
  \/ run'[r] = run[r]
  \/ /\ run[r].phase = "none"
     /\ \E p \in Proc : \E t : run'[r] = [run[r] EXCEPT !.phase = "before", !.at = p, !.topic = t]
  \/ /\ run[r].phase \in Phases
     /\ run'[r] = [run[r] EXCEPT !.pushes = @ + 1, !.answered = @ \cup {run[r].phase}]
  \/ /\ run[r].awaited < run[r].pushes
     /\ run'[r] = [run[r] EXCEPT !.awaited = @ + 1, !.sent = TRUE]
  \/ /\ run[r].phase \in Phases /\ run[r].awaited = run[r].pushes
     /\ run'[r] = [run[r] EXCEPT !.phase = PhaseAfter(@, run[r].sent)]
  \/ run'[r] = [run[r] EXCEPT !.phase = "gone"]

\* Every step takes a run on in one of these ways.
LEMMA ProgressStep ==
  ASSUME "awaits" \in Discipline, TypeOK, [Next]_vars, NEW r \in Run
  PROVE  Progress(r)
<1>0. run[r] \in Execution
  BY DEF TypeOK
<1>1. CASE UNCHANGED run
  BY <1>1 DEF Progress
<1>2. ASSUME NEW p \in Proc, NEW m, HandleRequest(p, m)
      PROVE  Progress(r)
  BY <1>2 DEF HandleRequest, NextRun, Progress
<1>3. ASSUME NEW p \in Proc, Setup(p) \/ (\E i \in Id : Call(p, i))
      PROVE  Progress(r)
  BY <1>1, <1>2, <1>3 DEF Setup, SetConsumer, SetProducer, On, Call
<1>4. ASSUME NEW p \in Proc, Exit(p)
      PROVE  Progress(r)
  BY <1>4 DEF Exit, Progress
<1>5. ASSUME NEW q \in Run, Push(q)
      PROVE  Progress(r)
  <2>1. /\ run[q].phase \in Phases
        /\ run' = [run EXCEPT ![q].pushes = @ + 1, ![q].answered = @ \cup {run[q].phase}]
    BY <1>5 DEF Push
  <2>2. CASE q = r
    <3>1. run'[r] = [run[r] EXCEPT !.pushes = @ + 1, !.answered = @ \cup {run[r].phase}]
      BY <2>1, <2>2, <1>0 DEF TypeOK, Execution
    <3> QED BY <2>1, <2>2, <3>1 DEF Progress
  <2>3. CASE q # r
    BY <2>1, <2>3 DEF Progress, TypeOK
  <2> QED BY <2>2, <2>3
<1>6. ASSUME NEW q \in Run, Pushed(q)
      PROVE  Progress(r)
  <2>1. /\ run[q].awaited < run[q].pushes
        /\ run' = [run EXCEPT ![q].awaited = @ + 1, ![q].sent = TRUE]
    BY <1>6 DEF Pushed
  <2>2. CASE q = r
    <3>1. run'[r] = [run[r] EXCEPT !.awaited = @ + 1, !.sent = TRUE]
      BY <2>1, <2>2, <1>0 DEF TypeOK, Execution
    <3> QED BY <2>1, <2>2, <3>1 DEF Progress
  <2>3. CASE q # r
    BY <2>1, <2>3 DEF Progress, TypeOK
  <2> QED BY <2>2, <2>3
<1>7. ASSUME NEW q \in Run, PhaseReturns(q)
      PROVE  Progress(r)
  <2>1. /\ run[q].phase \in Phases /\ run[q].awaited = run[q].pushes
        /\ run' = [run EXCEPT ![q].phase = PhaseAfter(@, run[q].sent)]
    BY <1>7 DEF PhaseReturns
  <2>2. CASE q = r
    <3>1. run'[r] = [run[r] EXCEPT !.phase = PhaseAfter(@, run[r].sent)]
      BY <2>1, <2>2, <1>0 DEF TypeOK, Execution
    <3> QED BY <2>1, <2>2, <3>1 DEF Progress
  <2>3. CASE q # r
    BY <2>1, <2>3 DEF Progress, TypeOK
  <2> QED BY <2>2, <2>3
<1>8. ASSUME NEW m \in channel, Deliver(m) \/ Lose(m)
      PROVE  Progress(r)
  <2>1. m.to \in Proc
    BY DEF TypeOK, Message
  <2> QED BY <1>1, <1>2, <1>8, <2>1 DEF Deliver, Lose
<1> QED
  BY <1>1, <1>3, <1>4, <1>5, <1>6, <1>7, <1>8 DEF Next, Handler, Transport, vars, Return

\* An answering phase is the last one.
LEMMA RunOfStep ==
  ASSUME "awaits" \in Discipline, TypeOK, [Next]_vars, NEW r \in Run, RunOf(r)
  PROVE  RunOf(r)'
<1>1. run[r] \in Execution
  BY DEF TypeOK
<1>2. run[r].pushes \in Nat /\ run[r].awaited \in Nat
  BY <1>1, RpcAssumption DEF Execution
<1>3. CASE run'[r] = run[r]
  BY <1>3 DEF RunOf
<1>4. ASSUME NEW p \in Proc, NEW t, run[r].phase = "none",
             run'[r] = [run[r] EXCEPT !.phase = "before", !.at = p, !.topic = t]
      PROVE  RunOf(r)'
  BY <1>1, <1>4 DEF RunOf, Execution
<1>5. CASE /\ run[r].phase \in Phases
           /\ run'[r] = [run[r] EXCEPT !.pushes = @ + 1, !.answered = @ \cup {run[r].phase}]
  <2>1. /\ run'[r].phase = run[r].phase /\ run'[r].pushes = run[r].pushes + 1
        /\ run'[r].answered = run[r].answered \cup {run[r].phase}
        /\ run'[r].awaited = run[r].awaited /\ run'[r].sent = run[r].sent
    BY <1>1, <1>5 DEF Execution
  <2>2. run'[r].pushes > 0
    BY <1>2, <2>1
  <2>3. run[r].phase # "none"
    BY <1>5 DEF Phases
  <2> QED BY <1>5, <2>1, <2>2, <2>3 DEF RunOf
<1>6. CASE /\ run[r].awaited < run[r].pushes
           /\ run'[r] = [run[r] EXCEPT !.awaited = @ + 1, !.sent = TRUE]
  <2>1. /\ run'[r].phase = run[r].phase /\ run'[r].pushes = run[r].pushes
        /\ run'[r].answered = run[r].answered /\ run'[r].sent
    BY <1>1, <1>6 DEF Execution
  <2> QED BY <2>1 DEF RunOf
<1>7. CASE /\ run[r].phase \in Phases /\ run[r].awaited = run[r].pushes
           /\ run'[r] = [run[r] EXCEPT !.phase = PhaseAfter(@, run[r].sent)]
  <2>1. /\ run'[r].phase = PhaseAfter(run[r].phase, run[r].sent)
        /\ run'[r].pushes = run[r].pushes /\ run'[r].awaited = run[r].awaited
        /\ run'[r].answered = run[r].answered /\ run'[r].sent = run[r].sent
    BY <1>1, <1>7 DEF Execution
  <2>2. run[r].answered # {} => run'[r].phase = "done"
    BY <1>7, <2>1 DEF RunOf, PhaseAfter
  <2>3. run'[r].phase # "none" /\ "done" \notin Phases
    BY <2>1 DEF PhaseAfter, Phases
  <2> QED BY <2>1, <2>2, <2>3 DEF RunOf
<1>8. CASE run'[r] = [run[r] EXCEPT !.phase = "gone"]
  <2>1. /\ run'[r].phase = "gone"
        /\ run'[r].pushes = run[r].pushes /\ run'[r].awaited = run[r].awaited
        /\ run'[r].answered = run[r].answered /\ run'[r].sent = run[r].sent
    BY <1>1, <1>8 DEF Execution
  <2> QED BY <2>1 DEF RunOf, Phases
<1> QED BY <1>3, <1>4, <1>5, <1>6, <1>7, <1>8, ProgressStep DEF Progress

\* If the application awaits its pushes, a request is answered by one of _before, the
\* handler and _after only.
THEOREM OnePhase ==
  ASSUME "awaits" \in Discipline
  PROVE  Spec => []OnePhaseAnswers
<1> DEFINE Runs == \A r \in Run : RunOf(r)
<1>1. Init => Runs
  BY DEF Init, RunOf, Phases
<1>2. TypeOK /\ Runs /\ [Next]_vars => Runs'
  BY RunOfStep
<1>3. Runs => OnePhaseAnswers
  <2> SUFFICES ASSUME NEW r \in Run, RunOf(r) PROVE Cardinality(run[r].answered) <= 1
    BY DEF OnePhaseAnswers
  <2>1. CASE run[r].answered = {}
    BY <2>1, FS_EmptySet
  <2>2. CASE run[r].answered # {}
    <3>1. PICK x : run[r].answered = {x}
      BY <2>2 DEF RunOf
    <3> QED BY <3>1, FS_Singleton, SMTT(30)
  <2> QED BY <2>1, <2>2
<1> QED BY <1>1, <1>2, <1>3, RpcTypeCorrect, PTL DEF Spec

-----------------------------------------------------------------------------
(* Calls that a handler has taken *)

\* One client for each topic of responses, of processes that set up before they call,
\* await their pushes, answer in the end, and do not end.
OneClient ==
  /\ Discipline = {"prepared", "awaits", "answers"}
  /\ "undefined" \notin Payload
  /\ Transported = Proc /\ Reliable /\ MaxExits = 0
  /\ \A p \in Callers : Route["res"] \subseteq {p}

\* Consumers are registered at the transport, and only after consumer and producer
\* were set.
Ready ==
  \A p \in Proc : /\ own[p] = {}
                  /\ bound[p] # {} => producer[p] = "transport"

\* Who handles a request, and the client that made it, have consumers of its topic.
Home ==
  \A r \in Run : run[r].phase # "none" =>
    /\ r[1][1] \in Callers
    /\ run[r].topic \in bound[r[1][1]] /\ run[r].topic \in bound[run[r].at]

\* What is on its way can be read, and a response goes to the client that asked.
WellAddressed ==
  \A m \in channel :
    /\ m.payload # "undefined" /\ m.id[1] \in Callers /\ m.topic \in bound[m.id[1]]
    /\ m.kind = "res" => m.to = m.id[1]

\* A run that is over has answered.
Answering ==
  \A r \in Run :
    /\ run[r].phase # "gone"
    /\ run[r].phase = "none" => run[r].pushes = 0
    /\ run[r].sent \/ run[r].phase = "done" => run[r].pushes > 0

\* An answer to a call that still waits is on its way.
AnswerOnItsWay ==
  \A r \in Run : run[r].pushes > 0 /\ call[r[1]] = "waiting" =>
    \E m \in channel : m.kind = "res" /\ m.id = r[1]

Tended == Ready /\ Home /\ WellAddressed /\ Answering /\ AnswerOnItsWay

\* Setting up only adds consumers.
LEMMA TendedSetup ==
  ASSUME OneClient, Inductive, Tended, NEW p \in Proc, Setup(p)
  PROVE  Tended'
<1>1. UNCHANGED <<MAP, call, answer, run, channel>>
  BY DEF Setup, SetConsumer, SetProducer, On, calls
<1>2. UNCHANGED own /\ \A q \in Proc : bound[q] \subseteq bound'[q]
  BY DEF Setup, SetConsumer, SetProducer, On, OneClient, IsSet, Prepared, Inductive, TypeOK
<1>3. \A q \in Proc : bound'[q] # {} => producer'[q] = "transport"
  BY DEF Setup, SetConsumer, SetProducer, On, OneClient, IsSet, Prepared, Inductive, TypeOK,
         Tended, Ready
<1>4. Ready' /\ Answering' /\ AnswerOnItsWay'
  BY <1>1, <1>2, <1>3 DEF Tended, Ready, Answering, AnswerOnItsWay
<1>5. Home'
  BY <1>1, <1>2 DEF Tended, Home, Inductive, TypeOK, Run, Id
<1>6. WellAddressed'
  BY <1>1, <1>2 DEF Tended, WellAddressed, Inductive, TypeOK, Message, Id
<1> QED BY <1>4, <1>5, <1>6 DEF Tended

\* A call asks a topic its client has a consumer of, and no run answers it yet.
LEMMA TendedCall ==
  ASSUME OneClient, Inductive, Tended, NEW p \in Proc, NEW i \in Id, Call(p, i)
  PROVE  Tended'
<1>1. PICK t \in Topic, payload \in Payload :
        LET m == Request(i, t, payload)
        IN  /\ Prepared => t \in own[p] \cup bound[p]
            /\ IF Locally(p, m) THEN HandleRequest(p, m) ELSE UNCHANGED run
            /\ Submit(p, m)
  BY DEF Call
<1> DEFINE m == Request(i, t, payload)
<1>2. UNCHANGED <<setup, answer>> /\ p \in Callers /\ i[1] = p /\ call[i] = "new"
      /\ call' = [call EXCEPT ![i] = "waiting"]
  BY DEF Call
<1>3. own[p] = {} /\ t \in bound[p] /\ payload # "undefined"
  BY <1>1 DEF Tended, Ready, Prepared, OneClient
<1>4. UNCHANGED run
  BY <1>1, <1>3 DEF Locally
<1>5. channel' = channel \/ \E q \in Proc : channel' = channel \cup {[m EXCEPT !.to = q]}
  BY <1>1, RpcAssumption DEF Submit, Request
<1>6. Ready' /\ Home' /\ Answering'
  BY <1>2, <1>4 DEF Tended, Ready, Home, Answering, setup
<1>7. WellAddressed'
  <2>1. ASSUME NEW q \in Proc, NEW n, n = [m EXCEPT !.to = q]
        PROVE  /\ n.payload # "undefined" /\ n.id[1] \in Callers /\ n.topic \in bound[n.id[1]]
               /\ n.kind = "req"
    BY <1>2, <1>3, <2>1 DEF Request
  <2> QED BY <1>2, <1>5, <2>1 DEF Tended, WellAddressed, setup
<1>8. AnswerOnItsWay'
  <2> SUFFICES ASSUME NEW r \in Run, run[r].pushes > 0, call'[r[1]] = "waiting"
               PROVE  \E n \in channel' : n.kind = "res" /\ n.id = r[1]
    BY <1>4 DEF AnswerOnItsWay
  <2>1. r[1] # i
    <3>1. run[r].phase # "none"
      BY DEF Tended, Answering
    <3> QED BY <1>2, <3>1 DEF Inductive, Asked
  <2>2. call[r[1]] = "waiting"
    BY <1>2, <2>1 DEF Inductive, TypeOK, Run
  <2> QED BY <1>5, <2>2 DEF Tended, AnswerOnItsWay
<1> QED BY <1>6, <1>7, <1>8 DEF Tended

\* A call that returns waited no more.
LEMMA TendedReturn ==
  ASSUME Inductive, Tended, NEW i \in Id, Return(i)
  PROVE  Tended'
<1>1. UNCHANGED <<setup, run, channel>> /\ call' = [call EXCEPT ![i] = "returned"]
  BY DEF Return
<1>2. Ready' /\ Home' /\ WellAddressed' /\ Answering'
  BY <1>1 DEF Tended, Ready, Home, WellAddressed, Answering, setup
<1>3. AnswerOnItsWay'
  BY <1>1 DEF Tended, AnswerOnItsWay, Inductive, TypeOK, Run
<1> QED BY <1>2, <1>3 DEF Tended

\* A push sends its response to the client.
LEMMA TendedPush ==
  ASSUME OneClient, Inductive, Tended, NEW r \in Run, Push(r)
  PROVE  Tended'
<1>1. PICK payload \in Payload :
        LET m == Response(r, payload)
            p == run[r].at
        IN  /\ IF Locally(p, m) THEN HandleResponse(p, m) ELSE UNCHANGED <<call, answer>>
            /\ Submit(p, m)
  BY DEF Push
<1> DEFINE m == Response(r, payload)
           p == run[r].at
<1>2. /\ UNCHANGED <<setup, MAP>> /\ run[r].phase \in Phases
      /\ run' = [run EXCEPT ![r].pushes = @ + 1, ![r].answered = @ \cup {run[r].phase}]
  BY DEF Push, OneClient
<1>3. /\ run[r].phase # "none" /\ p \in Proc /\ run[r] \in Execution
  BY <1>2 DEF Phases, Inductive, TypeOK
<1>4. /\ r[1][1] \in Callers /\ run[r].topic \in bound[r[1][1]] /\ run[r].topic \in bound[p]
  BY <1>3 DEF Tended, Home
<1>5. producer[p] = "transport"
  BY <1>3, <1>4 DEF Tended, Ready
<1>6. UNCHANGED <<call, answer>>
  BY <1>1, <1>5 DEF Locally
<1>7. channel' = channel \cup {[m EXCEPT !.to = r[1][1]]}
  <2>1. PICK q \in Route["res"] : channel' = channel \cup {[m EXCEPT !.to = q]}
    BY <1>1, <1>5 DEF Submit, Response
  <2> QED BY <1>4, <2>1 DEF OneClient
<1> DEFINE n == [m EXCEPT !.to = r[1][1]]
<1>8. /\ n.kind = "res" /\ n.id = r[1] /\ n.topic = run[r].topic /\ n.payload = payload
      /\ n.to = r[1][1]
  BY DEF Response
<1>9. payload # "undefined"
  BY DEF OneClient
<1>10. \A q \in Run : /\ run'[q].phase = run[q].phase /\ run'[q].topic = run[q].topic
                      /\ run'[q].at = run[q].at /\ run'[q].sent = run[q].sent
                      /\ q # r => run'[q].pushes = run[q].pushes
  BY <1>2 DEF Inductive, TypeOK, Execution
<1>11. run'[r].pushes > 0
  <2>1. run'[r].pushes = run[r].pushes + 1
    BY <1>2, <1>3 DEF Inductive, TypeOK, Execution
  <2> QED BY <1>3, <2>1, RpcAssumption DEF Execution
<1>12. Ready' /\ Home'
  BY <1>2, <1>10 DEF Tended, Ready, Home, setup
<1>13. WellAddressed'
  <2> HIDE DEF n
  <2>1. channel' = channel \cup {n}
    BY <1>7 DEF n
  <2> QED BY <1>2, <1>4, <1>8, <1>9, <2>1 DEF Tended, WellAddressed, setup
<1>14. Answering'
  BY <1>3, <1>10, <1>11 DEF Tended, Answering
<1>15. AnswerOnItsWay'
  <2> HIDE DEF n
  <2>1. channel' = channel \cup {n}
    BY <1>7 DEF n
  <2> QED BY <1>6, <1>8, <1>10, <2>1 DEF Tended, AnswerOnItsWay
<1> QED BY <1>12, <1>13, <1>14, <1>15 DEF Tended

\* A phase that is the last has pushed, or an earlier one has.
LEMMA TendedPhase ==
  ASSUME OneClient, Inductive, Tended, NEW r \in Run, Pushed(r) \/ PhaseReturns(r)
  PROVE  Tended'
<1>1. UNCHANGED <<setup, call, channel>>
  BY DEF Pushed, PhaseReturns, calls
<1>2. run[r] \in Execution /\ run \in [Run -> Execution]
  BY DEF Inductive, TypeOK
<1>3. \A q \in Run : /\ run'[q].pushes = run[q].pushes
                     /\ run'[q].at = run[q].at /\ run'[q].topic = run[q].topic
                     /\ run'[q].phase = "none" <=> run[q].phase = "none"
  <2>1. CASE Pushed(r)
    BY <1>2, <2>1 DEF Pushed, Execution
  <2>2. CASE PhaseReturns(r)
    BY <1>2, <2>2 DEF PhaseReturns, Execution, PhaseAfter, Phases
  <2> QED BY <2>1, <2>2
<1>4. Answering'
  <2>1. run[r].pushes \in Nat /\ run[r].awaited \in Nat
    BY <1>2, RpcAssumption DEF Execution
  <2>2. CASE Pushed(r)
    <3>1. \A q \in Run : run'[q].phase = run[q].phase /\ (q # r => run'[q].sent = run[q].sent)
      BY <1>2, <2>2 DEF Pushed, Execution
    <3>2. run[r].pushes > 0 /\ run[r].phase # "none"
      BY <2>1, <2>2 DEF Pushed, Tended, Answering
    <3> QED BY <1>3, <3>1, <3>2 DEF Tended, Answering
  <2>3. CASE PhaseReturns(r)
    <3>1. /\ run[r].phase \in Phases
          /\ run[r].phase = "after" => run[r].pushes > 0
          /\ run' = [run EXCEPT ![r].phase = PhaseAfter(@, run[r].sent)]
      BY <2>3 DEF PhaseReturns, OneClient
    <3>2. \A q \in Run : /\ run'[q].sent = run[q].sent
                         /\ q # r => run'[q].phase = run[q].phase
      BY <1>2, <3>1 DEF Execution
    <3>3. run'[r].phase = PhaseAfter(run[r].phase, run[r].sent)
      BY <1>2, <3>1 DEF Execution
    <3>4. /\ run'[r].phase \notin {"gone", "none"}
          /\ run'[r].phase = "done" => run[r].sent \/ run[r].phase = "after"
      BY <3>1, <3>3 DEF PhaseAfter, Phases
    <3> QED BY <1>3, <3>1, <3>2, <3>4 DEF Tended, Answering
  <2> QED BY <2>2, <2>3
<1>5. Ready' /\ WellAddressed' /\ Home' /\ AnswerOnItsWay'
  BY <1>1, <1>3 DEF Tended, Ready, WellAddressed, Home, AnswerOnItsWay, setup
<1> QED BY <1>4, <1>5 DEF Tended

\* A request begins a run where its topic has a consumer; a response reaches the
\* client that asked and settles its call.
LEMMA TendedDeliver ==
  ASSUME OneClient, Inductive, Tended, NEW m \in channel, Deliver(m)
  PROVE  Tended'
<1>1. /\ UNCHANGED <<setup, MAP>> /\ channel' \in {channel, channel \ {m}}
  BY DEF Deliver
<1>2. m \in Message /\ m.id \in Id /\ m.to \in Proc /\ m.topic \in Topic
  BY DEF Inductive, TypeOK, Message
<1>3. /\ m.payload # "undefined" /\ m.id[1] \in Callers /\ m.topic \in bound[m.id[1]]
      /\ m.kind = "res" => m.to = m.id[1]
  BY DEF Tended, WellAddressed
<1>4. Ready' /\ WellAddressed'
  BY <1>1 DEF Tended, Ready, WellAddressed, setup
<1>5. \A r \in Run :
        \/ run'[r] = run[r]
        \/ /\ run[r].phase = "none" /\ r[1] = m.id /\ m.topic \in bound[m.to]
           /\ run'[r] = [run[r] EXCEPT !.phase = "before", !.at = m.to, !.topic = m.topic]
  <2>1. CASE UNCHANGED run
    BY <2>1
  <2>2. CASE HandleRequest(m.to, m) /\ m.topic \in bound[m.to]
    BY <2>2 DEF HandleRequest, NextRun
  <2> QED BY <2>1, <2>2 DEF Deliver
<1>6. \A r \in Run :
        /\ run'[r].pushes = run[r].pushes /\ run'[r].sent = run[r].sent
        /\ \/ /\ run'[r].phase = run[r].phase /\ run'[r].at = run[r].at
              /\ run'[r].topic = run[r].topic
           \/ /\ r[1] = m.id /\ m.topic \in bound[m.to]
              /\ run[r].phase = "none" /\ run'[r].phase = "before"
              /\ run'[r].at = m.to /\ run'[r].topic = m.topic
  <2> TAKE r \in Run
  <2>1. run[r] \in Execution
    BY DEF Inductive, TypeOK
  <2>2. CASE run'[r] = run[r]
    BY <2>2
  <2>3. CASE run'[r] # run[r]
    <3>1. /\ run[r].phase = "none" /\ r[1] = m.id /\ m.topic \in bound[m.to]
          /\ run'[r] = [run[r] EXCEPT !.phase = "before", !.at = m.to, !.topic = m.topic]
      BY <1>5, <2>3
    <3>2. /\ run'[r].pushes = run[r].pushes /\ run'[r].sent = run[r].sent
          /\ run'[r].phase = "before" /\ run'[r].at = m.to /\ run'[r].topic = m.topic
      BY <2>1, <3>1 DEF Execution
    <3> QED BY <3>1, <3>2
  <2> QED BY <2>2, <2>3
<1>7. Home'
  BY <1>1, <1>3, <1>6 DEF Tended, Home, setup
<1>8. Answering'
  BY <1>6 DEF Tended, Answering
<1>9. AnswerOnItsWay'
  <2>1. CASE m.kind = "req"
    <3>1. UNCHANGED call /\ \A n \in channel : n.kind = "res" => n \in channel'
      BY <1>1, <2>1 DEF Deliver
    <3> QED BY <1>6, <3>1 DEF Tended, AnswerOnItsWay
  <2>2. CASE m.kind = "res"
    <3>1. HandleResponse(m.to, m)
      BY <1>3, <2>2 DEF Deliver
    <3>2. \A i \in Id : /\ call'[i] = "waiting" => call[i] = "waiting"
                        /\ i \in MAP[m.to] /\ i = m.id => call'[i] # "waiting"
      BY <1>3, <3>1 DEF HandleResponse, Addressee, Readable
    <3>3. call'[m.id] # "waiting"
      <4>1. call[m.id] = "waiting" => m.id \in MAP[m.to]
        BY <1>2, <1>3, <2>2 DEF Inductive, MapHoldsOpenCalls
      <4> QED BY <1>2, <3>2, <4>1
    <3> SUFFICES ASSUME NEW r \in Run, run[r].pushes > 0, call'[r[1]] = "waiting"
                 PROVE  \E n \in channel' : n.kind = "res" /\ n.id = r[1]
      BY <1>6 DEF AnswerOnItsWay
    <3>4. r[1] \in Id /\ call[r[1]] = "waiting" /\ r[1] # m.id
      BY <3>2, <3>3 DEF Run
    <3>5. PICK n \in channel : n.kind = "res" /\ n.id = r[1]
      BY <3>4 DEF Tended, AnswerOnItsWay
    <3> QED BY <1>1, <3>4, <3>5
  <2> QED BY <1>2, <2>1, <2>2 DEF Message
<1> QED BY <1>4, <1>7, <1>8, <1>9 DEF Tended

\* With one client for each topic of responses, whatever repeats requests and responses
\* and whoever handles them, a call that a handler has taken is not forgotten: a run of
\* it goes on or a response is on its way to it (index.ts:386-434).
THEOREM NoCallForgotten ==
  ASSUME OneClient
  PROVE  Spec => []NoStrandedCall
<1>1. Init => Tended
  BY DEF Init, Tended, Ready, Home, WellAddressed, Answering, AnswerOnItsWay
<1>2. Inductive /\ Tended /\ [Next]_vars => Tended'
  <2> SUFFICES ASSUME Inductive, Tended, [Next]_vars PROVE Tended'
    OBVIOUS
  <2>1. CASE \E p \in Proc : Setup(p) \/ Exit(p) \/ (\E i \in Id : Call(p, i))
    <3>1. \A p \in Proc : ~Exit(p)
      BY DEF Exit, OneClient, Inductive, TypeOK
    <3> QED BY <2>1, <3>1, TendedSetup, TendedCall
  <2>2. CASE \E i \in Id : Return(i)
    BY <2>2, TendedReturn
  <2>3. CASE \E r \in Run : Handler(r)
    BY <2>3, TendedPush, TendedPhase DEF Handler
  <2>4. CASE Transport
    <3>1. \A m \in channel : ~Lose(m)
      BY DEF Lose, OneClient
    <3> QED BY <2>4, <3>1, TendedDeliver DEF Transport
  <2>5. CASE UNCHANGED vars
    BY <2>5 DEF vars, Tended, Ready, Home, WellAddressed, Answering, AnswerOnItsWay
  <2> QED BY <2>1, <2>2, <2>3, <2>4, <2>5 DEF Next
<1>3. Inductive /\ Tended => NoStrandedCall
  <2> SUFFICES ASSUME Inductive, Tended, NEW i \in Id, call[i] = "waiting",
                      NEW r \in Run, r[1] = i, run[r].phase # "none",
                      run[r].phase \notin Phases
               PROVE  \E m \in channel : m.kind = "res" /\ m.id = i
    BY DEF NoStrandedCall
  <2>1. run[r].phase \in {"done", "gone"}
    BY DEF Inductive, TypeOK, Execution
  <2>2. run[r].pushes > 0
    BY <2>1 DEF Tended, Answering
  <2> QED BY <2>2 DEF Tended, AnswerOnItsWay
<1> QED BY <1>1, <1>2, <1>3, RpcInvariance, PTL DEF Spec
=============================================================================
