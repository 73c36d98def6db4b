-------------------------------- MODULE Umqt --------------------------------
(***************************************************************************)
(* UMQT, the UDP transport of native/src/transport/umqt.rs, as it runs in  *)
(* several processes that exchange datagrams.                              *)
(*                                                                         *)
(* send() asks every server of a topic with an "i" datagram, repeated      *)
(* every 300 ms, until one of them answers "v".  The first answer wins:    *)
(* the acceptor hands that server the data ("_"), once if the message is   *)
(* unreliable, every 300 ms until "x" comes back if it is reliable.        *)
(*                                                                         *)
(* UDP loses, reorders and (with Duplicates) duplicates datagrams.  A      *)
(* process may end at any step; nothing it holds is persistent.            *)
(***************************************************************************)
EXTENDS Naturals

CONSTANTS
  Node,          \* processes, each with one UMQT instance on one UDP port
  Topic,         \* topics of the application
  Payload,       \* byte strings the application sends
  Oversize,      \* payloads whose datagram is longer than the receiver's block
  Routes,        \* <<n, t, m>>: add_server calls the application may make
  Subscriptions, \* <<n, t>>: on calls the application may make
  MaxId,         \* bound: request ids per process
  MaxHandled,    \* bound: the handler counter saturates here
  MaxExits,      \* bound: process ends per behaviour
  MaxStops,      \* bound: stop calls per behaviour
  Duplicates,    \* does the network duplicate datagrams?
  None           \* absent value

ASSUME ConstantsAssumption ==
  /\ Oversize \subseteq Payload
  /\ Routes \subseteq Node \X Topic \X Node
  /\ Subscriptions \subseteq Node \X Topic
  /\ MaxId \in Nat
  /\ MaxHandled \in Nat \ {0}
  /\ MaxExits \in Nat
  /\ MaxStops \in Nat
  /\ Duplicates \in BOOLEAN

\* generate_request_id() is a wall clock in nanoseconds: it grows within one
\* process, across its restarts too, and may repeat between processes.
Id == 1 .. MaxId

\* What a sender keeps is keyed by its own id; <<n, i>> is request i of n.
Key == Node \X Id

Request == [topic : Topic, bytes : Payload, reliable : BOOLEAN,
            servers : SUBSET Node]

Datagram == [prefix : {"i", "v", "_", "x"}, src : Node, dst : Node, id : Id,
             reliable : BOOLEAN, topic : Topic, bytes : Payload \cup {None}]

ASSUME NoneAssumption == None \notin Node \cup Payload \cup Request \cup Datagram

VARIABLES
  node,             \* "down", "created" (UMQT::new), "bound" (start) or
                    \* "stopping": the loop has ended, the socket is still there
  topic_servers,    \* topic_servers[n][t]: addresses given to add_server
  consumers,        \* consumers[n]: topics with a handler
  clock,            \* last request id given out by n
  request,          \* request[k]: the arguments and locals of send k
  send_pc,          \* where send k is
  jobs,             \* jobs[k]: bytes waiting for a server, or None
  notify_discovery, \* keys in the map of this name; likewise the next two
  notify_sent,
  notify_finish,
  permit,           \* <<w, k>>: Notify w of request k holds a permit
  resend,           \* data datagrams of the running 300 ms resend tasks
  acceptor,         \* datagram whose handler is half done, or None
  msgs,             \* datagrams in flight
  handled,          \* handled[<<m, k>>]: how often m ran its handler for k
  winner,           \* winner[k]: the server whose answer was the first, or None
  lost,             \* <<m, k>>: m acknowledged k and did not handle it
  leaked,           \* requests whose resend task a stop has cut off from its "x"
  exits,            \* process ends so far
  stops             \* stop calls so far

senderVars == <<clock, request, send_pc, jobs, notify_discovery, notify_sent,
                notify_finish, permit, resend>>
setupVars == <<topic_servers, consumers>>
historyVars == <<winner, handled, lost, leaked>>
boundVars == <<exits, stops>>
vars == <<node, setupVars, senderVars, acceptor, msgs, historyVars, boundVars>>

-----------------------------------------------------------------------------
(* Helpers *)

\* The request a datagram is about: "i" and "_" travel from the requester.
KeyOf(d) == IF d.prefix \in {"i", "_"} THEN <<d.src, d.id>> ELSE <<d.dst, d.id>>

\* The handler of n is half done with a datagram of this prefix about k.
Accepting(n, p, k) ==
  /\ acceptor[n] # None
  /\ acceptor[n].prefix = p /\ KeyOf(acceptor[n]) = k

Waiting(k) == send_pc[k] \in {"discover", "finish"}

\* Bug: a send does not block the thread it is called on.
BlockedBug(n) == FALSE

\* umqt_send holds the lock of UMQT_MAP, and the JS thread, until send returns.
Blocked(n) == \E i \in Id : Waiting(<<n, i>>)

\* Bug: a datagram that was cut is taken for a whole one.
ReadableBug(d) == TRUE

\* read_block fails on a datagram that recv_from truncated to the block.
Readable(d) == d.bytes \notin Oversize

\* Bug: the id does not parse and becomes 0.
AnswerIdBug(d, p) == [d EXCEPT !.prefix = p, !.src = d.dst, !.dst = d.src,
                               !.bytes = None, !.id = 0]

\* Bug: the answer does not repeat the request's reliability.
AnswerFlagBug(d, p) == [d EXCEPT !.prefix = p, !.src = d.dst, !.dst = d.src,
                                 !.bytes = None, !.reliable = FALSE]

\* An answer goes to the address the datagram came from.
Answer(d, p) == [d EXCEPT !.prefix = p, !.src = d.dst, !.dst = d.src,
                          !.bytes = None]

\* The data datagram built from the first "v" and the job.
Data(d, bytes) == [d EXCEPT !.prefix = "_", !.src = d.dst, !.dst = d.src,
                            !.bytes = bytes]

\* recv_from takes d, of which the network may keep a copy, and out is sent.
Transfer(d, out) ==
  \/ msgs' = (msgs \ {d}) \cup out
  \/ Duplicates /\ msgs' = msgs \cup out

\* Bug: notify_waiters(), which wakes nobody who is not yet waiting.
NotifyOneBug(w, k) == permit

\* notify_one() keeps a permit for a waiter that is not there yet.
NotifyOne(w, k) == permit \cup {<<w, k>>}

\* The acceptor handles one datagram at a time.
Accepts(n, d) ==
  /\ node[n] = "bound" /\ acceptor[n] = None
  /\ d \in msgs /\ d.dst = n

Saturated(i) == IF i < MaxHandled THEN i + 1 ELSE i

\* The handler registered for the topic runs, if there is one.
RunHandler(n, d) ==
  LET k == KeyOf(d) IN
  \/ /\ d.topic \in consumers[n]
     /\ handled' = [handled EXCEPT ![<<n, k>>] = Saturated(@)]
     /\ UNCHANGED lost
  \/ /\ d.topic \notin consumers[n]
     /\ lost' = lost \cup {p \in {<<n, k>>} : d.reliable}
     /\ UNCHANGED handled

Init ==
  /\ node = [n \in Node |-> "down"]
  /\ topic_servers = [n \in Node |-> [t \in Topic |-> {}]]
  /\ consumers = [n \in Node |-> {}]
  /\ clock = [n \in Node |-> 0]
  /\ request = [k \in Key |-> None]
  /\ send_pc = [k \in Key |-> "idle"]
  /\ jobs = [k \in Key |-> None]
  /\ notify_discovery = {} /\ notify_sent = {} /\ notify_finish = {}
  /\ permit = {}
  /\ resend = {}
  /\ acceptor = [n \in Node |-> None]
  /\ msgs = {}
  /\ handled = [p \in Node \X Key |-> 0]
  /\ winner = [k \in Key |-> None]
  /\ lost = {}
  /\ leaked = {}
  /\ exits = 0 /\ stops = 0

-----------------------------------------------------------------------------
(* The application sets a process up *)

Create(n) ==
  /\ node[n] = "down"
  /\ node' = [node EXCEPT ![n] = "created"]
  /\ UNCHANGED <<setupVars, senderVars, acceptor, msgs, historyVars, boundVars>>

\* JS cannot call it while a send blocks its thread.
AddServer(n, t, m) ==
  /\ node[n] # "down" /\ ~Blocked(n)
  /\ topic_servers' = [topic_servers EXCEPT ![n][t] = @ \cup {m}]
  /\ UNCHANGED <<node, consumers, senderVars, acceptor, msgs, historyVars, boundVars>>

On(n, t) ==
  /\ node[n] # "down" /\ ~Blocked(n)
  /\ consumers' = [consumers EXCEPT ![n] = @ \cup {t}]
  /\ UNCHANGED <<node, topic_servers, senderVars, acceptor, msgs, historyVars, boundVars>>

\* Every resend task holds the socket, and with it the port; so does a send that
\* waits, also after the thread of start() has forgotten the socket.
PortFree(n) == ~Blocked(n) /\ \A d \in resend : d.src # n

\* start() binds the port and stores the socket before its acceptor loop; if
\* the port is taken it only logs that.
Start(n) ==
  /\ node[n] = "created" /\ PortFree(n)
  /\ node' = [node EXCEPT ![n] = "bound"]
  /\ UNCHANGED <<setupVars, senderVars, acceptor, msgs, historyVars, boundVars>>

\* stop() reaches the acceptor loop only while that waits in select!: a handler
\* that then runs to its end swallows it (no change), and one that waits for
\* the lock of notify_sent is dropped there.
Stop(n) ==
  /\ node[n] = "bound" /\ ~Blocked(n) /\ stops < MaxStops
  /\ acceptor[n] # None => acceptor[n].prefix = "x"
  /\ stops' = stops + 1
  /\ node' = [node EXCEPT ![n] = "stopping"]
  /\ acceptor' = [acceptor EXCEPT ![n] = None]
  /\ leaked' = leaked \cup {k \in Key : Accepting(n, "x", k)}
  /\ UNCHANGED <<setupVars, senderVars, msgs, winner, handled, lost, exits>>

\* The thread of start() forgets the socket after its loop; until then a send
\* finds it, and no acceptor will take an answer.
Unbind(n) ==
  /\ node[n] = "stopping"
  /\ node' = [node EXCEPT ![n] = "created"]
  /\ UNCHANGED <<setupVars, senderVars, acceptor, msgs, historyVars, boundVars>>

\* Everything the process of n held is gone, datagrams in flight excepted.
Vanish(n) ==
  /\ exits < MaxExits
  /\ exits' = exits + 1
  /\ node' = [node EXCEPT ![n] = "down"]
  /\ topic_servers' = [topic_servers EXCEPT ![n] = [t \in Topic |-> {}]]
  /\ consumers' = [consumers EXCEPT ![n] = {}]
  /\ send_pc' = [k \in Key |-> IF k[1] = n /\ Waiting(k) THEN "lost" ELSE send_pc[k]]
  /\ jobs' = [k \in Key |-> IF k[1] = n THEN None ELSE jobs[k]]
  /\ notify_discovery' = {k \in notify_discovery : k[1] # n}
  /\ notify_sent' = {k \in notify_sent : k[1] # n}
  /\ notify_finish' = {k \in notify_finish : k[1] # n}
  /\ permit' = {p \in permit : p[2][1] # n}
  /\ resend' = {d \in resend : d.src # n}
  /\ acceptor' = [acceptor EXCEPT ![n] = None]
  /\ lost' = lost \cup {p \in {n} \X Key : Accepting(n, "_", p[2])}
  /\ leaked' = {k \in leaked : k[1] # n}
  /\ UNCHANGED <<clock, request, msgs, winner, handled, stops>>

Crash(n) == node[n] # "down" /\ Vanish(n)

-----------------------------------------------------------------------------
(* send() *)

\* The prologue up to the first interval.tick(): nobody knows the id yet, so
\* the four map insertions cannot interleave with a handler of this request.
Send(n, t, bytes, reliable) ==
  LET k == <<n, clock[n] + 1>> IN
  /\ topic_servers[n][t] # {}
  /\ node[n] \in {"bound", "stopping"}
  /\ ~Blocked(n)
  /\ clock[n] < MaxId
  /\ clock' = [clock EXCEPT ![n] = @ + 1]
  /\ request' = [request EXCEPT ![k] =
                   [topic |-> t, bytes |-> bytes, reliable |-> reliable,
                    servers |-> topic_servers[n][t]]]
  /\ jobs' = [jobs EXCEPT ![k] = bytes]
  /\ notify_discovery' = notify_discovery \cup {k}
  /\ notify_sent' = IF reliable THEN notify_sent \cup {k} ELSE notify_sent
  /\ notify_finish' = IF reliable THEN notify_finish \cup {k} ELSE notify_finish
  /\ send_pc' = [send_pc EXCEPT ![k] = "discover"]
  /\ UNCHANGED <<node, setupVars, permit, resend, acceptor, msgs, historyVars, boundVars>>

\* No socket yet: the process exits.
SendBeforeStart(n, t) ==
  /\ topic_servers[n][t] # {}
  /\ node[n] = "created"
  /\ Vanish(n)

\* The datagram that asks server m about request k.
Question(k, m) ==
  [prefix |-> "i", src |-> k[1], dst |-> m, id |-> k[2],
   reliable |-> request[k].reliable, topic |-> request[k].topic, bytes |-> None]

\* interval.tick() of the discovery loop: "i" to every server.
DiscoverTick(k) ==
  /\ send_pc[k] = "discover"
  /\ msgs' = msgs \cup {Question(k, m) : m \in request[k].servers}
  /\ UNCHANGED <<node, setupVars, senderVars, acceptor, historyVars, boundVars>>

\* Bug: a reliable send does not wait for its acknowledgement.
AfterDiscoveryBug(k) == "done"

AfterDiscovery(k) == IF request[k].reliable THEN "finish" ELSE "done"

\* notify_discovery.notified(): an unreliable send returns, a reliable one
\* goes on to wait for its acknowledgement.
Discovered(k) ==
  /\ send_pc[k] = "discover"
  /\ <<"discovery", k>> \in permit
  /\ permit' = permit \ {<<"discovery", k>>}
  /\ send_pc' = [send_pc EXCEPT ![k] = AfterDiscovery(k)]
  /\ UNCHANGED <<node, setupVars, clock, request, jobs, notify_discovery, notify_sent,
                 notify_finish, resend, acceptor, msgs, historyVars, boundVars>>

\* notify_finish.notified(): the reliable send returns.
Finished(k) ==
  /\ send_pc[k] = "finish"
  /\ <<"finish", k>> \in permit
  /\ permit' = permit \ {<<"finish", k>>}
  /\ send_pc' = [send_pc EXCEPT ![k] = "done"]
  /\ UNCHANGED <<node, setupVars, clock, request, jobs, notify_discovery, notify_sent,
                 notify_finish, resend, acceptor, msgs, historyVars, boundVars>>

\* Bug: the data is sent once.
ResendTickBug(d) ==
  /\ d \in resend
  /\ msgs' = msgs \cup {d}
  /\ resend' = resend \ {d}
  /\ UNCHANGED <<node, setupVars, clock, request, send_pc, jobs, notify_discovery,
                 notify_sent, notify_finish, permit, acceptor, historyVars, boundVars>>

\* The task spawned for a reliable message: interval.tick() sends the data,
\* notify_sent.notified() ends the task.
ResendTick(d) ==
  /\ d \in resend
  /\ msgs' = msgs \cup {d}
  /\ UNCHANGED <<node, setupVars, senderVars, acceptor, historyVars, boundVars>>

ResendStop(d) ==
  /\ d \in resend
  /\ <<"sent", KeyOf(d)>> \in permit
  /\ permit' = permit \ {<<"sent", KeyOf(d)>>}
  /\ resend' = resend \ {d}
  /\ UNCHANGED <<node, setupVars, clock, request, send_pc, jobs, notify_discovery,
                 notify_sent, notify_finish, acceptor, msgs, historyVars, boundVars>>

-----------------------------------------------------------------------------
(* acceptor() *)

\* "i": answer that this server is there, whatever its consumers are.
ReceiveI(n, d) ==
  /\ Accepts(n, d) /\ d.prefix = "i"
  /\ Transfer(d, {Answer(d, "v")})
  /\ UNCHANGED <<node, setupVars, senderVars, acceptor, historyVars, boundVars>>

\* Bug: the first answer reads the maps and removes nothing.
ClaimBug(k, m) ==
  /\ permit' = NotifyOne("discovery", k)
  /\ winner' = [winner EXCEPT ![k] = m]
  /\ UNCHANGED <<notify_discovery, jobs>>

\* The answer of m takes k out of notify_discovery and its job out of jobs.
Claim(k, m) ==
  /\ notify_discovery' = notify_discovery \ {k}
  /\ jobs' = [jobs EXCEPT ![k] = None]
  /\ permit' = NotifyOne("discovery", k)
  /\ winner' = [winner EXCEPT ![k] = m]

\* "v": the first answer wakes send() and gets the job; no other actor sees
\* the maps between the removal and the spawn.  Later answers are dropped.
ReceiveV(n, d) ==
  LET k == <<n, d.id>>
      data == {Data(d, jobs[k])} \ {Data(d, None)}
  IN
  /\ Accepts(n, d) /\ d.prefix = "v"
  /\ \/ /\ k \in notify_discovery
        /\ Claim(k, d.src)
        /\ Transfer(d, IF d.reliable THEN {} ELSE data)
        /\ resend' = IF d.reliable /\ k \in notify_sent THEN resend \cup data ELSE resend
     \/ /\ k \notin notify_discovery
        /\ Transfer(d, {})
        /\ UNCHANGED <<notify_discovery, permit, jobs, resend, winner>>
  /\ UNCHANGED <<node, setupVars, clock, request, send_pc, notify_sent, notify_finish,
                 acceptor, handled, lost, leaked, boundVars>>

\* "x": the first acknowledgement wakes send(); the handler then waits for
\* the lock of notify_sent.  Later ones are dropped.
ReceiveX(n, d) ==
  LET k == <<n, d.id>> IN
  /\ Accepts(n, d) /\ d.prefix = "x"
  /\ Transfer(d, {})
  /\ \/ /\ k \in notify_finish
        /\ notify_finish' = notify_finish \ {k}
        /\ permit' = NotifyOne("finish", k)
        /\ acceptor' = [acceptor EXCEPT ![n] = d]
     \/ /\ k \notin notify_finish
        /\ UNCHANGED <<notify_finish, permit, acceptor>>
  /\ UNCHANGED <<node, setupVars, clock, request, send_pc, jobs, notify_discovery,
                 notify_sent, resend, historyVars, boundVars>>

\* Bug: the resend task is forgotten before it is told to end.
ReleaseSilentBug(n) ==
  /\ acceptor[n] # None /\ acceptor[n].prefix = "x"
  /\ acceptor' = [acceptor EXCEPT ![n] = None]
  /\ notify_sent' = notify_sent \ {KeyOf(acceptor[n])}
  /\ UNCHANGED <<node, setupVars, clock, request, send_pc, jobs, notify_discovery,
                 notify_finish, permit, resend, msgs, historyVars, boundVars>>

\* Bug: the entry of notify_sent is read and not removed.
ReleaseLeakBug(n) ==
  /\ acceptor[n] # None /\ acceptor[n].prefix = "x"
  /\ acceptor' = [acceptor EXCEPT ![n] = None]
  /\ permit' = NotifyOne("sent", KeyOf(acceptor[n]))
  /\ UNCHANGED <<node, setupVars, clock, request, send_pc, jobs, notify_discovery,
                 notify_sent, notify_finish, resend, msgs, historyVars, boundVars>>

\* ... and, with the lock, ends the resend task.
Release(n) ==
  LET k == KeyOf(acceptor[n]) IN
  /\ acceptor[n] # None /\ acceptor[n].prefix = "x"
  /\ acceptor' = [acceptor EXCEPT ![n] = None]
  /\ notify_sent' = notify_sent \ {k}
  /\ permit' = IF k \in notify_sent THEN NotifyOne("sent", k) ELSE permit
  /\ UNCHANGED <<node, setupVars, clock, request, send_pc, jobs, notify_discovery,
                 notify_finish, resend, msgs, historyVars, boundVars>>

\* Data of an unreliable message: no await before the handler.
ReceiveUnreliable(n, d) ==
  /\ Accepts(n, d) /\ d.prefix = "_" /\ ~d.reliable /\ Readable(d)
  /\ Transfer(d, {})
  /\ RunHandler(n, d)
  /\ UNCHANGED <<node, setupVars, senderVars, acceptor, winner, leaked, boundVars>>

\* Data of a reliable message: acknowledged first ...
ReceiveReliable(n, d) ==
  /\ Accepts(n, d) /\ d.prefix = "_" /\ d.reliable /\ Readable(d)
  /\ Transfer(d, {Answer(d, "x")})
  /\ acceptor' = [acceptor EXCEPT ![n] = d]
  /\ UNCHANGED <<node, setupVars, senderVars, historyVars, boundVars>>

\* Bug: the handler's turn never comes.
HandleBug(n) ==
  /\ acceptor[n] # None /\ acceptor[n].prefix = "_"
  /\ acceptor' = [acceptor EXCEPT ![n] = None]
  /\ UNCHANGED <<node, setupVars, senderVars, msgs, historyVars, boundVars>>

\* ... and handled when send_to has returned.
Handle(n) ==
  /\ acceptor[n] # None /\ acceptor[n].prefix = "_"
  /\ acceptor' = [acceptor EXCEPT ![n] = None]
  /\ RunHandler(n, acceptor[n])
  /\ UNCHANGED <<node, setupVars, senderVars, msgs, winner, leaked, boundVars>>

\* A truncated datagram is dropped without an answer.
ReceiveTruncated(n, d) ==
  /\ Accepts(n, d) /\ ~Readable(d)
  /\ Transfer(d, {})
  /\ UNCHANGED <<node, setupVars, senderVars, acceptor, historyVars, boundVars>>

\* The network loses a datagram.
Lose(d) ==
  /\ d \in msgs
  /\ msgs' = msgs \ {d}
  /\ UNCHANGED <<node, setupVars, senderVars, acceptor, historyVars, boundVars>>

-----------------------------------------------------------------------------
Setup(n) ==
  \/ Create(n) \/ Start(n) \/ Stop(n) \/ Unbind(n) \/ Crash(n)
  \/ \E t \in Topic :
       \/ <<n, t>> \in Subscriptions /\ On(n, t)
       \/ SendBeforeStart(n, t)
       \/ \E m \in Node : <<n, t, m>> \in Routes /\ AddServer(n, t, m)
       \/ \E b \in Payload, r \in BOOLEAN : Send(n, t, b, r)

Sender(k) == DiscoverTick(k) \/ Discovered(k) \/ Finished(k)

Receive(n, d) ==
  \/ ReceiveI(n, d) \/ ReceiveV(n, d) \/ ReceiveX(n, d)
  \/ ReceiveUnreliable(n, d) \/ ReceiveReliable(n, d) \/ ReceiveTruncated(n, d)

Next ==
  \/ \E n \in Node : Setup(n) \/ Release(n) \/ Handle(n)
  \/ \E k \in Key : Sender(k)
  \/ \E d \in resend : ResendTick(d) \/ ResendStop(d)
  \/ \E d \in msgs : Lose(d) \/ Receive(d.dst, d)

Spec == Init /\ [][Next]_vars

-----------------------------------------------------------------------------
(* Properties *)

TypeOK ==
  /\ node \in [Node -> {"down", "created", "bound", "stopping"}]
  /\ topic_servers \in [Node -> [Topic -> SUBSET Node]]
  /\ consumers \in [Node -> SUBSET Topic]
  /\ clock \in [Node -> 0 .. MaxId]
  /\ request \in [Key -> Request \cup {None}]
  /\ send_pc \in [Key -> {"idle", "discover", "finish", "done", "lost"}]
  /\ jobs \in [Key -> Payload \cup {None}]
  /\ notify_discovery \subseteq Key
  /\ notify_sent \subseteq Key
  /\ notify_finish \subseteq Key
  /\ permit \subseteq {"discovery", "sent", "finish"} \X Key
  /\ resend \subseteq Datagram
  /\ acceptor \in [Node -> Datagram \cup {None}]
  /\ msgs \subseteq Datagram
  /\ handled \in [Node \X Key -> 0 .. MaxHandled]
  /\ winner \in [Key -> Node \cup {None}]
  /\ lost \subseteq Node \X Key
  /\ leaked \subseteq Key
  /\ exits \in 0 .. MaxExits
  /\ stops \in 0 .. MaxStops

\* m took the data of request k: it handled it, is about to, or lost it.
Got(m, k) == handled[<<m, k>>] > 0 \/ <<m, k>> \in lost \/ Accepting(m, "_", k)

\* The data of request k is on its way, or will be, to m.
Addressed(m, k) ==
  \E d \in msgs \cup resend : d.prefix = "_" /\ KeyOf(d) = k /\ d.dst = m

\* However many servers answer, how often and how late, one request's data
\* goes to one of them only (the removal from notify_discovery, 378-385).
SingleReceiver ==
  \A k \in Key, m \in Node : Got(m, k) \/ Addressed(m, k) => m = winner[k]

\* d is about a request as it was made: from or to a server it was sent to,
\* with its topic, its reliability and, in the data, its bytes.
GenuineDatagram(d) ==
  LET r == request[KeyOf(d)]
      server == IF d.prefix \in {"i", "_"} THEN d.dst ELSE d.src
  IN
  /\ r # None
  /\ server \in r.servers
  /\ d.topic = r.topic /\ d.reliable = r.reliable
  /\ d.bytes = IF d.prefix = "_" THEN r.bytes ELSE None

\* What travels under a request's id is that request, although ids are unique
\* in one process only.
Genuine == \A d \in msgs \cup resend : GenuineDatagram(d)

\* When a reliable send returns, one of the servers it knew has the message:
\* an "x" is never about another request or a message that was not read.
AckedWasReceived ==
  \A k \in Key : send_pc[k] = "done" /\ request[k].reliable =>
    \E m \in request[k].servers : Got(m, k)

\* The wake-up of a waiting send is still to come or is kept as a permit,
\* also when the answer arrives before the send has begun to wait for it.
NoLostWakeup ==
  \A k \in Key :
    /\ send_pc[k] = "discover" =>
         k \in notify_discovery \/ <<"discovery", k>> \in permit
    /\ Waiting(k) /\ request[k].reliable =>
         k \in notify_finish \/ <<"finish", k>> \in permit

\* A reliable send that was discovered and is not acknowledged has a task
\* that goes on sending its data.
ResendWhileUnacked ==
  \A k \in Key :
    Waiting(k) /\ request[k].reliable /\ k \notin notify_discovery =>
      \/ \E d \in resend : KeyOf(d) = k
      \/ <<"finish", k>> \in permit

\* A resend task can still be ended, unless a stop came between the two
\* removals of the "x" handler (449-460).
ResendCanEnd ==
  \A d \in resend :
    LET k == KeyOf(d) IN
    \/ k \in notify_finish
    \/ Accepting(k[1], "x", k)
    \/ <<"sent", k>> \in permit
    \/ k \in leaked

\* A send that returned leaves nothing behind in the shared maps.
MapsDrained ==
  \A k \in Key : send_pc[k] \in {"done", "lost"} =>
    /\ jobs[k] = None
    /\ k \notin notify_discovery \cup notify_finish
    /\ k \in notify_sent => Accepting(k[1], "x", k) \/ k \in leaked

\* Without duplication in the network, the repeated questions and their many
\* answers never deliver an unreliable message twice.
UnreliableAtMostOnce ==
  ~Duplicates =>
    \A k \in Key : request[k] # None =>
      (~request[k].reliable => \A m \in Node : handled[<<m, k>>] <= 1)

\* Reliable messages of a process are first received in the order sent, as
\* its sends block one another: when a later one is received, so is an
\* earlier one, unless a crash cut the earlier send short.
ReceivedInOrder ==
  \A n \in Node : \A i, j \in Id :
    /\ i < j
    /\ \E m \in Node : Got(m, <<n, j>>)
    /\ send_pc[<<n, i>>] # "lost" /\ request[<<n, i>>].reliable
    => \E m \in Node : Got(m, <<n, i>>)

\* A message whose datagram is cut by the receiver's block (340, 344) reaches
\* no handler on any way, however often it is repeated: nobody acknowledges it,
\* and its send, if reliable, does not return.
OversizeUnheard ==
  \A k \in Key : request[k] # None /\ request[k].bytes \in Oversize =>
    /\ \A m \in Node : ~Got(m, k)
    /\ request[k].reliable => send_pc[k] # "done"

\* The server that answered first stays the only one, across late answers of
\* the others, restarts and stops.
WinnerIsFinal ==
  [][\A k \in Key : winner[k] # None => winner'[k] = winner[k]]_vars

-----------------------------------------------------------------------------
(* What strengthens the invariants above to an inductive one *)

\* An id that was not given out yet appears nowhere.
Issued ==
  \A k \in Key :
    /\ k[2] > clock[k[1]] => request[k] = None
    /\ request[k] = None =>
         /\ send_pc[k] = "idle" /\ jobs[k] = None /\ winner[k] = None
         /\ k \notin notify_discovery \cup notify_sent \cup notify_finish

\* What a half-done handler holds, and what waits for a server.
Held ==
  /\ \A n \in Node : acceptor[n] # None =>
       /\ acceptor[n].dst = n /\ acceptor[n].prefix \in {"_", "x"}
       /\ acceptor[n].prefix = "_" => acceptor[n].reliable
       /\ GenuineDatagram(acceptor[n])
  /\ \A k \in Key : jobs[k] # None => jobs[k] = request[k].bytes

\* A request without a winner is one no server was given; the winner is one
\* of the servers asked.
Unclaimed ==
  \A k \in Key :
    /\ k \in notify_discovery => winner[k] = None
    /\ winner[k] # None => winner[k] \in request[k].servers

\* An acknowledgement anywhere on its way means that the winner has the data.
Acknowledged ==
  /\ \A d \in msgs \cup resend : d.prefix = "x" => Got(d.src, KeyOf(d))
  /\ \A n \in Node : acceptor[n] # None /\ acceptor[n].prefix = "x" =>
       Got(acceptor[n].src, KeyOf(acceptor[n]))
  /\ \A k \in Key : <<"finish", k>> \in permit => \E m \in Node : Got(m, k)

Inductive == TypeOK /\ Issued /\ Genuine /\ Held /\ SingleReceiver /\ Unclaimed
               /\ Acknowledged /\ AckedWasReceived

-----------------------------------------------------------------------------
(* Liveness *)

ReceiveOne(p, k) ==
  \E d \in msgs : d.prefix = p /\ KeyOf(d) = k /\ Receive(d.dst, d)

\* The requests the application can make.
SendKey == {k \in Key : \E t \in Topic, m \in Node : <<k[1], t, m>> \in Routes}

\* Tokio polls a task that is ready and fires its timers; a supervisor starts
\* a process again; a datagram sent again and again gets through.
Fairness ==
  /\ \A n \in Node :
       /\ WF_vars(Create(n)) /\ WF_vars(Start(n)) /\ WF_vars(Unbind(n))
       /\ WF_vars(Release(n)) /\ WF_vars(Handle(n))
  /\ \A k \in SendKey :
       /\ WF_vars(DiscoverTick(k)) /\ WF_vars(Discovered(k)) /\ WF_vars(Finished(k))
       /\ WF_vars(\E d \in resend : KeyOf(d) = k /\ ResendTick(d))
       /\ WF_vars(\E d \in resend : KeyOf(d) = k /\ ResendStop(d))
       /\ \A p \in {"i", "v", "_", "x"} : SF_vars(ReceiveOne(p, k))

FairSpec == Spec /\ Fairness

\* A send of a running transport whose data fits the block returns, whatever the
\* network loses and even if the server that claimed the message is restarted.
\* One made right after a stop may find the socket and wait for ever.
SendReturns ==
  \A k \in Key :
    Waiting(k) /\ node[k[1]] = "bound" /\ request[k].bytes \notin Oversize ~> ~Waiting(k)

\* An acknowledged message is handled, or lost with its server or for want of
\* a consumer.
AckedIsHandled ==
  \A k \in Key : send_pc[k] = "done" /\ request[k].reliable ~>
    \E m \in Node : handled[<<m, k>>] > 0 \/ <<m, k>> \in lost

\* The task that repeats the data ends, unless stop cut it off.
ResendEnds ==
  \A k \in Key : (\E d \in resend : KeyOf(d) = k /\ Readable(d)) ~>
    k \in leaked \/ \A d \in resend : KeyOf(d) # k
=============================================================================
