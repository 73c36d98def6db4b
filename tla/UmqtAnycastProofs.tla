------------------------- MODULE UmqtAnycastProofs -------------------------
(***************************************************************************)
(* Umqt implements Anycast, for any number of processes, topics, payloads  *)
(* and requests, with or without duplication in the network.               *)
(***************************************************************************)
EXTENDS UmqtAnycast, UmqtWakeups

-----------------------------------------------------------------------------
(* The variables of Anycast as Umqt implements them *)

Outcomes == [k \in Key |-> Outcome(k)]
Reliables == {k \in Key : send_pc[k] # "idle" /\ request[k].reliable}
Taken == {k \in Key : \E m \in Node : Got(m, k)}
Runs == [k \in Key |-> IF winner[k] = None THEN 0 ELSE handled[<<winner[k], k>>]]

Step == [Promise!Next]_(Promise!vars)

\* Each action of Anycast in these terms: a request is submitted.
LEMMA MapSubmit ==
  ASSUME NEW k \in Key, Outcomes[k] = "new",
         \A j \in Id : /\ j < k[2] => Outcomes[<<k[1], j>>] \in {"returned", "cut"}
                       /\ j > k[2] => Outcomes[<<k[1], j>>] = "new",
         Outcomes' = [Outcomes EXCEPT ![k] = "open"],
         Reliables' \in {Reliables, Reliables \cup {k}},
         UNCHANGED <<winner, Taken, Runs>>
  PROVE  Step
  <1>1. Promise!Submit(k)
    BY DEF Promise!Submit, Outcomes, Reliables, Taken, Runs
  <1> QED
    BY <1>1 DEF Step, Promise!Next, Promise!Key, Key

\* A receiver is chosen.
LEMMA MapChoose ==
  ASSUME NEW k \in Key, NEW m \in Node, Outcomes[k] = "open", winner[k] = None,
         winner' = [winner EXCEPT ![k] = m],
         UNCHANGED <<Outcomes, Reliables, Taken, Runs>>
  PROVE  Step
  <1>1. Promise!Choose(k)
    BY DEF Promise!Choose, Outcomes, Reliables, Taken, Runs
  <1> QED
    BY <1>1 DEF Step, Promise!Next, Promise!Key, Key

\* The receiver takes the message.
LEMMA MapTake ==
  ASSUME NEW k \in Key, k \in Reliables, winner[k] # None, Taken' = Taken \cup {k},
         UNCHANGED <<Outcomes, Reliables, winner, Runs>>
  PROVE  Step
  <1>1. Promise!Take(k)
    BY DEF Promise!Take, Outcomes, Reliables, Taken, Runs
  <1> QED
    BY <1>1 DEF Step, Promise!Next, Promise!Key, Key

\* A handler runs.
LEMMA MapRun ==
  ASSUME NEW k \in Key, winner[k] # None,
         IF k \in Reliables THEN k \in Taken ELSE Duplicates \/ Runs[k] = 0,
         Taken' = Taken \cup {k}, Runs' = [Runs EXCEPT ![k] = Saturated(Runs[k])],
         UNCHANGED <<Outcomes, Reliables, winner>>
  PROVE  Step
  <1>1. Promise!Run(k)
    BY DEF Promise!Run, Outcomes, Reliables, Taken, Runs, Saturated
  <1> QED
    BY <1>1 DEF Step, Promise!Next, Promise!Key, Key

\* A send returns.
LEMMA MapReturn ==
  ASSUME NEW k \in Key, Outcomes[k] = "open",
         IF k \in Reliables THEN k \in Taken ELSE winner[k] # None,
         Outcomes' = [Outcomes EXCEPT ![k] = "returned"],
         UNCHANGED <<Reliables, winner, Taken, Runs>>
  PROVE  Step
  <1>1. Promise!Return(k)
    BY DEF Promise!Return, Outcomes, Reliables, Taken, Runs
  <1> QED
    BY <1>1 DEF Step, Promise!Next, Promise!Key, Key

\* A send is cut short.
LEMMA MapCut ==
  ASSUME NEW k \in Key, Outcomes[k] = "open", Outcomes' = [Outcomes EXCEPT ![k] = "cut"],
         UNCHANGED <<Reliables, winner, Taken, Runs>>
  PROVE  Step
  <1>1. Promise!Cut(k)
    BY DEF Promise!Cut, Outcomes, Reliables, Taken, Runs
  <1> QED
    BY <1>1 DEF Step, Promise!Next, Promise!Key, Key

\* A step that changes none of it is a stutter.
LEMMA MapNothing ==
  ASSUME UNCHANGED <<Outcomes, Reliables, winner, Taken, Runs>>
  PROVE  Step
  <1>1. UNCHANGED Promise!vars
    BY DEF Promise!vars, Outcomes, Reliables, Taken, Runs
  <1> QED
    BY <1>1 DEF Step

\* What each of these variables depends on: outcomes, on the state of the send.
LEMMA StableSender ==
  ASSUME UNCHANGED <<send_pc, request>>
  PROVE  UNCHANGED <<Outcomes, Reliables>>
  BY DEF Outcomes, Reliables, Outcome, Waiting

\* The runs depend on the winner and on the counts.
LEMMA StableRuns ==
  ASSUME UNCHANGED <<winner, handled>>
  PROVE  UNCHANGED Runs
  BY DEF Runs

\* What was taken depends on the counts, on what was lost and on half-done handlers.
LEMMA StableTaken ==
  ASSUME UNCHANGED <<handled, lost>>,
         \A m \in Node, k \in Key : Accepting(m, "_", k)' <=> Accepting(m, "_", k)
  PROVE  UNCHANGED Taken
  BY DEF Taken, Got

\* Without a change of the acceptors no half-done handler changes.
LEMMA StableAccepting ==
  ASSUME UNCHANGED acceptor, NEW m \in Node, NEW k \in Key
  PROVE  Accepting(m, "_", k)' <=> Accepting(m, "_", k)
  BY DEF Accepting, KeyOf


-----------------------------------------------------------------------------
(* Steps of a process *)

\* A process that ends cuts its one waiting send short; what it was about to handle
\* counts as taken and lost.
LEMMA MapVanish ==
  ASSUME Inductive, Wakeups, Blocking, NEW n \in Node, Vanish(n)
  PROVE  Step
  <1>1. /\ UNCHANGED <<request, winner, handled>>
        /\ send_pc' = [k \in Key |-> IF k[1] = n /\ Waiting(k) THEN "lost" ELSE send_pc[k]]
        /\ acceptor' = [acceptor EXCEPT ![n] = None]
        /\ lost' = lost \cup {p \in {n} \X Key : Accepting(n, "_", p[2])}
    BY DEF Vanish
  <1>2. UNCHANGED Taken
    <2> SUFFICES ASSUME NEW m \in Node, NEW k \in Key
                 PROVE  Got(m, k)' <=> Got(m, k)
      BY DEF Taken
    <2>1. <<m, k>> \in lost' <=> <<m, k>> \in lost \/ (m = n /\ Accepting(n, "_", k))
      BY <1>1
    <2>2. acceptor'[m] = IF m = n THEN None ELSE acceptor[m]
      BY <1>1 DEF Inductive, TypeOK
    <2> QED
      BY <1>1, <2>1, <2>2 DEF Got, Accepting, KeyOf
  <1>3. UNCHANGED Runs
    BY <1>1, StableRuns
  <1>4. UNCHANGED Reliables
    BY <1>1 DEF Reliables, Waiting
  <1>5. CASE \E i \in Id : Waiting(<<n, i>>)
    <2>1. PICK i \in Id : Waiting(<<n, i>>)
      BY <1>5
    <2> DEFINE q == <<n, i>>
    <2>2. q \in Key /\ Outcomes[q] = "open"
      BY <2>1 DEF Key, Outcomes, Outcome, Waiting
    <2>3. \A k \in Key : k[1] = n /\ Waiting(k) <=> k = q
      <3>1. \A j \in Id : Waiting(<<n, j>>) => j = i
        BY <2>1 DEF Blocking
      <3> QED
        BY <2>1, <3>1 DEF Key
    <2>4. Outcomes' = [Outcomes EXCEPT ![q] = "cut"]
      <3>1. ASSUME NEW k \in Key
            PROVE  Outcome(k)' = IF k = q THEN "cut" ELSE Outcome(k)
        BY <1>1, <2>3 DEF Outcome, Waiting
      <3> QED
        BY <3>1 DEF Outcomes
    <2> QED
      BY <1>1, <1>2, <1>3, <1>4, <2>2, <2>4, MapCut
  <1>6. CASE \A i \in Id : ~Waiting(<<n, i>>)
    <2>1. \A k \in Key : ~(k[1] = n /\ Waiting(k))
      BY <1>6 DEF Key
    <2>2. UNCHANGED send_pc
      BY <1>1, <2>1 DEF Inductive, TypeOK
    <2> QED
      BY <1>1, <1>2, <1>3, <2>2, StableSender, MapNothing
  <1> QED
    BY <1>5, <1>6

\* send() submits its request.
LEMMA MapSend ==
  ASSUME Inductive, Wakeups, Blocking, NEW n \in Node, NEW t \in Topic, NEW b \in Payload,
         NEW r \in BOOLEAN, Send(n, t, b, r)
  PROVE  Step
  <1> DEFINE q == <<n, clock[n] + 1>>
  <1>1. /\ q \in Key /\ request[q] = None /\ q[1] = n /\ q[2] = clock[n] + 1
        /\ clock[n] \in Nat
    BY SendKeyFresh, ConstantsAssumption DEF Send, Inductive, TypeOK
  <1>2. /\ send_pc' = [send_pc EXCEPT ![q] = "discover"]
        /\ \A k \in Key : k # q => request'[k] = request[k]
        /\ UNCHANGED <<winner, handled, lost, acceptor>> /\ ~Blocked(n)
    BY <1>1 DEF Send, historyVars, Inductive, TypeOK
  <1>3. UNCHANGED <<winner, Runs, Taken>>
    BY <1>2, StableRuns, StableTaken, StableAccepting
  <1>4. \A k \in Key : send_pc'[k] = IF k = q THEN "discover" ELSE send_pc[k]
    BY <1>2 DEF Inductive, TypeOK
  <1>5. Outcomes' = [Outcomes EXCEPT ![q] = "open"]
    <2>1. \A k \in Key : Outcome(k)' = IF k = q THEN "open" ELSE Outcome(k)
      BY <1>4 DEF Outcome, Waiting
    <2> QED
      BY <2>1 DEF Outcomes
  <1>6. q \notin Reliables
    BY <1>1 DEF Reliables, Inductive, Issued
  <1>7. Reliables' \in {Reliables, Reliables \cup {q}}
    <2>1. \A k \in Key : k # q => (k \in Reliables' <=> k \in Reliables)
      BY <1>2, <1>4 DEF Reliables
    <2>2. Reliables \subseteq Key /\ Reliables' \subseteq Key
      BY DEF Reliables
    <2>3. CASE q \in Reliables'
      <3>1. Reliables' = Reliables \cup {q}
        BY <1>1, <2>1, <2>2, <2>3
      <3> QED
        BY <3>1
    <2>4. CASE q \notin Reliables'
      <3>1. Reliables' = Reliables
        BY <1>6, <2>1, <2>2, <2>4
      <3> QED
        BY <3>1
    <2> QED
      BY <2>3, <2>4
  <1>8. Outcomes[q] = "new"
    <2>1. send_pc[q] = "idle"
      BY <1>1 DEF Inductive, Issued
    <2>2. \A k \in Key : send_pc[k] = "idle" => Outcomes[k] = "new"
      BY DEF Outcomes, Outcome, Waiting
    <2> QED
      BY <1>1, <2>1, <2>2
  <1>9. ASSUME NEW j \in Id
        PROVE  /\ j < q[2] => Outcomes[<<q[1], j>>] \in {"returned", "cut"}
               /\ j > q[2] => Outcomes[<<q[1], j>>] = "new"
    <2>1. <<n, j>> \in Key /\ j \in Nat
      BY ConstantsAssumption DEF Key, Id
    <2>2. ~Waiting(<<n, j>>)
      BY <1>2 DEF Blocked
    <2>3. j <= clock[n] <=> send_pc[<<n, j>>] # "idle"
      BY DEF Blocking
    <2>4. Outcomes[<<n, j>>] = IF j <= clock[n]
                                 THEN IF send_pc[<<n, j>>] = "done" THEN "returned" ELSE "cut"
                                 ELSE "new"
      BY <2>1, <2>2, <2>3 DEF Outcomes, Outcome
    <2>5. /\ j < clock[n] + 1 => j <= clock[n]
          /\ j > clock[n] + 1 => ~(j <= clock[n])
      BY <1>1, <2>1
    <2> QED
      BY <1>1, <2>4, <2>5
  <1> HIDE DEF q
  <1> QED
    BY <1>1, <1>3, <1>5, <1>7, <1>8, <1>9, MapSubmit

\* Creating, starting, stopping and setting up do nothing to a request: what a stop
\* drops is the handler of an acknowledgement.
LEMMA MapSetup ==
  ASSUME Inductive, Wakeups, Blocking, NEW n \in Node, Setup(n)
  PROVE  Step
  <1>1. CASE Create(n) \/ Start(n) \/ Unbind(n) \/ (\E t \in Topic : On(n, t))
               \/ (\E t \in Topic, m \in Node : AddServer(n, t, m))
    <2>1. UNCHANGED <<send_pc, request, winner, handled, lost, acceptor>>
      BY <1>1 DEF Create, Start, Unbind, On, AddServer, senderVars, historyVars
    <2> QED
      BY <2>1, StableSender, StableRuns, StableTaken, StableAccepting, MapNothing
  <1>2. CASE Stop(n)
    <2>1. /\ UNCHANGED <<send_pc, request, winner, handled, lost>>
          /\ acceptor' = [acceptor EXCEPT ![n] = None]
          /\ acceptor[n] # None => acceptor[n].prefix = "x"
      BY <1>2 DEF Stop, senderVars
    <2>2. \A m \in Node, k \in Key : Accepting(m, "_", k)' <=> Accepting(m, "_", k)
      BY <2>1 DEF Accepting, KeyOf, Inductive, TypeOK
    <2> QED
      BY <2>1, <2>2, StableSender, StableRuns, StableTaken, MapNothing
  <1>3. CASE Crash(n) \/ \E t \in Topic : SendBeforeStart(n, t)
    BY <1>3, MapVanish DEF Crash, SendBeforeStart
  <1> QED
    BY <1>1, <1>2, <1>3, MapSend DEF Setup

-----------------------------------------------------------------------------
(* Steps of a send and of the acceptor *)

\* A send returns when its receiver is known or, for a reliable one, has the message.
LEMMA MapSender ==
  ASSUME Inductive, Wakeups, NEW q \in Key, Sender(q)
  PROVE  Step
  <1>1. /\ UNCHANGED <<request, winner, handled, lost, acceptor>>
        /\ UNCHANGED <<Taken, Runs>>
    <2>1. UNCHANGED <<request, winner, handled, lost, acceptor>>
      BY DEF Sender, DiscoverTick, Discovered, Finished, senderVars, historyVars
    <2> QED
      BY <2>1, StableRuns, StableTaken, StableAccepting
  <1>2. CASE send_pc' = send_pc
    BY <1>1, <1>2, StableSender, MapNothing
  <1>3. ASSUME send_pc[q] = "discover", send_pc' = [send_pc EXCEPT ![q] = "finish"]
        PROVE  Step
    <2>1. \A k \in Key : send_pc'[k] = IF k = q THEN "finish" ELSE send_pc[k]
      BY <1>3 DEF Inductive, TypeOK
    <2>2. UNCHANGED <<Outcomes, Reliables>>
      BY <1>1, <1>3, <2>1 DEF Outcomes, Outcome, Reliables, Waiting
    <2> QED
      BY <1>1, <2>2, MapNothing
  <1>4. ASSUME Waiting(q), send_pc' = [send_pc EXCEPT ![q] = "done"],
               IF q \in Reliables THEN q \in Taken ELSE winner[q] # None
        PROVE  Step
    <2>1. \A k \in Key : send_pc'[k] = IF k = q THEN "done" ELSE send_pc[k]
      BY <1>4 DEF Inductive, TypeOK
    <2>2. UNCHANGED Reliables
      BY <1>1, <1>4, <2>1 DEF Reliables, Waiting
    <2>3. Outcomes[q] = "open" /\ Outcomes' = [Outcomes EXCEPT ![q] = "returned"]
      <3>1. \A k \in Key : Outcome(k)' = IF k = q THEN "returned" ELSE Outcome(k)
        BY <2>1 DEF Outcome, Waiting
      <3>2. Outcome(q) = "open"
        BY <1>4 DEF Outcome, Waiting
      <3> QED
        BY <3>1, <3>2 DEF Outcomes
    <2> QED
      BY <1>1, <1>4, <2>2, <2>3, MapReturn
  <1>5. CASE DiscoverTick(q)
    BY <1>2, <1>5 DEF DiscoverTick, senderVars
  <1>6. CASE Discovered(q)
    <2>1. /\ send_pc[q] = "discover" /\ winner[q] # None
          /\ send_pc' = [send_pc EXCEPT ![q] = AfterDiscovery(q)]
      BY <1>6 DEF Discovered, Wakeups, Tokens
    <2> QED
      BY <1>3, <1>4, <2>1 DEF AfterDiscovery, Reliables, Waiting
  <1>7. CASE Finished(q)
    <2>1. /\ send_pc[q] = "finish" /\ <<"finish", q>> \in permit
          /\ send_pc' = [send_pc EXCEPT ![q] = "done"]
      BY <1>7 DEF Finished
    <2>2. q \in Taken
      BY <2>1 DEF Inductive, Acknowledged, Taken
    <2>3. winner[q] # None
      BY <2>2, NoneAssumption DEF Taken, Inductive, SingleReceiver
    <2> QED
      BY <1>4, <2>1, <2>2, <2>3 DEF Waiting
  <1> QED
    BY <1>5, <1>6, <1>7 DEF Sender

\* The first answer chooses the receiver.
LEMMA MapReceiveV ==
  ASSUME Inductive, Wakeups, NEW d \in msgs, ReceiveV(d.dst, d)
  PROVE  Step
  <1> DEFINE q == KeyOf(d)
  <1>1. /\ d \in Datagram /\ d.prefix = "v" /\ q = <<d.dst, d.id>> /\ q \in Key
        /\ d.src \in Node
    BY KeyOfType DEF ReceiveV, KeyOf, Inductive, TypeOK, Datagram
  <1>2. /\ UNCHANGED <<request, send_pc, handled, lost, acceptor>>
        /\ UNCHANGED <<Outcomes, Reliables, Taken>>
    <2>1. UNCHANGED <<request, send_pc, handled, lost, acceptor>>
      BY DEF ReceiveV
    <2> QED
      BY <2>1, StableSender, StableTaken, StableAccepting
  <1>3. CASE q \notin notify_discovery
    <2>1. UNCHANGED winner
      BY <1>1, <1>3 DEF ReceiveV
    <2> QED
      BY <1>2, <2>1, StableRuns, MapNothing
  <1>4. CASE q \in notify_discovery
    <2>1. winner' = [winner EXCEPT ![q] = d.src]
      BY <1>1, <1>4 DEF ReceiveV, Claim
    <2>2. send_pc[q] = "discover" /\ winner[q] = None
      BY <1>1, <1>4 DEF Wakeups, Books, Inductive, Unclaimed
    <2>3. Outcomes[q] = "open"
      BY <1>1, <2>2 DEF Outcomes, Outcome, Waiting
    <2>4. UNCHANGED Runs
      <3>1. handled[<<d.src, q>>] = 0
        BY <1>1, <2>2, UnclaimedUnhandled
      <3>2. \A k \in Key : winner'[k] = IF k = q THEN d.src ELSE winner[k]
        BY <2>1 DEF Inductive, TypeOK
      <3>3. d.src # None
        BY <1>1, NoneAssumption
      <3> QED
        BY <1>2, <2>2, <3>1, <3>2, <3>3 DEF Runs
    <2> QED
      BY <1>1, <1>2, <2>1, <2>2, <2>3, <2>4, MapChoose
  <1> QED
    BY <1>3, <1>4

\* Bounded numbers.
LEMMA NotAfter ==
  ASSUME NEW i \in 1 .. MaxId, NEW c \in 0 .. MaxId, ~(i > c)
  PROVE  i <= c
  BY ConstantsAssumption

\* A handler that ran has run, wherever the count saturates.
LEMMA SaturatedPositive ==
  ASSUME NEW i \in 0 .. MaxHandled
  PROVE  Saturated(i) > 0
  BY ConstantsAssumption DEF Saturated

\* The data of a request is for its winner, and speaks of the request as it was made.
LEMMA DataForWinner ==
  ASSUME Inductive, Blocking, NEW d \in Datagram, GenuineDatagram(d), d.prefix = "_",
         Addressed(d.dst, KeyOf(d)) \/ Got(d.dst, KeyOf(d))
  PROVE  /\ KeyOf(d) \in Key /\ d.dst \in Node /\ winner[KeyOf(d)] = d.dst /\ d.dst # None
         /\ d.reliable <=> KeyOf(d) \in Reliables
  <1>1. d.dst \in Node /\ KeyOf(d) \in Key
    BY KeyOfType DEF Datagram
  <1>2. winner[KeyOf(d)] = d.dst /\ d.dst # None
    BY <1>1, NoneAssumption DEF Inductive, SingleReceiver
  <1>3. d.reliable = request[KeyOf(d)].reliable
    BY DEF GenuineDatagram
  <1>4. send_pc[KeyOf(d)] # "idle"
    <2>1. request[KeyOf(d)] # None
      BY DEF GenuineDatagram
    <2>2. KeyOf(d) = <<d.src, d.id>> /\ d.src \in Node /\ d.id \in Id
      BY DEF KeyOf, Datagram
    <2>3. <<d.src, d.id>>[1] = d.src /\ <<d.src, d.id>>[2] = d.id
      OBVIOUS
    <2>4. ~(d.id > clock[d.src])
      BY <1>1, <2>1, <2>2, <2>3 DEF Inductive, Issued
    <2>5. d.id \in 1 .. MaxId /\ clock[d.src] \in 0 .. MaxId
      BY <2>2 DEF Id, Inductive, TypeOK
    <2>6. d.id <= clock[d.src]
      BY <2>4, <2>5, NotAfter
    <2> QED
      BY <2>2, <2>6 DEF Blocking
  <1> QED
    BY <1>1, <1>2, <1>3, <1>4 DEF Reliables

\* A handler that runs is a run of Anycast; without a consumer nothing happens to the
\* request, whose receiver has it all the same.
LEMMA MapHandler ==
  ASSUME Inductive, Blocking, NEW d \in Datagram, GenuineDatagram(d), d.prefix = "_",
         Addressed(d.dst, KeyOf(d)) \/ Got(d.dst, KeyOf(d)),
         RunHandler(d.dst, d), UNCHANGED <<Outcomes, Reliables, winner>>,
         d.reliable => KeyOf(d) \in Taken /\ UNCHANGED Taken,
         ~d.reliable => /\ Duplicates \/ handled[<<d.dst, KeyOf(d)>>] = 0
                        /\ UNCHANGED acceptor
  PROVE  Step
  <1> DEFINE q == KeyOf(d)
  <1>1. /\ q \in Key /\ d.dst \in Node /\ winner[q] = d.dst /\ d.dst # None
        /\ d.reliable <=> q \in Reliables
    BY DataForWinner
  <1>2. handled \in [Node \X Key -> 0 .. MaxHandled] /\ <<d.dst, q>> \in Node \X Key
    BY <1>1 DEF Inductive, TypeOK
  <1>3. CASE d.topic \notin consumers[d.dst]
    <2>1. handled' = handled /\ (~d.reliable => lost' = lost)
      BY <1>3 DEF RunHandler
    <2>2. ~d.reliable => UNCHANGED Taken
      BY <2>1, StableTaken, StableAccepting
    <2> QED
      BY <2>1, <2>2, StableRuns, MapNothing
  <1>4. CASE d.topic \in consumers[d.dst]
    <2>1. lost' = lost /\ handled' = [handled EXCEPT ![<<d.dst, q>>] = Saturated(@)]
      BY <1>4 DEF RunHandler
    <2>2. Runs[q] = handled[<<d.dst, q>>]
      BY <1>1 DEF Runs
    <2>3. Runs' = [Runs EXCEPT ![q] = Saturated(Runs[q])]
      <3>1. winner' = winner
        OBVIOUS
      <3>2. \A k \in Key : winner[k] # None =>
              handled'[<<winner[k], k>>] = IF k = q THEN Saturated(handled[<<d.dst, q>>])
                                                    ELSE handled[<<winner[k], k>>]
        <4>1. \A k \in Key : winner[k] # None => <<winner[k], k>> \in Node \X Key
          BY DEF Inductive, TypeOK
        <4> QED
          BY <1>1, <1>2, <2>1, <4>1
      <3> QED
        BY <1>1, <2>2, <3>1, <3>2 DEF Runs
    <2>4. Taken' = Taken \cup {q}
      <3>1. CASE d.reliable
        BY <3>1
      <3>2. CASE ~d.reliable
        <4>1. \A m \in Node, k \in Key : Accepting(m, "_", k)' <=> Accepting(m, "_", k)
          BY <3>2, StableAccepting
        <4>2. ASSUME NEW k \in Key
              PROVE  k \in Taken' <=> k \in Taken \/ k = q
          <5>1. \A m \in Node : Got(m, k)' <=> Got(m, k) \/ (m = d.dst /\ k = q)
            <6>1. Saturated(handled[<<d.dst, q>>]) > 0
              <7>1. handled[<<d.dst, q>>] \in 0 .. MaxHandled
                BY <1>2
              <7> QED
                BY <7>1, SaturatedPositive
            <6>2. \A m \in Node : handled'[<<m, k>>] =
                    IF m = d.dst /\ k = q THEN Saturated(handled[<<d.dst, q>>])
                                          ELSE handled[<<m, k>>]
              BY <1>2, <2>1
            <6> QED
              BY <2>1, <4>1, <6>1, <6>2 DEF Got
          <5> QED
            BY <1>1, <5>1 DEF Taken
        <4>3. Taken \subseteq Key /\ Taken' \subseteq Key
          BY DEF Taken
        <4> QED
          BY <1>1, <4>2, <4>3
      <3> QED
        BY <3>1, <3>2
    <2>5. IF q \in Reliables THEN q \in Taken ELSE Duplicates \/ Runs[q] = 0
      BY <1>1, <2>2
    <2> QED
      BY <1>1, <2>3, <2>4, <2>5, MapRun
  <1> QED
    BY <1>3, <1>4

\* The handlers of the acceptor: the first answer chooses, data is taken or run.
LEMMA MapReceive ==
  ASSUME Inductive, Wakeups, Blocking, Consumed, NEW d \in msgs, Receive(d.dst, d)
  PROVE  Step
  <1>1. d \in Datagram /\ d.dst \in Node /\ KeyOf(d) \in Key /\ GenuineDatagram(d)
    BY KeyOfType DEF Inductive, TypeOK, Datagram, Genuine
  <1>2. d.prefix = "_" => Addressed(d.dst, KeyOf(d))
    BY DEF Addressed
  <1>3. CASE ReceiveI(d.dst, d) \/ ReceiveTruncated(d.dst, d)
    <2>1. UNCHANGED <<send_pc, request, winner, handled, lost, acceptor>>
      BY <1>3 DEF ReceiveI, ReceiveTruncated, senderVars, historyVars
    <2> QED
      BY <2>1, StableSender, StableRuns, StableTaken, StableAccepting, MapNothing
  <1>4. CASE ReceiveX(d.dst, d)
    <2>1. /\ UNCHANGED <<send_pc, request, winner, handled, lost>>
          /\ d.prefix = "x" /\ acceptor[d.dst] = None
          /\ acceptor' \in {acceptor, [acceptor EXCEPT ![d.dst] = d]}
      BY <1>4 DEF ReceiveX, Accepts, senderVars, historyVars
    <2>2. \A m \in Node, k \in Key : Accepting(m, "_", k)' <=> Accepting(m, "_", k)
      BY <2>1 DEF Accepting, KeyOf, Inductive, TypeOK
    <2> QED
      BY <2>1, <2>2, StableSender, StableRuns, StableTaken, MapNothing
  <1>5. CASE ReceiveUnreliable(d.dst, d)
    <2>1. /\ UNCHANGED <<send_pc, request, winner, acceptor>> /\ RunHandler(d.dst, d)
          /\ d.prefix = "_" /\ ~d.reliable
      BY <1>5 DEF ReceiveUnreliable, senderVars
    <2>2. Duplicates \/ handled[<<d.dst, KeyOf(d)>>] = 0
      BY <1>1, <2>1 DEF Consumed
    <2>3. UNCHANGED <<Outcomes, Reliables>>
      BY <2>1, StableSender
    <2> QED
      BY <1>1, <1>2, <2>1, <2>2, <2>3, MapHandler
  <1>6. CASE ReceiveReliable(d.dst, d)
    <2>1. /\ UNCHANGED <<send_pc, request, winner, handled, lost>>
          /\ d.prefix = "_" /\ d.reliable /\ acceptor[d.dst] = None
          /\ acceptor' = [acceptor EXCEPT ![d.dst] = d]
      BY <1>6 DEF ReceiveReliable, Accepts, senderVars, historyVars
    <2>2. \A m \in Node, k \in Key :
            Accepting(m, "_", k)' <=> Accepting(m, "_", k) \/ (m = d.dst /\ k = KeyOf(d))
      BY <1>1, <2>1, NoneAssumption DEF Accepting, KeyOf, Inductive, TypeOK
    <2>3. Taken' = Taken \cup {KeyOf(d)}
      <3>1. \A m \in Node, k \in Key : Got(m, k)' <=> Got(m, k) \/ (m = d.dst /\ k = KeyOf(d))
        BY <2>1, <2>2 DEF Got
      <3>2. \A k \in Key : k \in Taken' <=> k \in Taken \/ k = KeyOf(d)
        BY <1>1, <3>1 DEF Taken
      <3>3. Taken \subseteq Key /\ Taken' \subseteq Key
        BY DEF Taken
      <3> QED
        BY <1>1, <3>2, <3>3
    <2>4. KeyOf(d) \in Reliables /\ winner[KeyOf(d)] # None
      BY <1>1, <1>2, <2>1, DataForWinner
    <2> QED
      BY <1>1, <2>1, <2>3, <2>4, StableSender, StableRuns, MapTake
  <1>7. CASE ReceiveV(d.dst, d)
    BY <1>7, MapReceiveV
  <1> QED
    BY <1>3, <1>4, <1>5, <1>6, <1>7 DEF Receive

\* The second half of a handler.
LEMMA MapHalf ==
  ASSUME Inductive, Wakeups, Blocking, NEW n \in Node, Release(n) \/ Handle(n)
  PROVE  Step
  <1>1. /\ acceptor[n] # None /\ acceptor[n] \in Datagram /\ acceptor[n].dst = n
        /\ acceptor' = [acceptor EXCEPT ![n] = None]
        /\ UNCHANGED <<send_pc, request, winner>>
    <2>1. acceptor[n] # None /\ acceptor' = [acceptor EXCEPT ![n] = None]
      BY DEF Release, Handle
    <2>2. UNCHANGED <<send_pc, request, winner>>
      BY DEF Release, Handle, senderVars, historyVars
    <2>3. acceptor[n] \in Datagram /\ acceptor[n].dst = n
      BY <2>1 DEF Inductive, TypeOK, Held
    <2> QED
      BY <2>1, <2>2, <2>3
  <1>2. UNCHANGED <<Outcomes, Reliables>>
    BY <1>1, StableSender
  <1>3. CASE Release(n)
    <2>1. acceptor[n].prefix = "x" /\ UNCHANGED <<handled, lost>>
      BY <1>3 DEF Release, historyVars
    <2>2. \A m \in Node, k \in Key : Accepting(m, "_", k)' <=> Accepting(m, "_", k)
      BY <1>1, <2>1 DEF Accepting, KeyOf, Inductive, TypeOK
    <2> QED
      BY <1>1, <1>2, <2>1, <2>2, StableRuns, StableTaken, MapNothing
  <1>4. CASE Handle(n)
    <2>1. PICK d \in Datagram : d = acceptor[n]
      BY <1>1
    <2>2. /\ d.prefix = "_" /\ d.reliable /\ d.dst = n /\ RunHandler(n, d)
          /\ GenuineDatagram(d) /\ KeyOf(d) \in Key
      BY <1>1, <1>4, <2>1, KeyOfType DEF Handle, Inductive, Held
    <2>3. Got(n, KeyOf(d))
      BY <1>1, <2>1, <2>2 DEF Got, Accepting
    <2>4. UNCHANGED Taken
      <3> SUFFICES ASSUME NEW m \in Node, NEW k \in Key
                   PROVE  Got(m, k)' <=> Got(m, k)
        BY DEF Taken
      <3>1. acceptor'[m] = IF m = n THEN None ELSE acceptor[m]
        BY <1>1 DEF Inductive, TypeOK
      <3>2. Accepting(n, "_", k) <=> k = KeyOf(d)
        BY <1>1, <2>1, <2>2 DEF Accepting
      <3>3. Accepting(m, "_", k)' <=> m # n /\ Accepting(m, "_", k)
        BY <3>1 DEF Accepting, KeyOf
      <3> QED
        BY <2>2, <3>2, <3>3, RunHandlerGot DEF Got, Inductive
    <2>5. KeyOf(d) \in Taken
      BY <2>2, <2>3 DEF Taken
    <2> QED
      BY <1>1, <1>2, <2>2, <2>3, <2>4, <2>5, MapHandler
  <1> QED
    BY <1>3, <1>4

-----------------------------------------------------------------------------
(* Theorem *)

\* Whatever happens to processes and datagrams, a request is given to one receiver, a
\* reliable send returns after the receiver has it, and an unreliable one is handled
\* once at most if the network does not duplicate.
THEOREM KeepsAnycast == Spec => ImplementsAnycast
  <1>1. Init => Promise!Init
    <2> SUFFICES ASSUME Init PROVE Promise!Init
      OBVIOUS
    <2>1. \A m \in Node, k \in Key : ~Got(m, k)
      BY DEF Init, Got, Accepting
    <2>2. \A k \in Key : Outcome(k) = "new" /\ winner[k] = None /\ send_pc[k] = "idle"
      BY DEF Init, Outcome, Waiting
    <2>3. winner = [k \in Key |-> None]
      BY DEF Init
    <2> QED
      BY <2>1, <2>2, <2>3 DEF Promise!Init, Promise!Key, Key
  <1>2. Inductive /\ Wakeups /\ Blocking /\ Consumed /\ [Next]_vars => Step
    <2> SUFFICES ASSUME Inductive, Wakeups, Blocking, Consumed, [Next]_vars
                 PROVE  Step
      OBVIOUS
    <2>1. CASE UNCHANGED vars
      BY <2>1, StableSender, StableRuns, StableTaken, StableAccepting, MapNothing
         DEF vars, senderVars, historyVars
    <2>2. ASSUME NEW d \in resend, ResendTick(d) \/ ResendStop(d) PROVE Step
      <3>1. UNCHANGED <<send_pc, request, winner, handled, lost, acceptor>>
        BY <2>2 DEF ResendTick, ResendStop, senderVars, historyVars
      <3> QED
        BY <3>1, StableSender, StableRuns, StableTaken, StableAccepting, MapNothing
    <2>3. ASSUME NEW d \in msgs, Lose(d) PROVE Step
      <3>1. UNCHANGED <<send_pc, request, winner, handled, lost, acceptor>>
        BY <2>3 DEF Lose, senderVars, historyVars
      <3> QED
        BY <3>1, StableSender, StableRuns, StableTaken, StableAccepting, MapNothing
    <2> QED
      BY <2>1, <2>2, <2>3, MapSetup, MapHalf, MapSender, MapReceive DEF Next
  <1> QED
    BY <1>1, <1>2, WakeupsInvariance, OneAtATime, ConsumedAlways, PTL
       DEF Spec, ImplementsAnycast, Promise!Spec, Step
=============================================================================
