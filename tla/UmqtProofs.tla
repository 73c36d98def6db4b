----------------------------- MODULE UmqtProofs -----------------------------
(***************************************************************************)
(* Theorems about Umqt, for any number of processes, topics, payloads and  *)
(* requests, with or without duplication in the network.                   *)
(***************************************************************************)
EXTENDS Umqt, TLAPS

-----------------------------------------------------------------------------
(* Lemmas about the helpers *)

\* A bounded counter stays in its bounds.
LEMMA Increment ==
  ASSUME NEW b \in Nat, NEW i \in 0 .. b, i < b
  PROVE  i + 1 \in 0 .. b
  OBVIOUS

\* What the acceptor sends is a datagram.
LEMMA AnswerType ==
  ASSUME NEW d \in Datagram, NEW p \in {"i", "v", "_", "x"}
  PROVE  /\ Answer(d, p) \in Datagram
         /\ \A b \in Payload : Data(d, b) \in Datagram
  BY DEF Answer, Data, Datagram

\* A datagram is about a request that has a key.
LEMMA KeyOfType ==
  ASSUME NEW d \in Datagram
  PROVE  KeyOf(d) \in Key
  BY DEF KeyOf, Datagram, Key

\* Where a question, an answer and the data go, and which request they are about.
LEMMA Made ==
  /\ \A k \in Key : \A m : Question(k, m).prefix = "i"
  /\ \A d \in Datagram :
       /\ \A p \in {"v", "x"} : /\ Answer(d, p).prefix = p
                              /\ Answer(d, p).src = d.dst /\ Answer(d, p).dst = d.src
       /\ \A b \in Payload \cup {None} :
            Data(d, b).prefix = "_" /\ Data(d, b).src = d.dst /\ Data(d, b).dst = d.src
       /\ d.prefix = "i" => KeyOf(Answer(d, "v")) = KeyOf(d)
       /\ d.prefix = "_" => KeyOf(Answer(d, "x")) = KeyOf(d)
       /\ d.prefix = "v" => \A b \in Payload \cup {None} : KeyOf(Data(d, b)) = KeyOf(d)
  <1>1. \A k \in Key : \A m : Question(k, m).prefix = "i"
    BY DEF Question
  <1>2. ASSUME NEW d \in Datagram, NEW p \in {"v", "x"}
        PROVE  /\ Answer(d, p).prefix = p
               /\ Answer(d, p).src = d.dst /\ Answer(d, p).dst = d.src
               /\ Answer(d, p).id = d.id
    BY DEF Answer, Datagram
  <1>3. ASSUME NEW d \in Datagram, NEW b \in Payload \cup {None}
        PROVE  /\ Data(d, b).prefix = "_"
               /\ Data(d, b).src = d.dst /\ Data(d, b).dst = d.src
               /\ Data(d, b).id = d.id
    BY DEF Data, Datagram
  <1> QED
    BY <1>1, <1>2, <1>3 DEF KeyOf

\* A permit belongs to one of the three kinds of Notify.
LEMMA NotifyOneType ==
  ASSUME permit \subseteq {"discovery", "sent", "finish"} \X Key,
         NEW w \in {"discovery", "sent", "finish"}, NEW k \in Key
  PROVE  NotifyOne(w, k) \subseteq {"discovery", "sent", "finish"} \X Key
  BY DEF NotifyOne

\* Receiving and sending keep the network a set of datagrams.
LEMMA TransferType ==
  ASSUME msgs \subseteq Datagram, NEW d \in Datagram,
         NEW out \in SUBSET Datagram, Transfer(d, out)
  PROVE  msgs' \subseteq Datagram
  BY DEF Transfer

\* Running a handler keeps the counters and the lost messages well-typed.
LEMMA RunHandlerType ==
  ASSUME TypeOK, NEW n \in Node, NEW d \in Datagram, RunHandler(n, d)
  PROVE  /\ handled' \in [Node \X Key -> 0 .. MaxHandled]
         /\ lost' \subseteq Node \X Key
  <1>1. /\ <<n, KeyOf(d)>> \in Node \X Key
        /\ handled \in [Node \X Key -> 0 .. MaxHandled]
        /\ lost \subseteq Node \X Key
    BY KeyOfType DEF TypeOK
  <1>2. Saturated(handled[<<n, KeyOf(d)>>]) \in 0 .. MaxHandled
    BY <1>1, ConstantsAssumption DEF Saturated
  <1> QED
    BY <1>1, <1>2 DEF RunHandler

-----------------------------------------------------------------------------
(* Type correctness *)

LEMMA TypeInit == Init => TypeOK
  BY ConstantsAssumption DEF Init, TypeOK

\* The application's calls and the ends of processes keep the types.
LEMMA TypeSetup ==
  ASSUME TypeOK, NEW n \in Node, Setup(n)
  PROVE  TypeOK'
  <1> USE DEF TypeOK, setupVars, senderVars, historyVars, boundVars
  <1>b. /\ exits < MaxExits => exits + 1 \in 0 .. MaxExits
        /\ stops < MaxStops => stops + 1 \in 0 .. MaxStops
        /\ clock[n] < MaxId => clock[n] + 1 \in 1 .. MaxId
    BY ConstantsAssumption
  <1>1. CASE Create(n)
    BY <1>1 DEF Create
  <1>2. CASE Start(n)
    BY <1>2 DEF Start
  <1>3. CASE Stop(n)
    <2>1. acceptor[n] # None => KeyOf(acceptor[n]) \in Key
      BY KeyOfType
    <2>2. stops' \in 0 .. MaxStops
      BY <1>3, <1>b DEF Stop
    <2> QED
      BY <1>3, <2>1, <2>2 DEF Stop
  <1>10. CASE Unbind(n)
    BY <1>10 DEF Unbind
  <1>4. ASSUME Vanish(n) PROVE TypeOK'
    <2>1. acceptor[n] # None => KeyOf(acceptor[n]) \in Key
      BY KeyOfType
    <2>2. exits' \in 0 .. MaxExits
      BY <1>4, <1>b DEF Vanish
    <2>4. send_pc' \in [Key -> {"idle", "discover", "finish", "done", "lost"}]
      BY <1>4 DEF Vanish
    <2> QED
      BY <1>4, <2>2, <2>4 DEF Vanish
  <1>5. CASE Crash(n)
    BY <1>4, <1>5 DEF Crash
  <1>6. ASSUME NEW t \in Topic, On(n, t) PROVE TypeOK'
    BY <1>6 DEF On
  <1>7. ASSUME NEW t \in Topic, SendBeforeStart(n, t) PROVE TypeOK'
    BY <1>4, <1>7 DEF SendBeforeStart
  <1>8. ASSUME NEW t \in Topic, NEW m \in Node, AddServer(n, t, m) PROVE TypeOK'
    BY <1>8 DEF AddServer
  <1>9. ASSUME NEW t \in Topic, NEW b \in Payload, NEW r \in BOOLEAN, Send(n, t, b, r)
        PROVE  TypeOK'
    <2> DEFINE k == <<n, clock[n] + 1>>
    <2>1. clock[n] + 1 \in 1 .. MaxId
      BY <1>9, <1>b DEF Send
    <2>2. k \in Key
      BY <2>1 DEF Key, Id
    <2>3. clock' \in [Node -> 0 .. MaxId]
      BY <1>9, <2>1 DEF Send
    <2>4. [topic |-> t, bytes |-> b, reliable |-> r, servers |-> topic_servers[n][t]]
            \in Request
      BY DEF Request
    <2> QED
      BY <1>9, <2>2, <2>3, <2>4 DEF Send
  <1> QED
    BY <1>1, <1>2, <1>3, <1>10, <1>5, <1>6, <1>7, <1>8, <1>9 DEF Setup

\* A request that is under way has its arguments on record.
LEMMA WaitingRequest ==
  ASSUME TypeOK, Issued, NEW k \in Key, send_pc[k] # "idle"
  PROVE  request[k] \in Request
  BY DEF TypeOK, Issued

\* The steps of send() keep the types.
LEMMA TypeSender ==
  ASSUME TypeOK, Issued, NEW k \in Key, Sender(k)
  PROVE  TypeOK'
  <1> USE DEF TypeOK, setupVars, senderVars, historyVars, boundVars
  <1>1. CASE DiscoverTick(k)
    <2>1. request[k] \in Request
      BY <1>1, WaitingRequest DEF DiscoverTick
    <2>2. k[1] \in Node /\ k[2] \in Id
      BY DEF Key
    <2>3. \A m \in request[k].servers : Question(k, m) \in Datagram
      BY <2>1, <2>2 DEF Question, Request, Datagram
    <2>4. msgs' = msgs \cup {Question(k, m) : m \in request[k].servers}
      BY <1>1 DEF DiscoverTick
    <2>5. msgs' \subseteq Datagram
      BY <2>3, <2>4
    <2> QED
      BY <1>1, <2>5 DEF DiscoverTick
  <1>2. CASE Discovered(k)
    BY <1>2 DEF Discovered, AfterDiscovery
  <1>3. CASE Finished(k)
    BY <1>3 DEF Finished
  <1> QED
    BY <1>1, <1>2, <1>3 DEF Sender

\* The resend task keeps the types.
LEMMA TypeResend ==
  ASSUME TypeOK, NEW d \in resend, ResendTick(d) \/ ResendStop(d)
  PROVE  TypeOK'
  BY DEF ResendTick, ResendStop, TypeOK, setupVars, senderVars, historyVars, boundVars

\* The handlers of the acceptor keep the types.
LEMMA TypeReceive ==
  ASSUME TypeOK, NEW n \in Node, NEW d \in msgs, Receive(n, d)
  PROVE  TypeOK'
  <1> USE DEF TypeOK, setupVars, senderVars, historyVars, boundVars
  <1>1. d \in Datagram
    OBVIOUS
  <1>2. Answer(d, "v") \in Datagram /\ Answer(d, "x") \in Datagram
    BY <1>1, AnswerType
  <1>3. <<n, d.id>> \in Key /\ d.src \in Node
    BY <1>1 DEF Datagram, Key
  <1>4. CASE ReceiveI(n, d)
    BY <1>1, <1>2, <1>4, TransferType DEF ReceiveI
  <1>5. CASE ReceiveV(n, d)
    <2> DEFINE k == <<n, d.id>>
               data == {Data(d, jobs[k])} \ {Data(d, None)}
    <2>1. data \subseteq Datagram
      BY <1>1, <1>3, AnswerType
    <2>2. msgs' \subseteq Datagram
      BY <1>1, <1>5, <2>1, TransferType DEF ReceiveV
    <2>3. resend' \subseteq Datagram
      BY <1>5, <2>1 DEF ReceiveV
    <2>4. permit' \subseteq {"discovery", "sent", "finish"} \X Key
      BY <1>3, <1>5, NotifyOneType DEF ReceiveV, Claim
    <2>5. /\ jobs' \in [Key -> Payload \cup {None}]
          /\ winner' \in [Key -> Node \cup {None}]
          /\ notify_discovery' \subseteq Key
      BY <1>3, <1>5 DEF ReceiveV, Claim
    <2> QED
      BY <1>5, <2>2, <2>3, <2>4, <2>5 DEF ReceiveV
  <1>6. CASE ReceiveX(n, d)
    <2>1. msgs' \subseteq Datagram
      BY <1>1, <1>6, TransferType DEF ReceiveX
    <2>2. permit' \subseteq {"discovery", "sent", "finish"} \X Key
      BY <1>3, <1>6, NotifyOneType DEF ReceiveX
    <2> QED
      BY <1>1, <1>3, <1>6, <2>1, <2>2 DEF ReceiveX
  <1>7. CASE ReceiveUnreliable(n, d)
    BY <1>1, <1>7, TransferType, RunHandlerType DEF ReceiveUnreliable
  <1>8. CASE ReceiveReliable(n, d)
    BY <1>1, <1>2, <1>8, TransferType DEF ReceiveReliable
  <1>9. CASE ReceiveTruncated(n, d)
    BY <1>1, <1>9, TransferType DEF ReceiveTruncated
  <1> QED
    BY <1>4, <1>5, <1>6, <1>7, <1>8, <1>9 DEF Receive

\* The second halves of the handlers keep the types.
LEMMA TypeHalf ==
  ASSUME TypeOK, NEW n \in Node, Release(n) \/ Handle(n)
  PROVE  TypeOK'
  <1> USE DEF TypeOK, setupVars, senderVars, historyVars, boundVars
  <1>1. acceptor[n] # None => acceptor[n] \in Datagram /\ KeyOf(acceptor[n]) \in Key
    BY KeyOfType
  <1>2. CASE Release(n)
    <2>1. permit' \subseteq {"discovery", "sent", "finish"} \X Key
      BY <1>1, <1>2, NotifyOneType DEF Release
    <2> QED
      BY <1>2, <2>1 DEF Release
  <1>3. CASE Handle(n)
    <2>1. acceptor[n] \in Datagram
      BY <1>1, <1>3 DEF Handle
    <2> QED
      BY <1>3, <2>1, RunHandlerType DEF Handle
  <1> QED
    BY <1>2, <1>3

\* Every step keeps the types.
LEMMA TypeStep ==
  ASSUME TypeOK, Issued, [Next]_vars
  PROVE  TypeOK'
  <1>1. CASE UNCHANGED vars
    BY <1>1 DEF vars, TypeOK, setupVars, senderVars, historyVars, boundVars
  <1>2. ASSUME NEW n \in Node, Setup(n) PROVE TypeOK'
    BY <1>2, TypeSetup
  <1>3. ASSUME NEW n \in Node, Release(n) \/ Handle(n) PROVE TypeOK'
    BY <1>3, TypeHalf
  <1>4. ASSUME NEW k \in Key, Sender(k) PROVE TypeOK'
    BY <1>4, TypeSender
  <1>5. ASSUME NEW d \in resend, ResendTick(d) \/ ResendStop(d) PROVE TypeOK'
    BY <1>5, TypeResend
  <1>6. ASSUME NEW d \in msgs, Lose(d) PROVE TypeOK'
    BY <1>6 DEF Lose, TypeOK, setupVars, senderVars, historyVars, boundVars
  <1>7. ASSUME NEW d \in msgs, Receive(d.dst, d) PROVE TypeOK'
    <2>1. d.dst \in Node
      BY DEF TypeOK, Datagram
    <2> QED
      BY <1>7, <2>1, TypeReceive
  <1> QED
    BY <1>1, <1>2, <1>3, <1>4, <1>5, <1>6, <1>7 DEF Next

-----------------------------------------------------------------------------
(* Requests *)

\* Send takes an id nobody has used: the clock has just passed it.
LEMMA SendKeyFresh ==
  ASSUME TypeOK, Issued, NEW n \in Node, clock[n] < MaxId
  PROVE  /\ <<n, clock[n] + 1>> \in Key
         /\ request[<<n, clock[n] + 1>>] = None
  <1>1. clock[n] \in 0 .. MaxId
    BY DEF TypeOK
  <1>2. clock[n] + 1 \in 1 .. MaxId /\ clock[n] + 1 > clock[n]
    BY <1>1, ConstantsAssumption
  <1>3. <<n, clock[n] + 1>> \in Key
    BY <1>2 DEF Key, Id
  <1> QED
    BY <1>2, <1>3 DEF Issued

\* The application's calls and the ends of processes keep Issued.
LEMMA IssuedSetup ==
  ASSUME TypeOK, Issued, NEW n \in Node, Setup(n)
  PROVE  Issued'
  <1> USE DEF setupVars, senderVars, historyVars
  <1>1. CASE Create(n) \/ Start(n) \/ Stop(n) \/ Unbind(n)
    BY <1>1 DEF Create, Start, Stop, Unbind, Issued
  <1>2. ASSUME Vanish(n) PROVE Issued'
    <2> SUFFICES ASSUME NEW k \in Key
                 PROVE  /\ k[2] > clock'[k[1]] => request'[k] = None
                        /\ request'[k] = None =>
                             /\ send_pc'[k] = "idle" /\ jobs'[k] = None /\ winner'[k] = None
                             /\ k \notin notify_discovery' \cup notify_sent' \cup notify_finish'
      BY DEF Issued
    <2>1. /\ clock' = clock /\ request' = request /\ winner' = winner
          /\ send_pc'[k] = IF k[1] = n /\ Waiting(k) THEN "lost" ELSE send_pc[k]
          /\ jobs'[k] = IF k[1] = n THEN None ELSE jobs[k]
          /\ notify_discovery' \subseteq notify_discovery
          /\ notify_sent' \subseteq notify_sent /\ notify_finish' \subseteq notify_finish
      BY <1>2 DEF Vanish
    <2> QED
      BY <2>1 DEF Issued, Waiting
  <1>3. CASE Crash(n)
    BY <1>2, <1>3 DEF Crash
  <1>4. ASSUME NEW t \in Topic,
               On(n, t) \/ \E m \in Node : AddServer(n, t, m)
        PROVE  Issued'
    BY <1>4 DEF On, AddServer, Issued
  <1>5. ASSUME NEW t \in Topic, SendBeforeStart(n, t) PROVE Issued'
    BY <1>2, <1>5 DEF SendBeforeStart
  <1>6. ASSUME NEW t \in Topic, NEW b \in Payload, NEW r \in BOOLEAN, Send(n, t, b, r)
        PROVE  Issued'
    <2> DEFINE new == <<n, clock[n] + 1>>
    <2>1. new \in Key /\ clock[n] < MaxId
      BY <1>6, SendKeyFresh DEF Send
    <2>2. request'[new] # None
      <3>1. [topic |-> t, bytes |-> b, reliable |-> r, servers |-> topic_servers[n][t]]
              \in Request
        BY DEF Request, TypeOK
      <3> QED
        BY <1>6, <2>1, <3>1, NoneAssumption DEF Send, TypeOK
    <2>3. ASSUME NEW k \in Key, k # new
          PROVE  /\ k[2] > clock'[k[1]] => k[2] > clock[k[1]]
                 /\ request'[k] = request[k] /\ send_pc'[k] = send_pc[k]
                 /\ jobs'[k] = jobs[k] /\ winner'[k] = winner[k]
                 /\ k \in notify_discovery' <=> k \in notify_discovery
                 /\ k \in notify_sent' <=> k \in notify_sent
                 /\ k \in notify_finish' <=> k \in notify_finish
      <3>1. k[1] \in Node /\ k[2] \in Nat /\ clock[k[1]] \in Nat /\ clock[n] \in Nat
        BY ConstantsAssumption DEF Key, Id, TypeOK
      <3>2. clock'[k[1]] \in Nat /\ clock[k[1]] <= clock'[k[1]]
        BY <1>6, <3>1 DEF Send, TypeOK
      <3>3. k[2] > clock'[k[1]] => k[2] > clock[k[1]]
        BY <3>1, <3>2
      <3> QED
        BY <1>6, <2>3, <3>3 DEF Send, TypeOK
    <2>4. ~(new[2] > clock'[new[1]])
      BY <1>6, ConstantsAssumption DEF Send, TypeOK
    <2> QED
      BY <2>1, <2>2, <2>3, <2>4 DEF Issued
  <1> QED
    BY <1>1, <1>3, <1>4, <1>5, <1>6 DEF Setup

\* Every step keeps Issued.
LEMMA IssuedStep ==
  ASSUME TypeOK, Issued, [Next]_vars
  PROVE  Issued'
  <1> USE DEF setupVars, senderVars, historyVars
  <1>1. CASE UNCHANGED vars
    BY <1>1 DEF vars, Issued
  <1>2. ASSUME NEW n \in Node, Setup(n) PROVE Issued'
    BY <1>2, IssuedSetup
  <1>3. ASSUME NEW n \in Node, Release(n) \/ Handle(n) PROVE Issued'
    BY <1>3 DEF Release, Handle, Issued
  <1>4. ASSUME NEW k \in Key, Sender(k) PROVE Issued'
    <2>1. CASE DiscoverTick(k)
      BY <2>1 DEF DiscoverTick, Issued
    <2>2. CASE Discovered(k) \/ Finished(k)
      <3>1. request[k] # None
        BY <2>2 DEF Discovered, Finished, Issued
      <3> QED
        BY <2>2, <3>1 DEF Discovered, Finished, Issued, TypeOK
    <2> QED
      BY <1>4, <2>1, <2>2 DEF Sender
  <1>5. ASSUME NEW d \in resend, ResendTick(d) \/ ResendStop(d) PROVE Issued'
    BY <1>5 DEF ResendTick, ResendStop, Issued
  <1>6. ASSUME NEW d \in msgs, Lose(d) PROVE Issued'
    BY <1>6 DEF Lose, Issued
  <1>7. ASSUME NEW d \in msgs, NEW n \in Node, Receive(n, d) PROVE Issued'
    <2>1. CASE ReceiveI(n, d) \/ ReceiveReliable(n, d) \/ ReceiveUnreliable(n, d)
                 \/ ReceiveTruncated(n, d)
      <3>1. UNCHANGED <<senderVars, winner>>
        BY <2>1 DEF ReceiveI, ReceiveReliable, ReceiveUnreliable, ReceiveTruncated
      <3> QED
        BY <3>1 DEF Issued
    <2>3. CASE ReceiveX(n, d)
      <3>1. notify_finish' \subseteq notify_finish
        BY <2>3 DEF ReceiveX
      <3> QED
        BY <2>3, <3>1 DEF ReceiveX, Issued
    <2>2. CASE ReceiveV(n, d)
      BY <2>2, ZenonT(40) DEF ReceiveV, Claim, Issued, TypeOK
    <2> QED
      BY <1>7, <2>1, <2>2, <2>3 DEF Receive
  <1> QED
    BY <1>1, <1>2, <1>3, <1>4, <1>5, <1>6, <1>7 DEF Next, TypeOK, Datagram

\* Types, with Issued to make them inductive.
THEOREM TypeCorrect == Spec => [](TypeOK /\ Issued)
  <1>1. Init => TypeOK /\ Issued
    BY TypeInit DEF Init, Issued
  <1>2. TypeOK /\ Issued /\ [Next]_vars => (TypeOK /\ Issued)'
    BY TypeStep, IssuedStep
  <1> QED
    BY <1>1, <1>2, PTL DEF Spec

-----------------------------------------------------------------------------
(* What a step can bring about *)

\* A datagram is sent again, or asks about a waiting request, or answers one
\* just received, or carries the job to the first server that answered.
LEMMA NewDatagram ==
  ASSUME TypeOK, Issued, [Next]_vars, NEW d \in msgs' \cup resend'
  PROVE  \/ d \in msgs \cup resend
         \/ \E k \in Key : \E m \in request[k].servers :
              send_pc[k] = "discover" /\ d = Question(k, m)
         \/ \E e \in msgs : e.prefix = "i" /\ d = Answer(e, "v")
         \/ \E e \in msgs : /\ e.prefix = "_" /\ e.reliable
                           /\ d = Answer(e, "x") /\ acceptor'[e.dst] = e
         \/ \E e \in msgs : /\ e.prefix = "v" /\ KeyOf(e) \in notify_discovery
                           /\ jobs[KeyOf(e)] # None /\ d = Data(e, jobs[KeyOf(e)])
                           /\ winner'[KeyOf(e)] = e.src
  <1> USE DEF senderVars
  <1>1. CASE UNCHANGED vars
    BY <1>1 DEF vars
  <1>2. ASSUME NEW n \in Node, Setup(n) PROVE d \in msgs \cup resend
    BY <1>2 DEF Setup, Create, Start, Stop, Unbind, Crash, On, AddServer, Send, SendBeforeStart, Vanish
  <1>3. ASSUME NEW n \in Node, Release(n) \/ Handle(n) PROVE d \in msgs \cup resend
    BY <1>3 DEF Release, Handle
  <1>4. ASSUME NEW k \in Key, Discovered(k) \/ Finished(k) PROVE d \in msgs \cup resend
    BY <1>4 DEF Discovered, Finished
  <1>5. ASSUME NEW k \in Key, DiscoverTick(k)
        PROVE  \/ d \in msgs \cup resend
               \/ \E m \in request[k].servers : send_pc[k] = "discover" /\ d = Question(k, m)
    BY <1>5 DEF DiscoverTick
  <1>6. ASSUME NEW e \in resend, ResendTick(e) \/ ResendStop(e) PROVE d \in msgs \cup resend
    BY <1>6 DEF ResendTick, ResendStop
  <1>7. ASSUME NEW e \in msgs, Lose(e) PROVE d \in msgs \cup resend
    BY <1>7 DEF Lose
  <1>8. ASSUME NEW e \in msgs, ReceiveI(e.dst, e)
        PROVE  d \in msgs \cup resend \/ (e.prefix = "i" /\ d = Answer(e, "v"))
    BY <1>8 DEF ReceiveI, Transfer
  <1>9. ASSUME NEW e \in msgs, ReceiveV(e.dst, e)
        PROVE  \/ d \in msgs \cup resend
               \/ /\ e.prefix = "v" /\ KeyOf(e) \in notify_discovery
                  /\ jobs[KeyOf(e)] # None /\ d = Data(e, jobs[KeyOf(e)])
                  /\ winner'[KeyOf(e)] = e.src
    <2>1. e \in Datagram /\ e.prefix = "v"
      BY <1>9 DEF ReceiveV, TypeOK
    <2>2. KeyOf(e) = <<e.dst, e.id>> /\ KeyOf(e) \in Key
      BY <2>1, KeyOfType DEF KeyOf
    <2> DEFINE data == {Data(e, jobs[KeyOf(e)])} \ {Data(e, None)}
    <2>3. CASE KeyOf(e) \in notify_discovery
      <3>1. msgs' \subseteq msgs \cup data /\ resend' \subseteq resend \cup data
        BY <1>9, <2>2, <2>3 DEF ReceiveV, Transfer
      <3>2. winner'[KeyOf(e)] = e.src
        BY <1>9, <2>2, <2>3 DEF ReceiveV, Claim, TypeOK
      <3> QED
        BY <2>1, <2>3, <3>1, <3>2
    <2>4. CASE KeyOf(e) \notin notify_discovery
      BY <1>9, <2>2, <2>4 DEF ReceiveV, Transfer
    <2> QED
      BY <2>3, <2>4
  <1>10. ASSUME NEW e \in msgs, ReceiveX(e.dst, e) \/ ReceiveUnreliable(e.dst, e)
                                  \/ ReceiveTruncated(e.dst, e)
         PROVE  d \in msgs \cup resend
    BY <1>10 DEF ReceiveX, ReceiveUnreliable, ReceiveTruncated, Transfer
  <1>11. ASSUME NEW e \in msgs, ReceiveReliable(e.dst, e)
         PROVE  \/ d \in msgs \cup resend
                \/ /\ e.prefix = "_" /\ e.reliable
                   /\ d = Answer(e, "x") /\ acceptor'[e.dst] = e
    <2>1. e.dst \in Node
      BY DEF TypeOK, Datagram
    <2> QED
      BY <1>11, <2>1 DEF ReceiveReliable, Transfer, TypeOK
  <1> QED
    BY <1>1, <1>2, <1>3, <1>4, <1>5, <1>6, <1>7, <1>8, <1>9, <1>10, <1>11
       DEF Next, Sender, Receive

\* A handler that is half done was so before, or has just received its datagram.
LEMMA NewAcceptor ==
  ASSUME TypeOK, [Next]_vars, NEW n \in Node, acceptor'[n] # None
  PROVE  \/ acceptor'[n] = acceptor[n]
         \/ /\ acceptor'[n] \in msgs /\ acceptor'[n].dst = n
            /\ acceptor'[n].prefix = "x" \/ (acceptor'[n].prefix = "_" /\ acceptor'[n].reliable)
  <1>1. CASE UNCHANGED vars
    BY <1>1 DEF vars
  <1>2. ASSUME NEW m \in Node, Setup(m) PROVE acceptor'[n] = acceptor[n] \/ acceptor'[n] = None
    BY <1>2, ZenonT(40) DEF Setup, Create, Start, Stop, Unbind, Crash, On, AddServer, Send, SendBeforeStart, Vanish,
                TypeOK
  <1>3. ASSUME NEW m \in Node, Release(m) \/ Handle(m)
        PROVE  acceptor'[n] = acceptor[n] \/ acceptor'[n] = None
    BY <1>3 DEF Release, Handle, TypeOK
  <1>4. ASSUME NEW k \in Key, Sender(k) PROVE acceptor'[n] = acceptor[n]
    BY <1>4 DEF Sender, DiscoverTick, Discovered, Finished
  <1>5. ASSUME NEW e \in resend, ResendTick(e) \/ ResendStop(e) PROVE acceptor'[n] = acceptor[n]
    BY <1>5 DEF ResendTick, ResendStop
  <1>6. ASSUME NEW e \in msgs, Lose(e) PROVE acceptor'[n] = acceptor[n]
    BY <1>6 DEF Lose
  <1>7. ASSUME NEW e \in msgs, ReceiveI(e.dst, e) \/ ReceiveV(e.dst, e)
                 \/ ReceiveUnreliable(e.dst, e) \/ ReceiveTruncated(e.dst, e)
        PROVE  acceptor'[n] = acceptor[n]
    BY <1>7 DEF ReceiveI, ReceiveV, ReceiveUnreliable, ReceiveTruncated
  <1>8. ASSUME NEW e \in msgs, ReceiveX(e.dst, e)
        PROVE  acceptor'[n] = acceptor[n] \/ (acceptor'[n] = e /\ e.dst = n /\ e.prefix = "x")
    BY <1>8 DEF ReceiveX, TypeOK
  <1>9. ASSUME NEW e \in msgs, ReceiveReliable(e.dst, e)
        PROVE  \/ acceptor'[n] = acceptor[n]
               \/ acceptor'[n] = e /\ e.dst = n /\ e.prefix = "_" /\ e.reliable
    BY <1>9 DEF ReceiveReliable, TypeOK
  <1> QED
    BY <1>1, <1>2, <1>3, <1>4, <1>5, <1>6, <1>7, <1>8, <1>9 DEF Next, Receive

\* A request on record stays as it is; a job is its bytes; only a new request
\* enters notify_discovery; only the first answer makes a winner.
LEMMA RequestStep ==
  ASSUME TypeOK, Issued, [Next]_vars, NEW k \in Key
  PROVE  /\ request[k] # None => request'[k] = request[k]
         /\ jobs'[k] # None =>
              jobs'[k] = jobs[k] \/ (request[k] = None /\ jobs'[k] = request'[k].bytes)
         /\ k \in notify_discovery' => k \in notify_discovery \/ request[k] = None
         /\ \/ winner'[k] = winner[k]
            \/ /\ k \in notify_discovery /\ k \notin notify_discovery'
               /\ \E e \in msgs : e.prefix = "v" /\ KeyOf(e) = k /\ winner'[k] = e.src
  <1> DEFINE Goal ==
        /\ request[k] # None => request'[k] = request[k]
        /\ jobs'[k] # None =>
             jobs'[k] = jobs[k] \/ (request[k] = None /\ jobs'[k] = request'[k].bytes)
        /\ k \in notify_discovery' => k \in notify_discovery \/ request[k] = None
        /\ \/ winner'[k] = winner[k]
           \/ /\ k \in notify_discovery /\ k \notin notify_discovery'
              /\ \E e \in msgs : e.prefix = "v" /\ KeyOf(e) = k /\ winner'[k] = e.src
  <1>0. UNCHANGED <<request, jobs, notify_discovery, winner>> => Goal
    OBVIOUS
  <1> USE DEF senderVars, historyVars
  <1>1. CASE UNCHANGED vars
    BY <1>0, <1>1 DEF vars
  <1>2. ASSUME NEW n \in Node, Setup(n) PROVE Goal
    <2>1. CASE Create(n) \/ Start(n) \/ Stop(n) \/ Unbind(n) \/ (\E t \in Topic : On(n, t))
                 \/ (\E t \in Topic, m \in Node : AddServer(n, t, m))
      BY <1>0, <2>1 DEF Create, Start, Stop, Unbind, On, AddServer
    <2>2. ASSUME Vanish(n) PROVE Goal
      <3>1. /\ request' = request /\ winner' = winner
            /\ jobs'[k] = IF k[1] = n THEN None ELSE jobs[k]
            /\ notify_discovery' \subseteq notify_discovery
        BY <2>2 DEF Vanish
      <3> QED
        BY <3>1
    <2>3. CASE Crash(n) \/ (\E t \in Topic : SendBeforeStart(n, t))
      BY <2>2, <2>3 DEF Crash, SendBeforeStart
    <2>4. ASSUME NEW t \in Topic, NEW b \in Payload, NEW r \in BOOLEAN, Send(n, t, b, r)
          PROVE  Goal
      <3> DEFINE new == <<n, clock[n] + 1>>
      <3>1. new \in Key /\ request[new] = None
        BY <2>4, SendKeyFresh DEF Send
      <3>2. CASE k = new
        <4>1. jobs'[k] = b /\ request'[k].bytes = b /\ winner' = winner
          BY <2>4, <3>1, <3>2 DEF Send, TypeOK
        <4> QED
          BY <3>1, <3>2, <4>1
      <3>3. CASE k # new
        <4>1. /\ jobs'[k] = jobs[k] /\ request'[k] = request[k] /\ winner' = winner
              /\ k \in notify_discovery' <=> k \in notify_discovery
          BY <2>4, <3>1, <3>3 DEF Send, TypeOK
        <4> QED
          BY <4>1
      <3> QED
        BY <3>2, <3>3
    <2> QED
      BY <1>2, <2>1, <2>3, <2>4 DEF Setup
  <1>3. ASSUME NEW n \in Node, Release(n) \/ Handle(n) PROVE Goal
    BY <1>0, <1>3 DEF Release, Handle
  <1>4. ASSUME NEW q \in Key, Sender(q) PROVE Goal
    BY <1>0, <1>4 DEF Sender, DiscoverTick, Discovered, Finished
  <1>5. ASSUME NEW d \in resend, ResendTick(d) \/ ResendStop(d) PROVE Goal
    BY <1>0, <1>5 DEF ResendTick, ResendStop
  <1>6. ASSUME NEW d \in msgs, Lose(d) PROVE Goal
    BY <1>0, <1>6 DEF Lose
  <1>7. ASSUME NEW d \in msgs, Receive(d.dst, d), ~ReceiveV(d.dst, d) PROVE Goal
    BY <1>0, <1>7
       DEF Receive, ReceiveI, ReceiveX, ReceiveUnreliable, ReceiveReliable, ReceiveTruncated
  <1>8. ASSUME NEW d \in msgs, ReceiveV(d.dst, d) PROVE Goal
    <2>1. d.prefix = "v" /\ KeyOf(d) = <<d.dst, d.id>> /\ KeyOf(d) \in Key
      BY <1>8, KeyOfType DEF ReceiveV, KeyOf, TypeOK
    <2>2. CASE KeyOf(d) \in notify_discovery
      <3>1. /\ request' = request
            /\ notify_discovery' = notify_discovery \ {KeyOf(d)}
            /\ jobs' = [jobs EXCEPT ![KeyOf(d)] = None]
            /\ winner' = [winner EXCEPT ![KeyOf(d)] = d.src]
        BY <1>8, <2>1, <2>2 DEF ReceiveV, Claim
      <3>2. CASE k = KeyOf(d)
        <4>1. jobs'[k] = None /\ winner'[k] = d.src
          BY <3>1, <3>2 DEF TypeOK
        <4> QED
          BY <2>1, <2>2, <3>1, <3>2, <4>1
      <3>3. CASE k # KeyOf(d)
        <4>1. jobs'[k] = jobs[k] /\ winner'[k] = winner[k]
          BY <3>1, <3>3 DEF TypeOK
        <4> QED
          BY <3>1, <4>1
      <3> QED
        BY <3>2, <3>3
    <2>3. CASE KeyOf(d) \notin notify_discovery
      BY <1>0, <1>8, <2>1, <2>3 DEF ReceiveV
    <2> QED
      BY <2>2, <2>3
  <1>9. Goal
    BY <1>1, <1>2, <1>3, <1>4, <1>5, <1>6, <1>7, <1>8 DEF Next
  <1> QED
    BY <1>9

-----------------------------------------------------------------------------
(* Provenance of datagrams *)

\* A datagram that is genuine stays so.
LEMMA GenuineKept ==
  ASSUME TypeOK, Issued, [Next]_vars, NEW d \in Datagram, GenuineDatagram(d)
  PROVE  GenuineDatagram(d)'
  <1>1. KeyOf(d) \in Key /\ request[KeyOf(d)] # None
    BY KeyOfType DEF GenuineDatagram
  <1>2. request'[KeyOf(d)] = request[KeyOf(d)]
    BY <1>1, RequestStep
  <1> QED
    BY <1>2 DEF GenuineDatagram, KeyOf

\* Questions, answers and data made from genuine datagrams are genuine.
LEMMA GenuineMade ==
  ASSUME TypeOK, Issued
  PROVE  /\ \A k \in Key : \A m \in request[k].servers :
              send_pc[k] # "idle" => GenuineDatagram(Question(k, m))
         /\ \A d \in Datagram : GenuineDatagram(d) =>
              /\ d.prefix = "i" => GenuineDatagram(Answer(d, "v"))
              /\ d.prefix = "_" => GenuineDatagram(Answer(d, "x"))
              /\ d.prefix = "v" => GenuineDatagram(Data(d, request[KeyOf(d)].bytes))
  <1>1. ASSUME NEW k \in Key, NEW m \in request[k].servers, send_pc[k] # "idle"
        PROVE  GenuineDatagram(Question(k, m))
    <2>1. KeyOf(Question(k, m)) = k
      BY DEF KeyOf, Question, Key
    <2>2. request[k] # None
      BY <1>1, WaitingRequest, NoneAssumption
    <2> QED
      BY <2>1, <2>2 DEF GenuineDatagram, Question
  <1>2. ASSUME NEW d \in Datagram, GenuineDatagram(d), d.prefix = "i"
        PROVE  GenuineDatagram(Answer(d, "v"))
    BY <1>2 DEF GenuineDatagram, Answer, KeyOf, Datagram
  <1>3. ASSUME NEW d \in Datagram, GenuineDatagram(d), d.prefix = "_"
        PROVE  GenuineDatagram(Answer(d, "x"))
    BY <1>3 DEF GenuineDatagram, Answer, KeyOf, Datagram
  <1>4. ASSUME NEW d \in Datagram, GenuineDatagram(d), d.prefix = "v"
        PROVE  GenuineDatagram(Data(d, request[KeyOf(d)].bytes))
    BY <1>4 DEF GenuineDatagram, Data, KeyOf, Datagram
  <1> QED
    BY <1>1, <1>2, <1>3, <1>4

\* Every step keeps the datagrams genuine, in the network, in the resend tasks
\* and in the half-done handlers, and the jobs the bytes of their requests.
LEMMA GenuineStep ==
  ASSUME TypeOK, Issued, Genuine, Held, [Next]_vars
  PROVE  Genuine' /\ Held'
  <1>1. ASSUME NEW d \in msgs' \cup resend'
        PROVE  GenuineDatagram(d)
    <2>1. CASE d \in msgs \cup resend
      BY <2>1 DEF Genuine
    <2>2. ASSUME NEW k \in Key, NEW m \in request[k].servers,
                 send_pc[k] = "discover", d = Question(k, m)
          PROVE  GenuineDatagram(d)
      BY <2>2, GenuineMade
    <2>3. ASSUME NEW e \in msgs,
                 (e.prefix = "i" /\ d = Answer(e, "v")) \/ (e.prefix = "_" /\ d = Answer(e, "x"))
          PROVE  GenuineDatagram(d)
      <3>1. e \in Datagram /\ GenuineDatagram(e)
        BY DEF Genuine, TypeOK
      <3> QED
        BY <2>3, <3>1, GenuineMade
    <2>4. ASSUME NEW e \in msgs, e.prefix = "v", jobs[KeyOf(e)] # None,
                 d = Data(e, jobs[KeyOf(e)])
          PROVE  GenuineDatagram(d)
      <3>1. e \in Datagram /\ GenuineDatagram(e) /\ KeyOf(e) \in Key
        BY KeyOfType DEF Genuine, TypeOK
      <3>2. jobs[KeyOf(e)] = request[KeyOf(e)].bytes
        BY <2>4, <3>1 DEF Held
      <3> QED
        BY <2>4, <3>1, <3>2, GenuineMade
    <2> QED
      BY <2>1, <2>2, <2>3, <2>4, NewDatagram
  <1>2. Genuine'
    <2>1. msgs' \cup resend' \subseteq Datagram
      BY TypeStep DEF TypeOK
    <2> QED
      BY <1>1, <2>1, GenuineKept DEF Genuine
  <1>3. ASSUME NEW n \in Node, acceptor'[n] # None
        PROVE  (/\ acceptor[n].dst = n /\ acceptor[n].prefix \in {"_", "x"}
                /\ acceptor[n].prefix = "_" => acceptor[n].reliable
                /\ GenuineDatagram(acceptor[n]))'
    <2>1. PICK a \in Datagram : a = acceptor'[n]
      BY <1>3, TypeStep DEF TypeOK
    <2>2. a = acceptor[n] \/ a \in msgs
      BY <1>3, <2>1, NewAcceptor
    <2>3. GenuineDatagram(a)
      BY <1>3, <2>1, <2>2 DEF Genuine, Held
    <2>4. GenuineDatagram(a)'
      BY <2>3, GenuineKept
    <2>5. GenuineDatagram(acceptor[n])'
      BY <2>1, <2>4 DEF GenuineDatagram, KeyOf
    <2> QED
      BY <1>3, <2>5, NewAcceptor, ZenonT(40) DEF Held
  <1>4. ASSUME NEW k \in Key, jobs'[k] # None
        PROVE  jobs'[k] = request'[k].bytes
    <2>1. CASE request[k] = None
      BY <1>4, <2>1, RequestStep DEF Issued
    <2>2. CASE request[k] # None
      BY <1>4, <2>2, RequestStep DEF Held
    <2> QED
      BY <2>1, <2>2
  <1> QED
    BY <1>2, <1>3, <1>4 DEF Held

-----------------------------------------------------------------------------
(* Who has the data *)

\* Running a handler only adds to what its process got, for one request.
LEMMA RunHandlerGot ==
  ASSUME TypeOK, NEW n \in Node, NEW d \in Datagram, RunHandler(n, d),
         NEW m \in Node, NEW k \in Key
  PROVE  /\ handled[<<m, k>>] > 0 => handled'[<<m, k>>] > 0
         /\ <<m, k>> \in lost => <<m, k>> \in lost'
         /\ handled'[<<m, k>>] > 0 \/ <<m, k>> \in lost' =>
              \/ handled[<<m, k>>] > 0 \/ <<m, k>> \in lost
              \/ m = n /\ k = KeyOf(d)
         /\ d.reliable /\ m = n /\ k = KeyOf(d) =>
              handled'[<<m, k>>] > 0 \/ <<m, k>> \in lost'
  <1>1. /\ <<m, k>> \in Node \X Key /\ <<n, KeyOf(d)>> \in Node \X Key
        /\ handled \in [Node \X Key -> 0 .. MaxHandled]
    BY KeyOfType DEF TypeOK
  <1>2. /\ handled[<<m, k>>] \in Nat
        /\ Saturated(handled[<<m, k>>]) > 0
    <2>1. handled[<<m, k>>] \in 0 .. MaxHandled
      BY <1>1
    <2> QED
      BY <2>1, ConstantsAssumption DEF Saturated
  <1>3. CASE d.topic \in consumers[n]
    <2>1. handled' = [handled EXCEPT ![<<n, KeyOf(d)>>] = Saturated(@)] /\ lost' = lost
      BY <1>3 DEF RunHandler
    <2> QED
      BY <1>1, <1>2, <2>1
  <1>4. CASE d.topic \notin consumers[n]
    <2>1. handled' = handled /\ lost' = lost \cup {p \in {<<n, KeyOf(d)>>} : d.reliable}
      BY <1>4 DEF RunHandler
    <2> QED
      BY <2>1
  <1> QED
    BY <1>3, <1>4

\* Data of request k is in flight to m, and m can read it.
Arriving(m, k) ==
  \E d \in msgs : d.prefix = "_" /\ KeyOf(d) = k /\ d.dst = m /\ Readable(d)

\* What a process got it keeps, and what it gets was sent to it and is whole.
LEMMA GotStep ==
  ASSUME TypeOK, Held, [Next]_vars, NEW m \in Node, NEW k \in Key
  PROVE  /\ Got(m, k) => Got(m, k)'
         /\ Got(m, k)' => Got(m, k) \/ (Addressed(m, k) /\ Arriving(m, k))
  <1> DEFINE Goal == /\ Got(m, k) => Got(m, k)'
                     /\ Got(m, k)' => Got(m, k) \/ (Addressed(m, k) /\ Arriving(m, k))
  <1>0. UNCHANGED <<handled, lost, acceptor>> => Goal
    BY DEF Got, Accepting, KeyOf
  <1> USE DEF historyVars
  <1>1. CASE UNCHANGED vars
    BY <1>0, <1>1 DEF vars
  <1>2. ASSUME NEW n \in Node, Setup(n) PROVE Goal
    <2>1. CASE Create(n) \/ Start(n) \/ Unbind(n) \/ (\E t \in Topic : On(n, t))
                 \/ (\E t \in Topic, q \in Node : AddServer(n, t, q))
                 \/ (\E t \in Topic, b \in Payload, r \in BOOLEAN : Send(n, t, b, r))
      BY <1>0, <2>1 DEF Create, Start, Unbind, On, AddServer, Send
    <2>2. CASE Stop(n)
      <3>1. /\ handled' = handled /\ lost' = lost
            /\ acceptor' = [acceptor EXCEPT ![n] = None]
            /\ acceptor[n] # None => acceptor[n].prefix = "x"
        BY <2>2 DEF Stop
      <3> QED
        BY <3>1 DEF Got, Accepting, KeyOf, TypeOK
    <2>3. ASSUME Vanish(n) PROVE Goal
      <3>1. /\ handled' = handled /\ acceptor' = [acceptor EXCEPT ![n] = None]
            /\ lost' = lost \cup {p \in {n} \X Key : Accepting(n, "_", p[2])}
        BY <2>3 DEF Vanish
      <3>2. <<m, k>> \in lost' <=> <<m, k>> \in lost \/ (m = n /\ Accepting(n, "_", k))
        BY <3>1
      <3>3. acceptor'[m] = IF m = n THEN None ELSE acceptor[m]
        BY <3>1 DEF TypeOK
      <3> QED
        BY <3>1, <3>2, <3>3 DEF Got, Accepting, KeyOf
    <2>4. CASE Crash(n) \/ (\E t \in Topic : SendBeforeStart(n, t))
      BY <2>3, <2>4 DEF Crash, SendBeforeStart
    <2> QED
      BY <1>2, <2>1, <2>2, <2>4 DEF Setup
  <1>3. ASSUME NEW n \in Node, Release(n) PROVE Goal
    <2>1. /\ handled' = handled /\ lost' = lost
          /\ acceptor' = [acceptor EXCEPT ![n] = None]
          /\ acceptor[n].prefix = "x"
      BY <1>3 DEF Release
    <2> QED
      BY <2>1 DEF Got, Accepting, KeyOf, TypeOK
  <1>4. ASSUME NEW n \in Node, Handle(n) PROVE Goal
    <2>1. PICK d \in Datagram : d = acceptor[n]
      BY <1>4 DEF Handle, TypeOK
    <2>2. d.prefix = "_" /\ d.reliable /\ RunHandler(n, d) /\ acceptor[n] # None
      BY <1>4, <2>1 DEF Handle, Held
    <2>3. acceptor'[m] = IF m = n THEN None ELSE acceptor[m]
      BY <1>4 DEF Handle, TypeOK
    <2>4. Accepting(n, "_", k) <=> k = KeyOf(d)
      BY <2>1, <2>2 DEF Accepting
    <2>5. Accepting(m, "_", k)' <=> m # n /\ Accepting(m, "_", k)
      BY <2>3 DEF Accepting, KeyOf
    <2> QED
      BY <2>2, <2>4, <2>5, RunHandlerGot DEF Got
  <1>5. ASSUME NEW q \in Key, Sender(q) PROVE Goal
    BY <1>0, <1>5 DEF Sender, DiscoverTick, Discovered, Finished
  <1>6. ASSUME NEW d \in resend, ResendTick(d) \/ ResendStop(d) PROVE Goal
    BY <1>0, <1>6 DEF ResendTick, ResendStop
  <1>7. ASSUME NEW d \in msgs, Lose(d) PROVE Goal
    BY <1>0, <1>7 DEF Lose
  <1>8. ASSUME NEW d \in msgs, ReceiveI(d.dst, d) \/ ReceiveV(d.dst, d) \/ ReceiveTruncated(d.dst, d)
        PROVE  Goal
    BY <1>0, <1>8 DEF ReceiveI, ReceiveV, ReceiveTruncated
  <1>9. ASSUME NEW d \in msgs, ReceiveX(d.dst, d) PROVE Goal
    <2>1. /\ handled' = handled /\ lost' = lost
          /\ acceptor' = acceptor
             \/ (acceptor[d.dst] = None /\ acceptor' = [acceptor EXCEPT ![d.dst] = d])
          /\ d.prefix = "x"
      BY <1>9 DEF ReceiveX, Accepts
    <2> QED
      BY <2>1 DEF Got, Accepting, KeyOf, TypeOK
  <1>10. ASSUME NEW d \in msgs, ReceiveUnreliable(d.dst, d) PROVE Goal
    <2>1. /\ d \in Datagram /\ d.dst \in Node /\ d.prefix = "_" /\ Readable(d)
          /\ acceptor' = acceptor /\ RunHandler(d.dst, d)
      BY <1>10 DEF ReceiveUnreliable, TypeOK, Datagram
    <2>2. Accepting(m, "_", k)' <=> Accepting(m, "_", k)
      BY <2>1 DEF Accepting, KeyOf
    <2>3. m = d.dst /\ k = KeyOf(d) => Addressed(m, k) /\ Arriving(m, k)
      BY <2>1 DEF Addressed, Arriving
    <2> QED
      BY <2>1, <2>2, <2>3, RunHandlerGot DEF Got
  <1>11. ASSUME NEW d \in msgs, ReceiveReliable(d.dst, d) PROVE Goal
    <2>1. /\ handled' = handled /\ lost' = lost /\ acceptor[d.dst] = None
          /\ acceptor' = [acceptor EXCEPT ![d.dst] = d] /\ d.prefix = "_"
          /\ Readable(d)
      BY <1>11 DEF ReceiveReliable, Accepts
    <2>2. Accepting(m, "_", k)' <=> Accepting(m, "_", k) \/ (m = d.dst /\ k = KeyOf(d))
      BY <2>1, NoneAssumption DEF Accepting, KeyOf, TypeOK
    <2>3. m = d.dst /\ k = KeyOf(d) => Addressed(m, k) /\ Arriving(m, k)
      BY <2>1 DEF Addressed, Arriving
    <2> QED
      BY <2>1, <2>2, <2>3 DEF Got
  <1>12. Goal
    BY <1>1, <1>2, <1>3, <1>4, <1>5, <1>6, <1>7, <1>8, <1>9, <1>10, <1>11 DEF Next, Receive
  <1> QED
    BY <1>12

-----------------------------------------------------------------------------
(* One receiver *)

\* Every step keeps the data of a request to its winner.
LEMMA SingleStep ==
  ASSUME TypeOK, Issued, Genuine, Held, SingleReceiver, Unclaimed, [Next]_vars
  PROVE  SingleReceiver' /\ Unclaimed'
  <1>1. ASSUME NEW k \in Key, k \in notify_discovery'
        PROVE  winner'[k] = None
    <2>1. winner[k] = None
      BY <1>1, RequestStep DEF Issued, Unclaimed
    <2> QED
      BY <1>1, <2>1, RequestStep
  <1>2. ASSUME NEW k \in Key, winner'[k] # None
        PROVE  winner'[k] \in request'[k].servers
    <2>1. CASE winner'[k] = winner[k]
      BY <1>2, <2>1, RequestStep DEF Issued, Unclaimed
    <2>2. CASE winner'[k] # winner[k]
      <3>1. PICK e \in msgs : e.prefix = "v" /\ KeyOf(e) = k /\ winner'[k] = e.src
        BY <2>2, RequestStep
      <3>2. request[k] # None /\ e.src \in request[k].servers
        BY <3>1 DEF Genuine, GenuineDatagram
      <3> QED
        BY <3>1, <3>2, RequestStep
    <2> QED
      BY <2>1, <2>2
  <1>3. ASSUME NEW k \in Key, winner[k] # None
        PROVE  winner'[k] = winner[k]
    BY <1>3, RequestStep DEF Unclaimed
  <1>4. ASSUME NEW k \in Key, NEW m \in Node, Got(m, k) \/ Addressed(m, k)
        PROVE  m = winner'[k]
    <2>1. m = winner[k] /\ m # None
      BY <1>4, NoneAssumption DEF SingleReceiver
    <2> QED
      BY <1>3, <2>1
  <1>5. ASSUME NEW k \in Key, NEW m \in Node, Got(m, k)'
        PROVE  m = winner'[k]
    BY <1>4, <1>5, GotStep
  <1>6. ASSUME NEW k \in Key, NEW m \in Node, NEW d \in msgs' \cup resend',
               d.prefix = "_", KeyOf(d) = k, d.dst = m
        PROVE  m = winner'[k]
    <2>1. CASE d \in msgs \cup resend
      BY <1>4, <1>6, <2>1 DEF Addressed
    <2>2. ASSUME NEW e \in msgs, e.prefix = "v", d = Data(e, jobs[KeyOf(e)]),
                 winner'[KeyOf(e)] = e.src
          PROVE  m = winner'[k]
      <3>1. KeyOf(d) = KeyOf(e) /\ d.dst = e.src
        BY <2>2, Made, KeyOfType DEF TypeOK
      <3> QED
        BY <1>6, <2>2, <3>1
    <2>3. \A e \in msgs, p \in {"v", "x"} : d # Answer(e, p)
      BY <1>6, Made DEF TypeOK
    <2>4. \A q \in Key : \A n \in request[q].servers : d # Question(q, n)
      BY <1>6, Made
    <2> QED
      BY <2>1, <2>2, <2>3, <2>4, NewDatagram
  <1>7. SingleReceiver'
    BY <1>5, <1>6 DEF SingleReceiver, Addressed, KeyOf
  <1> QED
    BY <1>1, <1>2, <1>7 DEF Unclaimed

-----------------------------------------------------------------------------
(* Acknowledgements *)

\* A permit for send() to finish comes from an "x"; send() returns with such a
\* permit, or without waiting for one when the message is unreliable.
LEMMA FinishStep ==
  ASSUME TypeOK, Issued, [Next]_vars, NEW k \in Key
  PROVE  /\ <<"finish", k>> \in permit' =>
              \/ <<"finish", k>> \in permit
              \/ \E d \in msgs : d.prefix = "x" /\ KeyOf(d) = k
         /\ send_pc'[k] = "done" =>
              \/ send_pc[k] = "done"
              \/ request[k] # None /\ <<"finish", k>> \in permit
              \/ request[k] # None /\ ~request[k].reliable
  <1> DEFINE Goal ==
        /\ <<"finish", k>> \in permit' =>
             \/ <<"finish", k>> \in permit
             \/ \E d \in msgs : d.prefix = "x" /\ KeyOf(d) = k
        /\ send_pc'[k] = "done" =>
             \/ send_pc[k] = "done"
             \/ request[k] # None /\ <<"finish", k>> \in permit
             \/ request[k] # None /\ ~request[k].reliable
  <1>0. UNCHANGED <<permit, send_pc>> => Goal
    OBVIOUS
  <1> USE DEF senderVars
  <1>1. CASE UNCHANGED vars
    BY <1>0, <1>1 DEF vars
  <1>2. ASSUME NEW n \in Node, Setup(n) PROVE Goal
    <2>1. CASE Create(n) \/ Start(n) \/ Stop(n) \/ Unbind(n) \/ (\E t \in Topic : On(n, t))
                 \/ (\E t \in Topic, q \in Node : AddServer(n, t, q))
      BY <1>0, <2>1 DEF Create, Start, Stop, Unbind, On, AddServer
    <2>2. ASSUME Vanish(n) PROVE Goal
      <3>1. permit' \subseteq permit /\ (send_pc'[k] = send_pc[k] \/ send_pc'[k] = "lost")
        BY <2>2 DEF Vanish
      <3> QED
        BY <3>1
    <2>3. CASE Crash(n) \/ (\E t \in Topic : SendBeforeStart(n, t))
      BY <2>2, <2>3 DEF Crash, SendBeforeStart
    <2>4. ASSUME NEW t \in Topic, NEW b \in Payload, NEW r \in BOOLEAN, Send(n, t, b, r)
          PROVE  Goal
      <3>1. permit' = permit /\ (send_pc'[k] = send_pc[k] \/ send_pc'[k] = "discover")
        BY <2>4 DEF Send, TypeOK
      <3> QED
        BY <3>1
    <2> QED
      BY <1>2, <2>1, <2>3, <2>4 DEF Setup
  <1>3. ASSUME NEW n \in Node, Release(n) \/ Handle(n) PROVE Goal
    BY <1>3 DEF Release, Handle, NotifyOne
  <1>4. ASSUME NEW q \in Key, Sender(q) PROVE Goal
    <2>1. CASE DiscoverTick(q)
      BY <1>0, <2>1 DEF DiscoverTick
    <2>2. CASE Discovered(q)
      <3>1. /\ permit' \subseteq permit /\ request[q] # None
            /\ send_pc' = [send_pc EXCEPT ![q] = AfterDiscovery(q)]
        BY <2>2 DEF Discovered, Issued
      <3> QED
        BY <3>1 DEF AfterDiscovery, TypeOK
    <2>3. CASE Finished(q)
      <3>1. /\ permit' \subseteq permit /\ <<"finish", q>> \in permit /\ request[q] # None
            /\ send_pc' = [send_pc EXCEPT ![q] = "done"]
        BY <2>3 DEF Finished, Issued
      <3> QED
        BY <3>1 DEF TypeOK
    <2> QED
      BY <1>4, <2>1, <2>2, <2>3 DEF Sender
  <1>5. ASSUME NEW d \in resend, ResendTick(d) \/ ResendStop(d) PROVE Goal
    BY <1>5 DEF ResendTick, ResendStop
  <1>6. ASSUME NEW d \in msgs, Lose(d) PROVE Goal
    BY <1>0, <1>6 DEF Lose
  <1>7. ASSUME NEW d \in msgs, ReceiveI(d.dst, d) \/ ReceiveUnreliable(d.dst, d)
                 \/ ReceiveReliable(d.dst, d) \/ ReceiveTruncated(d.dst, d)
        PROVE  Goal
    BY <1>0, <1>7 DEF ReceiveI, ReceiveUnreliable, ReceiveReliable, ReceiveTruncated
  <1>8. ASSUME NEW d \in msgs, ReceiveV(d.dst, d) PROVE Goal
    BY <1>8 DEF ReceiveV, Claim, NotifyOne
  <1>9. ASSUME NEW d \in msgs, ReceiveX(d.dst, d) PROVE Goal
    BY <1>9 DEF ReceiveX, NotifyOne, KeyOf
  <1>10. Goal
    BY <1>1, <1>2, <1>3, <1>4, <1>5, <1>6, <1>7, <1>8, <1>9 DEF Next, Receive
  <1> QED
    BY <1>10

\* Every step keeps acknowledgements to messages that were received.
LEMMA AckStep ==
  ASSUME Inductive, [Next]_vars
  PROVE  Acknowledged' /\ AckedWasReceived'
  <1> USE DEF Inductive
  <1>1. ASSUME NEW d \in msgs' \cup resend', d.prefix = "x"
        PROVE  Got(d.src, KeyOf(d))'
    <2>1. CASE d \in msgs \cup resend
      <3>1. d.src \in Node /\ KeyOf(d) \in Key
        BY <2>1, KeyOfType DEF TypeOK, Datagram
      <3>2. Got(d.src, KeyOf(d))
        BY <1>1, <2>1 DEF Acknowledged
      <3>3. \A m \in Node, k \in Key : Got(m, k) => Got(m, k)'
        BY GotStep
      <3> QED
        BY <3>1, <3>2, <3>3 DEF Got, Accepting, KeyOf
    <2>2. ASSUME NEW e \in msgs, e.prefix = "_", d = Answer(e, "x"), acceptor'[e.dst] = e
          PROVE  Got(d.src, KeyOf(d))'
      <3>1. d.src = e.dst /\ KeyOf(d) = KeyOf(e) /\ e # None
        BY <2>2, Made, NoneAssumption DEF TypeOK
      <3> QED
        BY <2>2, <3>1 DEF Got, Accepting, KeyOf
    <2>3. \A e \in msgs : d # Answer(e, "v")
      BY <1>1, Made DEF TypeOK
    <2>4. \A q \in Key : \A n \in request[q].servers : d # Question(q, n)
      BY <1>1, Made
    <2>5. \A e \in msgs, b \in Payload \cup {None} : d # Data(e, b)
      BY <1>1, Made DEF TypeOK
    <2>6. \A e \in msgs : jobs[KeyOf(e)] \in Payload \cup {None}
      BY KeyOfType DEF TypeOK
    <2> QED
      BY <2>1, <2>2, <2>3, <2>4, <2>5, <2>6, NewDatagram
  <1>2. ASSUME NEW n \in Node, acceptor'[n] # None, acceptor'[n].prefix = "x"
        PROVE  Got(acceptor[n].src, KeyOf(acceptor[n]))'
    <2>1. PICK d \in Datagram : d = acceptor'[n]
      BY <1>2, TypeStep DEF TypeOK
    <2>2. Got(d.src, KeyOf(d))
      <3>1. d = acceptor[n] \/ d \in msgs
        BY <1>2, <2>1, NewAcceptor
      <3> QED
        BY <1>2, <2>1, <3>1 DEF Acknowledged
    <2>3. \A m \in Node, k \in Key : Got(m, k) => Got(m, k)'
      BY GotStep
    <2>4. d.src \in Node /\ KeyOf(d) \in Key
      BY KeyOfType DEF Datagram
    <2> QED
      BY <2>1, <2>2, <2>3, <2>4 DEF Got, Accepting, KeyOf
  <1>3. ASSUME NEW k \in Key, <<"finish", k>> \in permit'
        PROVE  \E m \in Node : Got(m, k)'
    <2>1. \E m \in Node : Got(m, k)
      <3>1. \A d \in msgs : d.src \in Node
        BY DEF TypeOK, Datagram
      <3> QED
        BY <1>3, <3>1, FinishStep DEF Acknowledged
    <2> QED
      BY <2>1, GotStep
  <1>4. ASSUME NEW k \in Key, send_pc'[k] = "done", request'[k].reliable
        PROVE  \E m \in request'[k].servers : Got(m, k)'
    <2>1. /\ request[k] # None /\ request'[k] = request[k]
          /\ send_pc[k] = "done" \/ <<"finish", k>> \in permit
      BY <1>4, FinishStep, RequestStep DEF Issued
    <2>2. request[k].servers \subseteq Node
      BY <2>1 DEF TypeOK, Request
    <2>3. \E m \in request[k].servers : Got(m, k)
      <3>1. CASE send_pc[k] = "done"
        BY <1>4, <2>1, <3>1 DEF AckedWasReceived
      <3>2. CASE <<"finish", k>> \in permit
        <4>1. PICK m \in Node : Got(m, k)
          BY <3>2 DEF Acknowledged
        <4>2. m = winner[k] /\ m # None
          BY <4>1, NoneAssumption DEF SingleReceiver
        <4> QED
          BY <4>1, <4>2 DEF Unclaimed
      <3> QED
        BY <2>1, <3>1, <3>2
    <2> QED
      BY <2>1, <2>2, <2>3, GotStep
  <1> QED
    BY <1>1, <1>2, <1>3, <1>4 DEF Acknowledged, AckedWasReceived

-----------------------------------------------------------------------------
(* Theorems *)

\* The inductive invariant holds in every reachable state.
THEOREM Invariance == Spec => []Inductive
  <1>1. Init => Inductive
    <2> SUFFICES ASSUME Init PROVE Inductive
      OBVIOUS
    <2>1. TypeOK
      BY TypeInit
    <2>2. Issued /\ Genuine /\ Held /\ Unclaimed
      BY DEF Init, Issued, Genuine, Held, Unclaimed
    <2>3. \A m \in Node, k \in Key : ~Got(m, k) /\ ~Addressed(m, k)
      BY DEF Init, Got, Accepting, Addressed
    <2>4. SingleReceiver /\ Acknowledged /\ AckedWasReceived
      BY <2>3 DEF Init, SingleReceiver, Acknowledged, AckedWasReceived
    <2> QED
      BY <2>1, <2>2, <2>4 DEF Inductive
  <1>2. Inductive /\ [Next]_vars => Inductive'
    BY TypeStep, IssuedStep, GenuineStep, SingleStep, AckStep DEF Inductive
  <1> QED
    BY <1>1, <1>2, PTL DEF Spec

\* The data of a request goes to one server, whatever answers arrive and when.
THEOREM OneReceiver == Spec => []SingleReceiver
  BY Invariance, PTL DEF Inductive

\* A reliable send that returned has its message with a server it was sent to.
THEOREM Reliability == Spec => []AckedWasReceived
  BY Invariance, PTL DEF Inductive

\* Whatever travels under the id of a request is that request.
THEOREM Provenance == Spec => []Genuine
  BY Invariance, PTL DEF Inductive

\* What does not fit is never handled, and a reliable send of it never returns:
\* a process gets data only by reading it, and it is the bytes of the request.
THEOREM OversizeNeverReturns == Spec => []OversizeUnheard
  <1> DEFINE Whole == \A k \in Key, m \in Node :
                        Got(m, k) => request[k] # None /\ request[k].bytes \notin Oversize
  <1>1. Init => Whole
    BY DEF Init, Got, Accepting
  <1>2. Inductive /\ Whole /\ [Next]_vars => Whole'
    <2> SUFFICES ASSUME Inductive, Whole, [Next]_vars,
                        NEW k \in Key, NEW m \in Node, Got(m, k)'
                 PROVE  request'[k] # None /\ request'[k].bytes \notin Oversize
      BY DEF Got, Accepting, KeyOf
    <2>1. TypeOK /\ Issued /\ Genuine /\ Held
      BY DEF Inductive
    <2>2. CASE Got(m, k)
      <3>1. request[k] # None /\ request[k].bytes \notin Oversize
        BY <2>2
      <3>2. request'[k] = request[k]
        BY <2>1, <3>1, RequestStep
      <3> QED
        BY <3>1, <3>2
    <2>3. CASE Arriving(m, k)
      <3>1. PICK d \in msgs : d.prefix = "_" /\ KeyOf(d) = k /\ Readable(d)
        BY <2>3 DEF Arriving
      <3>2. request[k] # None /\ d.bytes = request[k].bytes
        BY <2>1, <3>1 DEF Genuine, GenuineDatagram
      <3>3. request'[k] = request[k]
        BY <2>1, <3>2, RequestStep
      <3> QED
        BY <3>1, <3>2, <3>3 DEF Readable
    <2> QED
      BY <2>1, <2>2, <2>3, GotStep
  <1>3. Inductive /\ Whole => OversizeUnheard
    <2> SUFFICES ASSUME Inductive, Whole, NEW k \in Key,
                        request[k] # None, request[k].bytes \in Oversize
                 PROVE  /\ \A m \in Node : ~Got(m, k)
                        /\ request[k].reliable => send_pc[k] # "done"
      BY DEF OversizeUnheard
    <2>1. \A m \in Node : ~Got(m, k)
      OBVIOUS
    <2>2. ASSUME request[k].reliable, send_pc[k] = "done" PROVE FALSE
      <3>1. PICK m \in request[k].servers : Got(m, k)
        BY <2>2 DEF Inductive, AckedWasReceived
      <3>2. m \in Node
        BY DEF Inductive, TypeOK, Request
      <3> QED
        BY <2>1, <3>1, <3>2
    <2> QED
      BY <2>1, <2>2
  <1> HIDE DEF Whole
  <1>4. Spec => []Whole
    BY <1>1, <1>2, Invariance, PTL DEF Spec
  <1> QED
    BY <1>3, <1>4, Invariance, PTL

\* The server that answered first remains the only one.
THEOREM FirstAnswerWins == Spec => WinnerIsFinal
  <1>1. Inductive /\ [Next]_vars =>
          [\A k \in Key : winner[k] # None => winner'[k] = winner[k]]_vars
    BY RequestStep DEF Inductive, Unclaimed
  <1> QED
    BY <1>1, Invariance, PTL DEF Spec, WinnerIsFinal
=============================================================================
