---------------------------- MODULE UmqtWakeups ----------------------------
(***************************************************************************)
(* Theorems about Umqt: the shared maps and the Notify permits of a send   *)
(* agree with where the send is, so that nobody waits for a wake-up that   *)
(* cannot come, and a sender's requests stay in their order.               *)
(***************************************************************************)
EXTENDS UmqtProofs

-----------------------------------------------------------------------------
(* What strengthens the invariants of Umqt to an inductive one *)

\* The maps follow the request: the job waits with notify_discovery, notify_finish
\* is emptied before notify_sent, by the handler of the "x" between the two.
Books(k) ==
  /\ k \in notify_discovery <=> jobs[k] # None
  /\ k \in notify_discovery => send_pc[k] = "discover"
  /\ k \in notify_discovery /\ request[k].reliable => k \in notify_finish
  /\ k \in notify_finish => Waiting(k) /\ k \in notify_sent
  /\ k \in notify_sent =>
       /\ request[k].reliable
       /\ k \in notify_finish \/ Accepting(k[1], "x", k) \/ k \in leaked
  /\ Accepting(k[1], "x", k) => k \in notify_sent /\ k \notin notify_finish

\* The kinds of permit, one for each map of Notify objects.
AllPermits == {"discovery", "sent", "finish"}

\* A permit is given by the one who has taken the entry out of its map.
Tokens(k) ==
  /\ \A w \in AllPermits : <<w, k>> \in permit => request[k] # None
  /\ <<"discovery", k>> \in permit => k \notin notify_discovery /\ winner[k] # None
  /\ <<"finish", k>> \in permit => k \notin notify_finish
  /\ <<"sent", k>> \in permit => k \notin notify_sent

\* Only the data of reliable messages is repeated.
Resending == \A d \in resend : d.prefix = "_" /\ d.reliable

Wakeups ==
  /\ \A k \in Key : Books(k) /\ Tokens(k)
  /\ Resending /\ NoLostWakeup /\ ResendWhileUnacked /\ ResendCanEnd

\* A send that waits is the last of its process, and every id given out was sent.
Blocking ==
  \A n \in Node, i \in Id :
    /\ Waiting(<<n, i>>) => i = clock[n]
    /\ i <= clock[n] <=> send_pc[<<n, i>>] # "idle"

\* The data of an unreliable message is consumed by the run of its handler.
Consumed ==
  /\ ~Duplicates =>
       \A d \in msgs : d.prefix = "_" /\ ~d.reliable =>
         \A m \in Node : handled[<<m, KeyOf(d)>>] = 0
  /\ UnreliableAtMostOnce

-----------------------------------------------------------------------------
(* What one step does to one request *)

\* What a step may leave alone: what is known of the request, ...
SameRecord(k) == request'[k] = request[k] /\ winner'[k] = winner[k]

\* ... its entries in the maps, ...
SameMaps(k) ==
  /\ jobs'[k] = jobs[k]
  /\ k \in notify_discovery' <=> k \in notify_discovery
  /\ k \in notify_sent' <=> k \in notify_sent
  /\ k \in notify_finish' <=> k \in notify_finish

\* ... its permits, ...
SamePermits(k, ws) ==
  \A w \in ws : <<w, k>> \in permit' <=> <<w, k>> \in permit

\* ... the task that repeats its data, ...
SameResend(k) == \A d \in Datagram : KeyOf(d) = k => (d \in resend' <=> d \in resend)

\* ... and the handler of its "x".
SameAcknowledger(k) ==
  /\ Accepting(k[1], "x", k)' <=> Accepting(k[1], "x", k)
  /\ k \in leaked' <=> k \in leaked

\* The step is about other requests.
Untouched(k) ==
  /\ send_pc'[k] = send_pc[k] /\ SameRecord(k) /\ SameMaps(k)
  /\ SamePermits(k, AllPermits) /\ SameResend(k) /\ SameAcknowledger(k)

\* send() makes the request.
Submitted(k) ==
  /\ request[k] = None /\ request'[k] # None
  /\ send_pc'[k] = "discover" /\ jobs'[k] # None
  /\ k \in notify_discovery'
  /\ k \in notify_sent' <=> request'[k].reliable
  /\ k \in notify_finish' <=> request'[k].reliable
  /\ winner'[k] = winner[k]
  /\ SamePermits(k, AllPermits) /\ SameResend(k) /\ SameAcknowledger(k)

\* send() takes the permit of its discovery.
Woken(k) ==
  /\ send_pc[k] = "discover" /\ <<"discovery", k>> \in permit
  /\ send_pc'[k] = AfterDiscovery(k) /\ <<"discovery", k>> \notin permit'
  /\ SamePermits(k, {"sent", "finish"})
  /\ SameRecord(k) /\ SameMaps(k) /\ SameResend(k) /\ SameAcknowledger(k)

\* send() takes the permit of its acknowledgement.
Returned(k) ==
  /\ send_pc[k] = "finish" /\ <<"finish", k>> \in permit
  /\ send_pc'[k] = "done" /\ <<"finish", k>> \notin permit'
  /\ SamePermits(k, {"discovery", "sent"})
  /\ SameRecord(k) /\ SameMaps(k) /\ SameResend(k) /\ SameAcknowledger(k)

\* The resend task takes its permit.
Ended(k) ==
  /\ <<"sent", k>> \in permit /\ <<"sent", k>> \notin permit'
  /\ \E d \in resend : KeyOf(d) = k /\ resend' = resend \ {d}
  /\ SamePermits(k, {"discovery", "finish"})
  /\ send_pc'[k] = send_pc[k]
  /\ SameRecord(k) /\ SameMaps(k) /\ SameAcknowledger(k)

\* The handler of the first "v".
Claimed(k) ==
  /\ k \in notify_discovery /\ k \notin notify_discovery'
  /\ jobs'[k] = None
  /\ k \in notify_sent' <=> k \in notify_sent
  /\ k \in notify_finish' <=> k \in notify_finish
  /\ <<"discovery", k>> \in permit' /\ SamePermits(k, {"sent", "finish"})
  /\ request'[k] = request[k] /\ winner'[k] # None
  /\ send_pc'[k] = send_pc[k] /\ SameAcknowledger(k)
  /\ \/ /\ request[k].reliable /\ k \in notify_sent
        /\ \E d \in Datagram : /\ KeyOf(d) = k /\ d.prefix = "_" /\ d.reliable
                              /\ resend' = resend \cup {d}
     \/ ~(request[k].reliable /\ k \in notify_sent) /\ SameResend(k)

\* The first half of the handler of the first "x".
Acked(k) ==
  /\ k \in notify_finish /\ k \notin notify_finish'
  /\ k \in notify_discovery' <=> k \in notify_discovery
  /\ k \in notify_sent' <=> k \in notify_sent
  /\ jobs'[k] = jobs[k]
  /\ <<"finish", k>> \in permit' /\ SamePermits(k, {"discovery", "sent"})
  /\ Accepting(k[1], "x", k)'
  /\ winner[k] # None
  /\ k \in leaked' <=> k \in leaked
  /\ send_pc'[k] = send_pc[k] /\ SameRecord(k) /\ SameResend(k)

\* The second half of it.
Released(k) ==
  /\ Accepting(k[1], "x", k) /\ ~Accepting(k[1], "x", k)'
  /\ k \notin notify_sent'
  /\ k \in notify_discovery' <=> k \in notify_discovery
  /\ k \in notify_finish' <=> k \in notify_finish
  /\ jobs'[k] = jobs[k]
  /\ k \in notify_sent => <<"sent", k>> \in permit'
  /\ SamePermits(k, {"discovery", "finish"})
  /\ request[k] # None
  /\ k \in leaked' <=> k \in leaked
  /\ send_pc'[k] = send_pc[k] /\ SameRecord(k) /\ SameResend(k)

\* A stop drops it between the two.
CutOff(k) ==
  /\ Accepting(k[1], "x", k) /\ ~Accepting(k[1], "x", k)' /\ k \in leaked'
  /\ send_pc'[k] = send_pc[k] /\ SameRecord(k) /\ SameMaps(k)
  /\ SamePermits(k, AllPermits) /\ SameResend(k)

\* The process of the request ends.
Vanished(k) ==
  /\ send_pc'[k] = IF Waiting(k) THEN "lost" ELSE send_pc[k]
  /\ jobs'[k] = None
  /\ k \notin notify_discovery' \cup notify_sent' \cup notify_finish'
  /\ \A w \in AllPermits : <<w, k>> \notin permit'
  /\ \A d \in resend' : KeyOf(d) # k
  /\ ~Accepting(k[1], "x", k)' /\ k \notin leaked'
  /\ SameRecord(k)

\* Any of these.
Effect(k) ==
  \/ Untouched(k) \/ Submitted(k) \/ Woken(k) \/ Returned(k) \/ Ended(k)
  \/ Claimed(k) \/ Acked(k) \/ Released(k) \/ CutOff(k) \/ Vanished(k)

\* What a step that leaves the sender's state alone has in common.
LEMMA EffectNone ==
  ASSUME UNCHANGED senderVars, UNCHANGED <<winner, leaked>>, NEW k \in Key,
         Accepting(k[1], "x", k)' <=> Accepting(k[1], "x", k)
  PROVE  Effect(k)
  BY DEF Effect, Untouched, SameRecord, SameMaps, SamePermits, SameResend,
         SameAcknowledger, senderVars

\* The request of a process is that process's.
LEMMA OwnAccepting ==
  ASSUME TypeOK, Held, NEW n \in Node, acceptor[n] # None, acceptor[n].prefix = "x"
  PROVE  /\ KeyOf(acceptor[n]) \in Key /\ KeyOf(acceptor[n])[1] = n
         /\ \A k \in Key : Accepting(n, "x", k) <=> k = KeyOf(acceptor[n])
  <1>1. acceptor[n] \in Datagram /\ acceptor[n].dst = n
    BY DEF TypeOK, Held
  <1>2. KeyOf(acceptor[n]) \in Key
    BY <1>1, KeyOfType
  <1> QED
    BY <1>1, <1>2 DEF KeyOf, Accepting

\* The end of a process takes all it holds about its requests, and no other's.
LEMMA EffectVanish ==
  ASSUME TypeOK, Held, Resending, NEW n \in Node, Vanish(n), NEW k \in Key
  PROVE  Effect(k)
  <1>1. k[1] \in Node
    BY DEF Key
  <1>2. /\ request' = request /\ winner' = winner
        /\ send_pc'[k] = IF k[1] = n /\ Waiting(k) THEN "lost" ELSE send_pc[k]
        /\ jobs'[k] = IF k[1] = n THEN None ELSE jobs[k]
    BY DEF Vanish
  <1>3. /\ k \in notify_discovery' <=> k \in notify_discovery /\ k[1] # n
        /\ k \in notify_sent' <=> k \in notify_sent /\ k[1] # n
        /\ k \in notify_finish' <=> k \in notify_finish /\ k[1] # n
        /\ k \in leaked' <=> k \in leaked /\ k[1] # n
    BY DEF Vanish
  <1>4. \A w \in AllPermits : <<w, k>> \in permit' <=> <<w, k>> \in permit /\ k[1] # n
    BY DEF Vanish
  <1>5. \A d \in resend : KeyOf(d) = k => d.src = k[1]
    <2>1. \A d \in resend : KeyOf(d) = <<d.src, d.id>>
      BY DEF Resending, KeyOf
    <2> QED
      BY <2>1
  <1>6. resend' = {d \in resend : d.src # n}
    BY DEF Vanish
  <1>7. acceptor'[k[1]] = IF k[1] = n THEN None ELSE acceptor[k[1]]
    BY <1>1 DEF Vanish, TypeOK
  <1>8. CASE k[1] = n
    <2>1. ~Accepting(k[1], "x", k)'
      BY <1>7, <1>8 DEF Accepting
    <2> QED
      BY <1>2, <1>3, <1>4, <1>5, <1>6, <1>8, <2>1 DEF Effect, Vanished, SameRecord
  <1>9. CASE k[1] # n
    <2>1. Accepting(k[1], "x", k)' <=> Accepting(k[1], "x", k)
      BY <1>7, <1>9 DEF Accepting, KeyOf
    <2>2. SameResend(k)
      BY <1>5, <1>6, <1>9 DEF SameResend
    <2> QED
      BY <1>2, <1>3, <1>4, <1>9, <2>1, <2>2
         DEF Effect, Untouched, SameRecord, SameMaps, SamePermits, SameAcknowledger, AllPermits
  <1> QED
    BY <1>8, <1>9

\* A stop that drops the handler of an "x" cuts its resend task off.
LEMMA EffectStop ==
  ASSUME TypeOK, Held, NEW n \in Node, Stop(n), NEW k \in Key
  PROVE  Effect(k)
  <1>1. k[1] \in Node
    BY DEF Key
  <1>2. acceptor'[k[1]] = IF k[1] = n THEN None ELSE acceptor[k[1]]
    BY <1>1 DEF Stop, TypeOK
  <1>3. k \in leaked' <=> k \in leaked \/ Accepting(n, "x", k)
    BY DEF Stop
  <1>4. Accepting(n, "x", k) => k[1] = n
    BY OwnAccepting DEF Accepting
  <1>5. UNCHANGED <<senderVars, winner>>
    BY DEF Stop
  <1> USE DEF SameRecord, SameMaps, SamePermits, SameResend, senderVars
  <1>6. CASE Accepting(n, "x", k)
    <2>1. ~Accepting(k[1], "x", k)'
      BY <1>2, <1>4, <1>6 DEF Accepting
    <2> QED
      BY <1>3, <1>4, <1>5, <1>6, <2>1 DEF Effect, CutOff
  <1>7. CASE ~Accepting(n, "x", k)
    <2>1. Accepting(k[1], "x", k)' <=> Accepting(k[1], "x", k)
      BY <1>2, <1>7 DEF Accepting, KeyOf
    <2> QED
      BY <1>3, <1>5, <1>7, <2>1 DEF Effect, Untouched, SameAcknowledger
  <1> QED
    BY <1>6, <1>7

\* A send is about its new request only.
LEMMA EffectSend ==
  ASSUME TypeOK, Issued, NEW n \in Node, NEW t \in Topic, NEW b \in Payload, NEW r \in BOOLEAN,
         Send(n, t, b, r), NEW k \in Key
  PROVE  Effect(k)
  <1> DEFINE new == <<n, clock[n] + 1>>
  <1>1. new \in Key /\ request[new] = None
    BY SendKeyFresh DEF Send
  <1>2. Accepting(k[1], "x", k)' <=> Accepting(k[1], "x", k)
    BY DEF Send, Accepting, KeyOf
  <1>3. UNCHANGED <<winner, leaked, permit, resend>>
    BY DEF Send, historyVars
  <1> USE DEF SameRecord, SameMaps, SamePermits, SameResend, SameAcknowledger
  <1>4. CASE k = new
    <2>1. [topic |-> t, bytes |-> b, reliable |-> r, servers |-> topic_servers[n][t]]
            \in Request
      BY DEF Request, TypeOK
    <2>2. request'[k] # None /\ request'[k].reliable = r
      BY <1>1, <1>4, <2>1, NoneAssumption DEF Send, TypeOK
    <2>3. jobs'[k] # None /\ send_pc'[k] = "discover" /\ k \in notify_discovery'
      BY <1>1, <1>4, NoneAssumption DEF Send, TypeOK
    <2>4. /\ k \in notify_sent' <=> r
          /\ k \in notify_finish' <=> r
      BY <1>1, <1>4 DEF Send, Issued
    <2> QED
      BY <1>1, <1>2, <1>3, <1>4, <2>2, <2>3, <2>4 DEF Effect, Submitted
  <1>5. CASE k # new
    <2>1. /\ request'[k] = request[k] /\ send_pc'[k] = send_pc[k] /\ jobs'[k] = jobs[k]
          /\ k \in notify_discovery' <=> k \in notify_discovery
          /\ k \in notify_sent' <=> k \in notify_sent
          /\ k \in notify_finish' <=> k \in notify_finish
      BY <1>1, <1>5 DEF Send, TypeOK
    <2> QED
      BY <1>2, <1>3, <2>1 DEF Effect, Untouched
  <1> QED
    BY <1>4, <1>5

\* The steps of send() and of the resend task.
LEMMA EffectSender ==
  ASSUME TypeOK, Issued, NEW q \in Key, Sender(q), NEW k \in Key
  PROVE  Effect(k)
  <1>1. Sender(q) => /\ UNCHANGED <<winner, leaked, request, jobs, notify_discovery,
                                    notify_sent, notify_finish, resend>>
                     /\ Accepting(k[1], "x", k)' <=> Accepting(k[1], "x", k)
    BY DEF Sender, DiscoverTick, Discovered, Finished, senderVars, historyVars, Accepting, KeyOf
  <1> USE DEF SameRecord, SameMaps, SamePermits, SameResend, SameAcknowledger, AllPermits
  <1>2. CASE DiscoverTick(q)
    BY <1>1, <1>2, EffectNone DEF DiscoverTick
  <1>3. CASE Discovered(q)
    <2>1. /\ send_pc[q] = "discover" /\ <<"discovery", q>> \in permit
          /\ permit' = permit \ {<<"discovery", q>>}
          /\ send_pc' = [send_pc EXCEPT ![q] = AfterDiscovery(q)]
      BY <1>3 DEF Discovered
    <2>2. CASE k = q
      <3>1. send_pc'[k] = AfterDiscovery(k)
        BY <2>1, <2>2 DEF TypeOK
      <3> QED
        BY <1>1, <2>1, <2>2, <3>1 DEF Effect, Woken
    <2>3. CASE k # q
      <3>1. send_pc'[k] = send_pc[k]
        BY <2>1, <2>3 DEF TypeOK
      <3> QED
        BY <1>1, <2>1, <2>3, <3>1 DEF Effect, Untouched
    <2> QED
      BY <2>2, <2>3
  <1>4. CASE Finished(q)
    <2>1. /\ send_pc[q] = "finish" /\ <<"finish", q>> \in permit
          /\ permit' = permit \ {<<"finish", q>>}
          /\ send_pc' = [send_pc EXCEPT ![q] = "done"]
      BY <1>4 DEF Finished
    <2>2. CASE k = q
      <3>1. send_pc'[k] = "done"
        BY <2>1, <2>2 DEF TypeOK
      <3> QED
        BY <1>1, <2>1, <2>2, <3>1 DEF Effect, Returned
    <2>3. CASE k # q
      <3>1. send_pc'[k] = send_pc[k]
        BY <2>1, <2>3 DEF TypeOK
      <3> QED
        BY <1>1, <2>1, <2>3, <3>1 DEF Effect, Untouched
    <2> QED
      BY <2>2, <2>3
  <1> QED
    BY <1>2, <1>3, <1>4 DEF Sender

\* The steps of the resend task.
LEMMA EffectResend ==
  ASSUME TypeOK, NEW d \in resend, ResendTick(d) \/ ResendStop(d), NEW k \in Key
  PROVE  Effect(k)
  <1>1. /\ UNCHANGED <<winner, leaked, request, jobs, notify_discovery,
                       notify_sent, notify_finish, send_pc>>
        /\ Accepting(k[1], "x", k)' <=> Accepting(k[1], "x", k)
    BY DEF ResendTick, ResendStop, senderVars, historyVars, Accepting, KeyOf
  <1>2. CASE ResendTick(d)
    BY <1>1, <1>2, EffectNone DEF ResendTick
  <1>3. CASE ResendStop(d)
    <2>1. /\ <<"sent", KeyOf(d)>> \in permit /\ permit' = permit \ {<<"sent", KeyOf(d)>>}
          /\ resend' = resend \ {d}
      BY <1>3 DEF ResendStop
    <2> USE DEF SameRecord, SameMaps, SamePermits, SameResend, SameAcknowledger, AllPermits
    <2>2. CASE k = KeyOf(d)
      BY <1>1, <2>1, <2>2 DEF Effect, Ended
    <2>3. CASE k # KeyOf(d)
      BY <1>1, <2>1, <2>3 DEF Effect, Untouched
    <2> QED
      BY <2>2, <2>3
  <1> QED
    BY <1>2, <1>3

\* The first answer claims the request it is about.
LEMMA EffectReceiveV ==
  ASSUME TypeOK, Genuine, Wakeups, NEW d \in msgs, ReceiveV(d.dst, d), NEW k \in Key
  PROVE  Effect(k)
  <1> DEFINE q == KeyOf(d)
  <1>1. d \in Datagram /\ d.prefix = "v" /\ q = <<d.dst, d.id>> /\ q \in Key
    BY KeyOfType DEF ReceiveV, KeyOf, TypeOK
  <1>2. /\ UNCHANGED <<request, send_pc, notify_sent, notify_finish, leaked>>
        /\ Accepting(k[1], "x", k)' <=> Accepting(k[1], "x", k)
    BY DEF ReceiveV, Accepting, KeyOf
  <1>3. CASE q \notin notify_discovery
    <2>1. UNCHANGED <<clock, notify_discovery, permit, jobs, resend, winner>>
      BY <1>1, <1>3 DEF ReceiveV
    <2> QED
      BY <1>2, <2>1, EffectNone DEF senderVars
  <1>4. CASE q \in notify_discovery
    <2> DEFINE data == {Data(d, jobs[q])} \ {Data(d, None)}
    <2>1. /\ notify_discovery' = notify_discovery \ {q}
          /\ jobs' = [jobs EXCEPT ![q] = None]
          /\ permit' = permit \cup {<<"discovery", q>>}
          /\ winner' = [winner EXCEPT ![q] = d.src]
          /\ resend' = IF d.reliable /\ q \in notify_sent THEN resend \cup data ELSE resend
      BY <1>1, <1>4 DEF ReceiveV, Claim, NotifyOne
    <2>2. d.reliable = request[q].reliable
      BY DEF Genuine, GenuineDatagram
    <2>3. jobs[q] \in Payload /\ jobs[q] # None
      BY <1>1, <1>4 DEF Wakeups, Books, TypeOK
    <2>4. /\ Data(d, jobs[q]) \in Datagram /\ KeyOf(Data(d, jobs[q])) = q
          /\ Data(d, jobs[q]).prefix = "_" /\ Data(d, jobs[q]).reliable = d.reliable
      <3>1. Data(d, jobs[q]).reliable = d.reliable
        BY <1>1 DEF Data, Datagram
      <3>2. Data(d, jobs[q]) \in Datagram
        BY <1>1, <2>3, AnswerType
      <3>3. KeyOf(Data(d, jobs[q])) = q /\ Data(d, jobs[q]).prefix = "_"
        BY <1>1, <2>3, Made
      <3> QED
        BY <3>1, <3>2, <3>3
    <2>5. data = {Data(d, jobs[q])}
      <3>1. Data(d, jobs[q]).bytes = jobs[q] /\ Data(d, None).bytes = None
        BY <1>1 DEF Data, Datagram
      <3> QED
        BY <2>3, <3>1
    <2> USE DEF SamePermits, SameResend, SameAcknowledger, AllPermits
    <2>6. CASE k = q
      <3>1. jobs'[k] = None /\ winner'[k] # None
        BY <1>1, <2>1, <2>6, NoneAssumption, ZenonT(40) DEF TypeOK, Datagram
      <3>2. CASE request[k].reliable /\ k \in notify_sent
        BY <1>2, <1>4, <2>1, <2>2, <2>4, <2>5, <2>6, <3>1, <3>2 DEF Effect, Claimed
      <3>3. CASE ~(request[k].reliable /\ k \in notify_sent)
        BY <1>2, <1>4, <2>1, <2>2, <2>6, <3>1, <3>3 DEF Effect, Claimed
      <3> QED
        BY <3>2, <3>3
    <2>7. CASE k # q
      <3>1. jobs'[k] = jobs[k] /\ winner'[k] = winner[k]
        BY <2>1, <2>7 DEF TypeOK
      <3>2. \A e \in Datagram : KeyOf(e) = k => (e \in resend' <=> e \in resend)
        BY <2>1, <2>4, <2>5, <2>7
      <3> QED
        BY <1>2, <2>1, <2>7, <3>1, <3>2 DEF Effect, Untouched, SameRecord, SameMaps
    <2> QED
      BY <2>6, <2>7
  <1> QED
    BY <1>3, <1>4

\* The first acknowledgement wakes the request it is about.
LEMMA EffectReceiveX ==
  ASSUME TypeOK, SingleReceiver, Acknowledged, NEW d \in msgs, ReceiveX(d.dst, d), NEW k \in Key
  PROVE  Effect(k)
  <1> DEFINE q == KeyOf(d)
  <1>1. /\ d \in Datagram /\ d.prefix = "x" /\ q = <<d.dst, d.id>> /\ q \in Key
        /\ d.dst \in Node /\ d.src \in Node /\ acceptor[d.dst] = None
    BY KeyOfType DEF ReceiveX, Accepts, KeyOf, TypeOK, Datagram
  <1>2. /\ UNCHANGED <<clock, request, send_pc, jobs, notify_discovery, notify_sent, resend,
                       leaked, winner>>
    BY DEF ReceiveX, historyVars
  <1>3. CASE q \notin notify_finish
    <2>1. UNCHANGED <<notify_finish, permit, acceptor>>
      BY <1>1, <1>3 DEF ReceiveX
    <2> QED
      BY <1>2, <2>1, EffectNone DEF senderVars, Accepting, KeyOf
  <1>4. CASE q \in notify_finish
    <2>1. /\ notify_finish' = notify_finish \ {q}
          /\ permit' = permit \cup {<<"finish", q>>}
          /\ acceptor' = [acceptor EXCEPT ![d.dst] = d]
      BY <1>1, <1>4 DEF ReceiveX, NotifyOne
    <2>2. k[1] \in Node
      BY DEF Key
    <2> USE DEF SameRecord, SamePermits, SameResend, SameAcknowledger, AllPermits
    <2>3. CASE k = q
      <3>1. acceptor'[k[1]] = d /\ d # None
        BY <1>1, <2>1, <2>3, NoneAssumption DEF TypeOK
      <3>2. Accepting(k[1], "x", k)'
        BY <1>1, <2>3, <3>1 DEF Accepting, KeyOf
      <3>3. winner[k] # None
        BY <1>1, <2>3, NoneAssumption DEF Acknowledged, SingleReceiver
      <3> QED
        BY <1>2, <1>4, <2>1, <2>3, <3>2, <3>3 DEF Effect, Acked
    <2>4. CASE k # q
      <3>1. CASE k[1] = d.dst
        <4>1. acceptor'[k[1]] = d
          BY <1>1, <2>1, <3>1 DEF TypeOK
        <4>2. ~Accepting(k[1], "x", k)'
          BY <2>4, <4>1 DEF Accepting, KeyOf
        <4>3. ~Accepting(k[1], "x", k)
          BY <1>1, <3>1 DEF Accepting
        <4> QED
          BY <1>2, <2>1, <2>4, <4>2, <4>3 DEF Effect, Untouched, SameMaps
      <3>2. CASE k[1] # d.dst
        <4>1. acceptor'[k[1]] = acceptor[k[1]]
          BY <2>1, <2>2, <3>2 DEF TypeOK
        <4>2. Accepting(k[1], "x", k)' <=> Accepting(k[1], "x", k)
          BY <4>1 DEF Accepting, KeyOf
        <4> QED
          BY <1>2, <2>1, <2>4, <4>2 DEF Effect, Untouched, SameMaps
      <3> QED
        BY <3>1, <3>2
    <2> QED
      BY <2>3, <2>4
  <1> QED
    BY <1>3, <1>4

\* The other handlers of the acceptor do nothing to a sender's state.
LEMMA EffectReceive ==
  ASSUME TypeOK, Genuine, SingleReceiver, Acknowledged, Wakeups,
         NEW d \in msgs, Receive(d.dst, d), NEW k \in Key
  PROVE  Effect(k)
  <1>1. k[1] \in Node /\ d.dst \in Node
    BY DEF Key, TypeOK, Datagram
  <1>2. CASE ReceiveI(d.dst, d) \/ ReceiveUnreliable(d.dst, d) \/ ReceiveTruncated(d.dst, d)
    <2>1. UNCHANGED <<senderVars, acceptor, winner, leaked>>
      BY <1>2 DEF ReceiveI, ReceiveUnreliable, ReceiveTruncated, historyVars
    <2> QED
      BY <2>1, EffectNone DEF Accepting, KeyOf
  <1>3. CASE ReceiveReliable(d.dst, d)
    <2>1. /\ UNCHANGED <<senderVars, winner, leaked>> /\ d.prefix = "_"
          /\ acceptor[d.dst] = None /\ acceptor' = [acceptor EXCEPT ![d.dst] = d]
      BY <1>3 DEF ReceiveReliable, Accepts, historyVars
    <2>2. acceptor'[k[1]] = IF k[1] = d.dst THEN d ELSE acceptor[k[1]]
      BY <1>1, <2>1 DEF TypeOK
    <2>3. Accepting(k[1], "x", k)' <=> Accepting(k[1], "x", k)
      BY <2>1, <2>2 DEF Accepting, KeyOf
    <2> QED
      BY <2>1, <2>3, EffectNone
  <1> QED
    BY <1>2, <1>3, EffectReceiveV, EffectReceiveX DEF Receive

\* The second halves of the handlers.
LEMMA EffectHalf ==
  ASSUME TypeOK, Held, Genuine, NEW n \in Node, Release(n) \/ Handle(n), NEW k \in Key
  PROVE  Effect(k)
  <1>1. k[1] \in Node
    BY DEF Key
  <1>2. acceptor'[k[1]] = IF k[1] = n THEN None ELSE acceptor[k[1]]
    BY <1>1 DEF Release, Handle, TypeOK
  <1>3. CASE Handle(n)
    <2>1. UNCHANGED <<senderVars, winner, leaked>> /\ acceptor[n].prefix = "_"
      BY <1>3 DEF Handle
    <2>2. Accepting(k[1], "x", k)' <=> Accepting(k[1], "x", k)
      BY <1>2, <2>1 DEF Accepting, KeyOf
    <2> QED
      BY <2>1, <2>2, EffectNone
  <1>4. CASE Release(n)
    <2> DEFINE q == KeyOf(acceptor[n])
    <2>1. /\ acceptor[n] # None /\ acceptor[n].prefix = "x"
          /\ notify_sent' = notify_sent \ {q}
          /\ permit' = IF q \in notify_sent THEN permit \cup {<<"sent", q>>} ELSE permit
          /\ UNCHANGED <<request, send_pc, jobs, notify_discovery, notify_finish, resend,
                         winner, leaked>>
      BY <1>4 DEF Release, NotifyOne, historyVars
    <2>2. /\ q \in Key /\ q[1] = n
          /\ \A p \in Key : Accepting(n, "x", p) <=> p = q
      BY <2>1, OwnAccepting
    <2>3. request[q] # None
      BY <2>1 DEF Held, GenuineDatagram
    <2> USE DEF SameRecord, SamePermits, SameResend, SameAcknowledger, AllPermits
    <2>4. CASE k = q
      <3>1. Accepting(k[1], "x", k) /\ ~Accepting(k[1], "x", k)'
        BY <1>2, <2>2, <2>4 DEF Accepting
      <3> QED
        BY <2>1, <2>3, <2>4, <3>1 DEF Effect, Released
    <2>5. CASE k # q
      <3>1. Accepting(k[1], "x", k)' <=> Accepting(k[1], "x", k)
        BY <1>2, <2>2, <2>5 DEF Accepting, KeyOf
      <3> QED
        BY <2>1, <2>5, <3>1 DEF Effect, Untouched, SameMaps
    <2> QED
      BY <2>4, <2>5
  <1> QED
    BY <1>3, <1>4

\* Whatever the step, it does to a request one of the things above.
LEMMA EffectStep ==
  ASSUME Inductive, Wakeups, [Next]_vars, NEW k \in Key
  PROVE  Effect(k)
  <1> USE DEF Inductive, Wakeups
  <1>1. CASE UNCHANGED vars
    BY <1>1, EffectNone DEF vars, senderVars, historyVars, Accepting, KeyOf
  <1>2. ASSUME NEW n \in Node, Setup(n) PROVE Effect(k)
    <2>1. CASE Create(n) \/ Start(n) \/ Unbind(n) \/ (\E t \in Topic : On(n, t))
                 \/ (\E t \in Topic, m \in Node : AddServer(n, t, m))
      <3>1. UNCHANGED <<senderVars, acceptor, winner, leaked>>
        BY <2>1 DEF Create, Start, Unbind, On, AddServer, historyVars
      <3> QED
        BY <3>1, EffectNone DEF Accepting, KeyOf
    <2>2. CASE Crash(n) \/ \E t \in Topic : SendBeforeStart(n, t)
      BY <2>2, EffectVanish DEF Crash, SendBeforeStart
    <2> QED
      BY <1>2, <2>1, <2>2, EffectStop, EffectSend DEF Setup
  <1>3. ASSUME NEW n \in Node, Release(n) \/ Handle(n) PROVE Effect(k)
    BY <1>3, EffectHalf
  <1>4. ASSUME NEW q \in Key, Sender(q) PROVE Effect(k)
    BY <1>4, EffectSender
  <1>5. ASSUME NEW d \in resend, ResendTick(d) \/ ResendStop(d) PROVE Effect(k)
    BY <1>5, EffectResend
  <1>6. ASSUME NEW d \in msgs, Lose(d) PROVE Effect(k)
    BY <1>6, EffectNone DEF Lose, senderVars, historyVars, Accepting, KeyOf
  <1>7. ASSUME NEW d \in msgs, Receive(d.dst, d) PROVE Effect(k)
    BY <1>7, EffectReceive
  <1> QED
    BY <1>1, <1>2, <1>3, <1>4, <1>5, <1>6, <1>7 DEF Next

-----------------------------------------------------------------------------
(* Nobody waits for a wake-up that cannot come *)

\* The part of NoLostWakeup about one request.
Awaited(k) ==
  /\ send_pc[k] = "discover" =>
       k \in notify_discovery \/ <<"discovery", k>> \in permit
  /\ Waiting(k) /\ request[k].reliable =>
       k \in notify_finish \/ <<"finish", k>> \in permit

\* A request that was not made has nothing to be cleared.
LEMMA Unmade ==
  ASSUME Inductive, Wakeups, NEW k \in Key, request[k] = None
  PROVE  /\ send_pc[k] = "idle" /\ jobs[k] = None /\ winner[k] = None
         /\ k \notin notify_discovery \cup notify_sent \cup notify_finish
         /\ \A w \in AllPermits : <<w, k>> \notin permit
         /\ ~Accepting(k[1], "x", k)
  BY DEF Inductive, Issued, Wakeups, Books, Tokens

\* A request without a server to give its data to has no data on its way.
LEMMA ResendHasWinner ==
  ASSUME Inductive, Wakeups, NEW d \in resend
  PROVE  KeyOf(d) \in Key /\ KeyOf(d) \notin notify_discovery /\ winner[KeyOf(d)] # None
  <1>1. d.prefix = "_" /\ d \in Datagram /\ d.dst \in Node /\ KeyOf(d) \in Key
    BY KeyOfType DEF Wakeups, Resending, Inductive, TypeOK, Datagram
  <1>2. Addressed(d.dst, KeyOf(d))
    BY <1>1 DEF Addressed
  <1> QED
    BY <1>1, <1>2, NoneAssumption DEF Inductive, SingleReceiver, Unclaimed

\* A datagram is its fields.
LEMMA SameFields ==
  ASSUME NEW x \in Datagram, NEW y \in Datagram,
         x.prefix = y.prefix, x.src = y.src, x.dst = y.dst, x.id = y.id,
         x.reliable = y.reliable, x.topic = y.topic, x.bytes = y.bytes
  PROVE  x = y
  <1> DEFINE prefixes == {"i", "v", "_", "x"}
  <1>1. Datagram = [prefix : prefixes, src : Node, dst : Node, id : Id,
                    reliable : BOOLEAN, topic : Topic, bytes : Payload \cup {None}]
    BY DEF Datagram
  <1> HIDE DEF prefixes
  <1> QED
    BY <1>1

\* The data of a request is one datagram: one task at most repeats it.
LEMMA OneData ==
  ASSUME Inductive, NEW d \in msgs \cup resend, NEW e \in msgs \cup resend,
         d.prefix = "_", e.prefix = "_", KeyOf(d) = KeyOf(e)
  PROVE  d = e
  <1>1. /\ d \in Datagram /\ e \in Datagram
        /\ d.dst \in Node /\ e.dst \in Node /\ KeyOf(d) \in Key
    BY KeyOfType DEF Inductive, TypeOK, Datagram
  <1>2. KeyOf(d) = <<d.src, d.id>> /\ KeyOf(e) = <<e.src, e.id>>
    BY DEF KeyOf
  <1>3. d.dst = e.dst
    BY <1>1 DEF Addressed, Inductive, SingleReceiver
  <1>4. d.topic = e.topic /\ d.reliable = e.reliable /\ d.bytes = e.bytes
    BY <1>1 DEF Inductive, Genuine, GenuineDatagram
  <1>5. <<d.src, d.id>> = <<e.src, e.id>>
    BY <1>2
  <1>6. d.src = e.src /\ d.id = e.id
    BY <1>5
  <1> QED
    BY <1>1, <1>3, <1>4, <1>6, SameFields

\* What one step does to one request keeps its books, its permits and its wake-ups.
LEMMA BooksStep ==
  ASSUME Inductive, Wakeups, NEW k \in Key, Effect(k)
  PROVE  Books(k)' /\ Tokens(k)' /\ Awaited(k)'
  <1>1. Books(k) /\ Tokens(k) /\ Awaited(k)
    BY DEF Wakeups, NoLostWakeup, Awaited
  <1>2. k \in notify_discovery => winner[k] = None /\ request[k] # None
    BY DEF Inductive, Unclaimed, Issued
  <1>a. send_pc[k] # "idle" => request[k] # None
    BY DEF Inductive, Issued
  <1>b. Accepting(k[1], "x", k) => winner[k] # None
    <2> SUFFICES ASSUME Accepting(k[1], "x", k) PROVE winner[k] # None
      OBVIOUS
    <2>1. k[1] \in Node
      BY DEF Key
    <2>2. acceptor[k[1]] # None /\ acceptor[k[1]].prefix = "x" /\ KeyOf(acceptor[k[1]]) = k
          /\ acceptor[k[1]].src \in Node
      BY <2>1 DEF Accepting, Inductive, TypeOK, Datagram
    <2> QED
      BY <2>1, <2>2, NoneAssumption DEF Inductive, Acknowledged, SingleReceiver
  <1> USE DEF SameRecord, SameMaps, SamePermits, SameAcknowledger, AllPermits, Waiting
  <1>3. CASE Untouched(k)
    BY <1>1, <1>3 DEF Untouched, Books, Tokens, Awaited
  <1>4. CASE Submitted(k)
    BY <1>4, Unmade DEF Submitted, Books, Tokens, Awaited
  <1>5. CASE Woken(k)
    <2>1. request[k] # None
      BY <1>5, <1>a DEF Woken
    <2>2. Books(k)'
      BY <1>1, <1>5, <2>1 DEF Woken, AfterDiscovery, Books, Tokens
    <2>3. Tokens(k)'
      BY <1>1, <1>5 DEF Woken, Tokens
    <2> QED
      BY <1>1, <1>5, <2>2, <2>3 DEF Woken, AfterDiscovery, Awaited
  <1>6. CASE Returned(k)
    BY <1>1, <1>6 DEF Returned, Books, Tokens, Awaited
  <1>7. CASE Ended(k)
    BY <1>1, <1>7 DEF Ended, Books, Tokens, Awaited
  <1>8. CASE Claimed(k)
    BY <1>1, <1>2, <1>8 DEF Claimed, Books, Tokens, Awaited
  <1>9. CASE Acked(k)
    BY <1>1, <1>2, <1>a, <1>9 DEF Acked, Books, Tokens, Awaited
  <1>10. CASE Released(k)
    BY <1>1, <1>2, <1>b, <1>10 DEF Released, Books, Tokens, Awaited
  <1>11. CASE CutOff(k)
    BY <1>1, <1>2, <1>b, <1>11 DEF CutOff, Books, Tokens, Awaited
  <1>12. CASE Vanished(k)
    BY <1>1, <1>12 DEF Vanished, Books, Tokens, Awaited
  <1> QED
    BY <1>3, <1>4, <1>5, <1>6, <1>7, <1>8, <1>9, <1>10, <1>11, <1>12 DEF Effect

\* Every step keeps the resend tasks: one for each discovered request that waits for
\* its acknowledgement, and a way to end each.
LEMMA ResendStep ==
  ASSUME Inductive, Wakeups, TypeOK', \A k \in Key : Effect(k)
  PROVE  Resending' /\ ResendWhileUnacked' /\ ResendCanEnd'
  <1>1. \A k \in Key : Books(k) /\ Tokens(k) /\ Awaited(k)
    BY DEF Wakeups, NoLostWakeup, Awaited
  <1>2. ASSUME NEW d \in resend'
        PROVE  /\ d \in Datagram /\ KeyOf(d) \in Key
               /\ d \in resend \/ Claimed(KeyOf(d))
               /\ d.prefix = "_" /\ d.reliable
    <2>1. d \in Datagram /\ KeyOf(d) \in Key
      BY KeyOfType DEF TypeOK
    <2>2. Effect(KeyOf(d))
      BY <2>1
    <2>3. CASE Claimed(KeyOf(d))
      BY <2>1, <2>3 DEF Claimed, SameResend, Wakeups, Resending
    <2>4. CASE ~Claimed(KeyOf(d))
      <3>1. d \in resend
        BY <2>1, <2>2, <2>4
           DEF Effect, Untouched, Submitted, Woken, Returned, Ended, Acked, Released, CutOff,
               Vanished, SameResend
      <3> QED
        BY <2>1, <3>1 DEF Wakeups, Resending
    <2> QED
      BY <2>3, <2>4
  <1>3. Resending'
    BY <1>2 DEF Resending
  <1> USE DEF SameRecord, SameMaps, SamePermits, SameAcknowledger, AllPermits
  <1>4. ASSUME NEW d \in resend'
        PROVE  \/ KeyOf(d) \in notify_finish' \/ Accepting(KeyOf(d)[1], "x", KeyOf(d))'
               \/ <<"sent", KeyOf(d)>> \in permit' \/ KeyOf(d) \in leaked'
    <2> DEFINE k == KeyOf(d)
    <2>0. d \in Datagram /\ k \in Key
      BY <1>2
    <2>1. CASE Claimed(k)
      <3>1. d \notin resend
        BY <2>1, ResendHasWinner DEF Claimed
      <3>2. request[k].reliable
        BY <2>0, <2>1, <3>1 DEF Claimed, SameResend
      <3> QED
        BY <1>1, <2>0, <2>1, <3>2 DEF Claimed, Books
    <2>2. CASE d \in resend /\ ~Claimed(k)
      <3>1. \/ k \in notify_finish \/ Accepting(k[1], "x", k)
            \/ <<"sent", k>> \in permit \/ k \in leaked
        BY <2>2 DEF Wakeups, ResendCanEnd
      <3>2. Effect(k) /\ Books(k)
        BY <1>1, <2>0
      <3>3. ~Submitted(k)
        BY <2>0, <2>2, ResendHasWinner, Unmade DEF Submitted
      <3>4. ~Ended(k)
        BY <2>0, <2>2, OneData DEF Ended, Wakeups, Resending
      <3>5. ~Vanished(k)
        BY DEF Vanished
      <3> QED
        BY <2>2, <3>1, <3>2, <3>3, <3>4, <3>5
           DEF Effect, Untouched, Woken, Returned, Acked, Released, CutOff, Books
    <2> QED
      BY <1>2, <2>1, <2>2
  <1>5. ResendCanEnd'
    BY <1>4 DEF ResendCanEnd, Accepting, KeyOf
  <1>6. ASSUME NEW k \in Key, Waiting(k)', request'[k].reliable, k \notin notify_discovery'
        PROVE  (\E d \in resend' : KeyOf(d) = k) \/ <<"finish", k>> \in permit'
    <2>1. Effect(k) /\ Books(k) /\ Tokens(k) /\ Awaited(k)
      BY <1>1
    <2>2. Waiting(k) /\ request[k].reliable /\ k \notin notify_discovery =>
            (\E d \in resend : KeyOf(d) = k) \/ <<"finish", k>> \in permit
      BY DEF Wakeups, ResendWhileUnacked
    <2>3. resend \subseteq Datagram
      BY DEF Inductive, TypeOK
    <2> USE <1>6, <2>1, <2>2, <2>3 DEF Waiting, SameResend
    <2>4. CASE Untouched(k)
      BY <2>4 DEF Untouched
    <2>5. CASE Submitted(k)
      BY <2>5 DEF Submitted
    <2>6. CASE Woken(k)
      BY <2>6 DEF Woken
    <2>7. CASE Returned(k)
      BY <2>7 DEF Returned
    <2>8. CASE Ended(k)
      BY <2>8 DEF Ended, Tokens, Books, Awaited
    <2>9. CASE Claimed(k)
      BY <2>9 DEF Claimed, Books
    <2>10. CASE Acked(k)
      BY <2>10 DEF Acked
    <2>11. CASE Released(k) \/ CutOff(k)
      BY <2>11 DEF Released, CutOff
    <2>12. CASE Vanished(k)
      BY <2>12 DEF Vanished
    <2> QED
      BY <2>4, <2>5, <2>6, <2>7, <2>8, <2>9, <2>10, <2>11, <2>12 DEF Effect
  <1>7. ResendWhileUnacked'
    BY <1>6 DEF ResendWhileUnacked, Waiting, KeyOf
  <1> QED
    BY <1>3, <1>5, <1>7

\* The books of every request are in order, and every wait has its wake-up.
THEOREM WakeupsInvariance == Spec => [](Inductive /\ Wakeups)
  <1>1. Init => Wakeups
    BY DEF Init, Wakeups, Books, Tokens, Resending, NoLostWakeup, Waiting, ResendWhileUnacked,
           ResendCanEnd, Accepting, Key
  <1>2. Inductive /\ Wakeups /\ Inductive' /\ [Next]_vars => Wakeups'
    <2> SUFFICES ASSUME Inductive, Wakeups, Inductive', [Next]_vars
                 PROVE  Wakeups'
      OBVIOUS
    <2>1. \A k \in Key : Effect(k)
      BY EffectStep
    <2>2. \A k \in Key : Books(k)' /\ Tokens(k)' /\ Awaited(k)'
      BY <2>1, BooksStep
    <2>3. NoLostWakeup'
      BY <2>2 DEF NoLostWakeup, Awaited
    <2>4. Resending' /\ ResendWhileUnacked' /\ ResendCanEnd'
      BY <2>1, ResendStep DEF Inductive
    <2> QED
      BY <2>2, <2>3, <2>4 DEF Wakeups
  <1> QED
    BY <1>1, <1>2, Invariance, PTL DEF Spec

\* A send that waits for its discovery or its acknowledgement has the permit, or the
\* entry by which an answer will give it one.
THEOREM WakeupKept == Spec => []NoLostWakeup
  BY WakeupsInvariance, PTL DEF Wakeups

\* A reliable send that was discovered is repeated until it is acknowledged.
THEOREM RepeatedUntilAcked == Spec => []ResendWhileUnacked
  BY WakeupsInvariance, PTL DEF Wakeups

\* The task that repeats the data can still be told to end, unless a stop came
\* between the two halves of the handler of its "x".
THEOREM RepetitionCanEnd == Spec => []ResendCanEnd
  BY WakeupsInvariance, PTL DEF Wakeups

\* A send that returned or was cut short has left nothing in the shared maps.
THEOREM NothingLeftBehind == Spec => []MapsDrained
  <1>1. Wakeups => MapsDrained
    BY DEF Wakeups, Books, MapsDrained, Waiting
  <1> QED
    BY <1>1, WakeupsInvariance, PTL

-----------------------------------------------------------------------------
(* The requests of one process, one after the other *)

\* Only a send gives out an id, and only it puts a request on record.
LEMMA SendOnly ==
  ASSUME [Next]_vars
  PROVE  \/ UNCHANGED <<clock, request>>
         \/ \E n \in Node, t \in Topic, b \in Payload, r \in BOOLEAN : Send(n, t, b, r)
  <1> USE DEF senderVars
  <1>1. CASE UNCHANGED vars
    BY <1>1 DEF vars
  <1>2. ASSUME NEW n \in Node, Setup(n)
        PROVE  \/ UNCHANGED <<clock, request>>
               \/ \E t \in Topic, b \in Payload, r \in BOOLEAN : Send(n, t, b, r)
    BY <1>2 DEF Setup, Create, Start, Stop, Unbind, Crash, On, AddServer, SendBeforeStart, Vanish
  <1>3. ASSUME NEW n \in Node, Release(n) \/ Handle(n) PROVE UNCHANGED <<clock, request>>
    BY <1>3 DEF Release, Handle
  <1>4. ASSUME NEW k \in Key, Sender(k) PROVE UNCHANGED <<clock, request>>
    BY <1>4 DEF Sender, DiscoverTick, Discovered, Finished
  <1>5. ASSUME NEW d \in resend, ResendTick(d) \/ ResendStop(d) PROVE UNCHANGED <<clock, request>>
    BY <1>5 DEF ResendTick, ResendStop
  <1>6. ASSUME NEW d \in msgs, Lose(d) \/ Receive(d.dst, d) PROVE UNCHANGED <<clock, request>>
    BY <1>6 DEF Lose, Receive, ReceiveI, ReceiveV, ReceiveX, ReceiveUnreliable, ReceiveReliable,
                ReceiveTruncated
  <1> QED
    BY <1>1, <1>2, <1>3, <1>4, <1>5, <1>6 DEF Next

\* Every step keeps at most one request of a process waiting, the last one.
LEMMA BlockingStep ==
  ASSUME Inductive, Wakeups, Blocking, [Next]_vars
  PROVE  Blocking'
  <1> SUFFICES ASSUME NEW n \in Node, NEW i \in Id
               PROVE  /\ Waiting(<<n, i>>)' => i = clock'[n]
                      /\ i <= clock'[n] <=> send_pc'[<<n, i>>] # "idle"
    BY DEF Blocking, Waiting
  <1> DEFINE k == <<n, i>>
  <1>0. /\ k \in Key /\ i \in Nat /\ clock[n] \in Nat /\ clock \in [Node -> 0 .. MaxId]
        /\ send_pc \in [Key -> {"idle", "discover", "finish", "done", "lost"}]
    BY ConstantsAssumption DEF Key, Id, Inductive, TypeOK
  <1>1. /\ Waiting(k) => i = clock[n]
        /\ i <= clock[n] <=> send_pc[k] # "idle"
    BY DEF Blocking
  <1>2. CASE UNCHANGED <<clock, request>>
    <2>1. ~Submitted(k)
      BY <1>2 DEF Submitted
    <2>2. Effect(k)
      BY <1>0, EffectStep
    <2>3. /\ Waiting(k)' => Waiting(k)
          /\ send_pc'[k] = "idle" <=> send_pc[k] = "idle"
      BY <2>1, <2>2
         DEF Effect, Untouched, Woken, Returned, Ended, Claimed, Acked, Released, CutOff,
             Vanished, Waiting, AfterDiscovery
    <2> QED
      BY <1>1, <1>2, <2>3
  <1>3. ASSUME NEW m \in Node, NEW t \in Topic, NEW b \in Payload, NEW r \in BOOLEAN,
               Send(m, t, b, r)
        PROVE  /\ Waiting(k)' => i = clock'[n]
               /\ i <= clock'[n] <=> send_pc'[k] # "idle"
    <2>1. /\ clock' = [clock EXCEPT ![m] = @ + 1]
          /\ send_pc' = [send_pc EXCEPT ![<<m, clock[m] + 1>>] = "discover"]
          /\ ~Blocked(m)
      BY <1>3 DEF Send
    <2>2. CASE n = m /\ i = clock[n] + 1
      <3>1. send_pc'[k] = "discover" /\ clock'[n] = i
        BY <1>0, <2>1, <2>2
      <3> QED
        BY <1>0, <3>1
    <2>3. CASE n = m /\ i # clock[n] + 1
      <3>1. send_pc'[k] = send_pc[k] /\ clock'[n] = clock[n] + 1
        BY <1>0, <2>1, <2>3
      <3>2. ~Waiting(k)
        BY <2>1, <2>3 DEF Blocked
      <3>3. i <= clock[n] + 1 <=> i <= clock[n]
        BY <1>0, <2>3
      <3> QED
        BY <1>1, <3>1, <3>2, <3>3 DEF Waiting
    <2>4. CASE n # m
      <3>1. send_pc'[k] = send_pc[k] /\ clock'[n] = clock[n]
        BY <1>0, <2>1, <2>4
      <3> QED
        BY <1>1, <3>1 DEF Waiting
    <2> QED
      BY <2>2, <2>3, <2>4
  <1> QED
    BY <1>2, <1>3, SendOnly

\* At most one send of a process waits, and it is the one made last.
THEOREM OneAtATime == Spec => []Blocking
  <1>1. Init => Blocking
    BY ConstantsAssumption DEF Init, Blocking, Waiting, Key, Id
  <1>2. Inductive /\ Wakeups /\ Blocking /\ [Next]_vars => Blocking'
    BY BlockingStep
  <1> QED
    BY <1>1, <1>2, WakeupsInvariance, PTL DEF Spec

\* When a message of a process was received, so was every reliable one the process
\* had sent before it, except those whose send a crash cut short.
THEOREM InOrder == Spec => []ReceivedInOrder
  <1>1. Inductive /\ Blocking => ReceivedInOrder
    <2> SUFFICES ASSUME Inductive, Blocking, NEW n \in Node, NEW i \in Id, NEW j \in Id,
                        i < j, NEW m \in Node, Got(m, <<n, j>>),
                        send_pc[<<n, i>>] # "lost", request[<<n, i>>].reliable
                 PROVE  \E q \in Node : Got(q, <<n, i>>)
      BY DEF ReceivedInOrder
    <2>1. /\ <<n, i>> \in Key /\ <<n, j>> \in Key /\ i \in Nat /\ j \in Nat /\ clock[n] \in Nat
          /\ send_pc[<<n, i>>] \in {"idle", "discover", "finish", "done", "lost"}
      BY ConstantsAssumption DEF Key, Id, Inductive, TypeOK
    <2>2. request[<<n, j>>] # None
      BY <2>1, NoneAssumption DEF Inductive, SingleReceiver, Issued
    <2>3. ~(j > clock[n])
      <3>1. <<n, j>>[1] = n /\ <<n, j>>[2] = j
        OBVIOUS
      <3> QED
        BY <2>1, <2>2, <3>1 DEF Inductive, Issued
    <2>4. send_pc[<<n, i>>] # "idle" /\ i # clock[n]
      BY <2>1, <2>3 DEF Blocking
    <2>5. send_pc[<<n, i>>] = "done" /\ request[<<n, i>>] # None
      BY <2>1, <2>4 DEF Blocking, Waiting, Inductive, Issued
    <2>6. request[<<n, i>>].servers \subseteq Node
      BY <2>1, <2>5 DEF Inductive, TypeOK, Request
    <2> QED
      BY <2>1, <2>5, <2>6 DEF Inductive, AckedWasReceived
  <1> QED
    BY <1>1, Invariance, OneAtATime, PTL

-----------------------------------------------------------------------------
(* Unreliable messages *)

\* Handlers run for data just received, or for the datagram of a half-done handler.
LEMMA HandledStep ==
  ASSUME [Next]_vars
  PROVE  \/ handled' = handled
         \/ \E n \in Node : Handle(n)
         \/ \E d \in msgs : ReceiveUnreliable(d.dst, d)
  <1> USE DEF historyVars
  <1>1. CASE UNCHANGED vars
    BY <1>1 DEF vars
  <1>2. ASSUME NEW n \in Node, Setup(n) PROVE handled' = handled
    BY <1>2 DEF Setup, Create, Start, Stop, Unbind, Crash, On, AddServer, Send, SendBeforeStart,
                Vanish
  <1>3. ASSUME NEW n \in Node, Release(n) PROVE handled' = handled
    BY <1>3 DEF Release
  <1>4. ASSUME NEW k \in Key, Sender(k) PROVE handled' = handled
    BY <1>4 DEF Sender, DiscoverTick, Discovered, Finished
  <1>5. ASSUME NEW d \in resend, ResendTick(d) \/ ResendStop(d) PROVE handled' = handled
    BY <1>5 DEF ResendTick, ResendStop
  <1>6. ASSUME NEW d \in msgs, Lose(d) \/ (Receive(d.dst, d) /\ ~ReceiveUnreliable(d.dst, d))
        PROVE  handled' = handled
    BY <1>6 DEF Lose, Receive, ReceiveI, ReceiveV, ReceiveX, ReceiveReliable, ReceiveTruncated
  <1> QED
    BY <1>1, <1>2, <1>3, <1>4, <1>5, <1>6 DEF Next

\* A request that has no winner was handled nowhere.
LEMMA UnclaimedUnhandled ==
  ASSUME Inductive, NEW k \in Key, winner[k] = None, NEW m \in Node
  PROVE  handled[<<m, k>>] = 0
  <1>1. handled[<<m, k>>] \in 0 .. MaxHandled
    BY DEF Inductive, TypeOK
  <1>2. ~Got(m, k)
    BY NoneAssumption DEF Inductive, SingleReceiver
  <1>3. ~(handled[<<m, k>>] > 0)
    BY <1>2 DEF Got
  <1> QED
    BY <1>1, <1>3, ConstantsAssumption

\* Where data of an unreliable message comes from.
LEMMA UnreliableData ==
  ASSUME Inductive, Wakeups, [Next]_vars, NEW d \in msgs', d.prefix = "_", ~d.reliable
  PROVE  d \in msgs \/ (KeyOf(d) \in notify_discovery /\ winner[KeyOf(d)] = None)
  <1>1. \A e \in msgs, p \in {"v", "x"} : d # Answer(e, p)
    BY Made DEF Inductive, TypeOK
  <1>2. \A q \in Key : \A n \in request[q].servers : d # Question(q, n)
    BY Made
  <1>3. ASSUME NEW e \in msgs, e.prefix = "v", KeyOf(e) \in notify_discovery,
               jobs[KeyOf(e)] # None, d = Data(e, jobs[KeyOf(e)])
        PROVE  KeyOf(d) \in notify_discovery /\ winner[KeyOf(d)] = None
    <2>1. e \in Datagram /\ KeyOf(e) \in Key /\ jobs[KeyOf(e)] \in Payload \cup {None}
      BY KeyOfType DEF Inductive, TypeOK
    <2>2. KeyOf(d) = KeyOf(e)
      BY <1>3, <2>1, Made
    <2> QED
      BY <1>3, <2>1, <2>2 DEF Inductive, Unclaimed
  <1>4. d \notin resend
    BY DEF Wakeups, Resending
  <1> QED
    BY <1>1, <1>2, <1>3, <1>4, NewDatagram DEF Inductive

\* Every step keeps the data of an unreliable message and its handler's run apart.
LEMMA ConsumedStep ==
  ASSUME Inductive, Inductive', Wakeups, Consumed, ~Duplicates, [Next]_vars
  PROVE  Consumed'
  <1>0. /\ handled \in [Node \X Key -> 0 .. MaxHandled]
        /\ msgs \subseteq Datagram /\ msgs' \subseteq Datagram
    BY DEF Inductive, TypeOK
  <1>1. ASSUME NEW d \in msgs', d.prefix = "_", ~d.reliable, NEW m \in Node
        PROVE  handled[<<m, KeyOf(d)>>] = 0
    BY <1>0, <1>1, UnreliableData, UnclaimedUnhandled, KeyOfType DEF Consumed
  <1>2. ASSUME NEW k \in Key, request'[k] # None, ~request'[k].reliable, NEW m \in Node
        PROVE  handled[<<m, k>>] <= 1
    <2>1. CASE request[k] = None
      BY <2>1, UnclaimedUnhandled DEF Inductive, Issued
    <2>2. CASE request[k] # None
      BY <1>2, <2>2, RequestStep DEF Consumed, UnreliableAtMostOnce, Inductive
    <2> QED
      BY <2>1, <2>2
  <1>3. \A k \in Key : request[k] # None => request'[k] = request[k]
    BY RequestStep DEF Inductive
  <1>4. \A d \in msgs' : d.prefix = "_" => /\ KeyOf(d) \in Key
                                           /\ request'[KeyOf(d)] # None
                                           /\ d.reliable = request'[KeyOf(d)].reliable
    BY <1>0, KeyOfType DEF Inductive, Genuine, GenuineDatagram
  <1>5. CASE handled' = handled
    BY <1>1, <1>2, <1>5 DEF Consumed, UnreliableAtMostOnce, KeyOf
  <1>6. ASSUME NEW n \in Node, Handle(n) PROVE Consumed'
    <2> DEFINE q == KeyOf(acceptor[n])
    <2>1. /\ acceptor[n] \in Datagram /\ acceptor[n].prefix = "_"
          /\ RunHandler(n, acceptor[n]) /\ q \in Key
          /\ request[q] # None /\ request[q].reliable
      <3>1. acceptor[n] \in Datagram /\ acceptor[n].prefix = "_" /\ RunHandler(n, acceptor[n])
        BY <1>6 DEF Handle, Inductive, TypeOK
      <3>2. acceptor[n].reliable /\ GenuineDatagram(acceptor[n])
        BY <1>6, <3>1 DEF Handle, Inductive, Held
      <3> QED
        BY <3>1, <3>2, KeyOfType DEF GenuineDatagram
    <2>2. \A m \in Node, k \in Key : k # q => handled'[<<m, k>>] = handled[<<m, k>>]
      BY <1>0, <2>1 DEF RunHandler
    <2>3. request'[q].reliable
      BY <1>3, <2>1
    <2>4. \A d \in msgs' : d.prefix = "_" /\ ~d.reliable => KeyOf(d) # q
      BY <1>4, <2>3
    <2>5. \A d \in msgs' : d.prefix = "_" /\ ~d.reliable =>
            \A m \in Node : handled'[<<m, KeyOf(d)>>] = 0
      <3> SUFFICES ASSUME NEW d \in msgs', d.prefix = "_", ~d.reliable, NEW m \in Node
                   PROVE  handled'[<<m, KeyOf(d)>>] = 0
        OBVIOUS
      <3>1. KeyOf(d) \in Key /\ KeyOf(d) # q
        BY <1>4, <2>4
      <3> QED
        BY <1>1, <2>2, <3>1
    <2>6. \A k \in Key : request'[k] # None /\ ~request'[k].reliable =>
            \A m \in Node : handled'[<<m, k>>] <= 1
      BY <1>2, <2>2, <2>3
    <2> QED
      BY <2>5, <2>6 DEF Consumed, UnreliableAtMostOnce, KeyOf
  <1>7. ASSUME NEW e \in msgs, ReceiveUnreliable(e.dst, e) PROVE Consumed'
    <2> DEFINE q == KeyOf(e)
    <2>1. /\ e \in Datagram /\ e.prefix = "_" /\ ~e.reliable /\ e.dst \in Node /\ q \in Key
          /\ RunHandler(e.dst, e)
      BY <1>0, <1>7, KeyOfType DEF ReceiveUnreliable, Datagram
    <2>2. msgs' = msgs \ {e}
      BY <1>7 DEF ReceiveUnreliable, Transfer
    <2>3. \A m \in Node, k \in Key :
            <<m, k>> # <<e.dst, q>> => handled'[<<m, k>>] = handled[<<m, k>>]
      BY <1>0, <2>1 DEF RunHandler
    <2>4. \A d \in msgs' : d.prefix = "_" => KeyOf(d) # q
      BY <2>1, <2>2, OneData
    <2>5. \A d \in msgs' : d.prefix = "_" /\ ~d.reliable =>
            \A m \in Node : handled'[<<m, KeyOf(d)>>] = 0
      <3> SUFFICES ASSUME NEW d \in msgs', d.prefix = "_", ~d.reliable, NEW m \in Node
                   PROVE  handled'[<<m, KeyOf(d)>>] = 0
        OBVIOUS
      <3>1. KeyOf(d) \in Key /\ KeyOf(d) # q
        BY <1>4, <2>4
      <3>2. <<m, KeyOf(d)>> # <<e.dst, q>>
        BY <3>1
      <3> QED
        BY <1>1, <2>3, <3>1, <3>2
    <2>6. handled'[<<e.dst, q>>] <= 1
      <3>1. handled[<<e.dst, q>>] = 0
        BY <2>1 DEF Consumed
      <3>2. Saturated(handled[<<e.dst, q>>]) = 1
        BY <3>1, ConstantsAssumption DEF Saturated
      <3>3. \/ handled' = handled
            \/ handled' = [handled EXCEPT ![<<e.dst, q>>] = Saturated(@)]
        BY <2>1 DEF RunHandler
      <3>4. <<e.dst, q>> \in Node \X Key
        BY <2>1
      <3>5. handled'[<<e.dst, q>>] \in {0, 1}
        BY <1>0, <3>1, <3>2, <3>3, <3>4
      <3> QED
        BY <3>5
    <2>7. \A k \in Key : request'[k] # None /\ ~request'[k].reliable =>
            \A m \in Node : handled'[<<m, k>>] <= 1
      BY <1>2, <2>3, <2>6
    <2> QED
      BY <2>5, <2>7 DEF Consumed, UnreliableAtMostOnce, KeyOf
  <1> QED
    BY <1>5, <1>6, <1>7, HandledStep

\* What is on its way of an unreliable message was not handled yet.
THEOREM ConsumedAlways == Spec => []Consumed
  <1>1. Init => Consumed
    BY DEF Init, Consumed, UnreliableAtMostOnce
  <1>2. Inductive /\ Inductive' /\ Wakeups /\ Consumed /\ [Next]_vars => Consumed'
    <2>1. CASE Duplicates
      BY <2>1 DEF Consumed, UnreliableAtMostOnce
    <2>2. CASE ~Duplicates
      BY <2>2, ConsumedStep
    <2> QED
      BY <2>1, <2>2
  <1> QED
    BY <1>1, <1>2, WakeupsInvariance, PTL DEF Spec

\* An unreliable message is handled once at most, as long as the network does not
\* duplicate datagrams.
THEOREM AtMostOnce == Spec => []UnreliableAtMostOnce
  BY ConsumedAlways, PTL DEF Consumed
=============================================================================
