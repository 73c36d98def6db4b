--------------------------- MODULE ConnectionsProofs ---------------------------
(* Theorems about Connections, for every value of its constants. *)
EXTENDS ConnectionsDelivery, FiniteSetTheorems, TLAPS

\* What is on its way was given, and what was given has arrived.
OnTheWay ==
  /\ given \subseteq 1 .. arrived
  /\ \A s \in Start : chan[s] \subseteq given /\ down[s] \subseteq given

\* The channel in the table has its write task, as long as there is a runtime.
Written == instance # "released" /\ table # 0 => writer[table] \in {"ready", "blocked"}

\* Unless calls of start() overlap, at most the last one has not resolved, and a
\* client is listened to by its own start only.
OneEach ==
  ~overlap => /\ \A s \in Start : s < made => s \in resolved
              /\ \A s \in Start : heard[s] \subseteq {s}

-----------------------------------------------------------------------------
(* Types *)

\* The actions, one by one.
LEMMA Steps ==
  ASSUME Next
  PROVE  \/ Connect \/ Stop \/ Destroy \/ DestroyReturns \/ Consume \/ DropRuntime
         \/ \E s \in Start : \/ Connected(s) \/ HandleMessage(s)
                             \/ Accept(s) \/ Close(s) \/ Poll(s) \/ Write(s) \/ WriteEnds(s)
                             \/ ReadEnds(s)
  BY DEF Next, JavaScript, Native

LEMMA Bounds == MaxStarts \in Nat /\ MaxStops \in Nat /\ MaxMessages \in Nat
  BY ConnectionsAssumption DEF ConnectionsAssumption

LEMMA TypeInit == Init => TypeOK /\ OnTheWay
<1> SUFFICES ASSUME Init PROVE TypeOK /\ OnTheWay
  OBVIOUS
<1>1. heard \in [Start -> SUBSET Start]
  BY DEF Init
<1>3. chan \in [Start -> SUBSET Message]
  BY DEF Init
<1>4. down \in [Start -> SUBSET Message]
  BY DEF Init
<1>2. /\ writer \in [Start -> {"none", "ready", "blocked", "done"}]
      /\ reader \in [Start -> {"none", "ready", "done"}]
  BY DEF Init
<1> QED
  <2>1. OnTheWay
    BY DEF Init, OnTheWay
  <2>2. made \in 0 .. MaxStarts /\ arrived \in 0 .. MaxMessages /\ stops \in 0 .. MaxStops
    BY Bounds DEF Init
  <2>3. table \in 0 .. made
    BY DEF Init
  <2>4. /\ resolved \subseteq 1 .. made /\ ended \subseteq 1 .. made /\ open \subseteq 1 .. made
        /\ told \subseteq open
        /\ given \subseteq Message /\ handled \subseteq given /\ repeated \subseteq handled
    BY DEF Init
  <2>5. {overlap, destroying, exited} \subseteq BOOLEAN
    BY DEF Init
  <2>6. instance \in {"alive", "destroyed", "released"}
    BY DEF Init
  <2> QED
    BY <1>1, <1>2, <1>3, <1>4, <2>1, <2>2, <2>3, <2>4, <2>5, <2>6 DEF TypeOK

\* Every step keeps the types.
LEMMA TypeStep ==
  ASSUME TypeOK, OnTheWay, [Next]_vars
  PROVE  TypeOK' /\ OnTheWay'
<1> USE Bounds DEF TypeOK, OnTheWay, JsFree, clients, listeners, tasks, messages
<1>1. CASE Connect
  BY <1>1 DEF Connect
<1>2. CASE Stop
  BY <1>2 DEF Stop
<1>3. CASE Destroy \/ DestroyReturns
  BY <1>3 DEF Destroy, DestroyReturns
<1>4. CASE Consume
  <2>1. arrived' = arrived + 1 /\ arrived' \in 0 .. MaxMessages /\ arrived' \in Message
    BY <1>4 DEF Consume, Message
  <2>2. UNCHANGED <<made, resolved, heard, overlap, ended, open, told, table, writer, reader,
                    down, handled, repeated, instance, destroying, stops>>
    BY <1>4 DEF Consume
  <2>3. exited' \in BOOLEAN
    BY <1>4 DEF Consume
  <2>4. CASE UNCHANGED <<chan, given>>
    BY <2>1, <2>2, <2>3, <2>4
  <2>5. CASE ~UNCHANGED <<chan, given>>
    <3>1. /\ table # 0
          /\ chan' = [chan EXCEPT ![table] = @ \cup {arrived'}] /\ given' = given \cup {arrived'}
      BY <1>4, <2>5 DEF Consume
    <3>2. table \in Start
      BY <3>1 DEF Start
    <3>3. chan' \in [Start -> SUBSET Message] /\ given' \subseteq Message
      BY <2>1, <3>1, <3>2
    <3>4. given' \subseteq 1 .. arrived'
      BY <2>1, <3>1
    <3>5. \A s \in Start : chan'[s] \subseteq given'
      BY <3>1, <3>2
    <3> QED
      BY <2>1, <2>2, <2>3, <3>1, <3>3, <3>4, <3>5
  <2> QED
    BY <2>4, <2>5
<1>5. CASE DropRuntime
  BY <1>5 DEF DropRuntime
<1>6. ASSUME NEW s \in Start, Connected(s) PROVE TypeOK' /\ OnTheWay'
  BY <1>6 DEF Connected, Client, Start
<1>7. ASSUME NEW s \in Start, HandleMessage(s) PROVE TypeOK' /\ OnTheWay'
  <2>1. PICK m \in down[s] : /\ down' = [down EXCEPT ![s] = @ \ {m}]
                             /\ handled' = handled \cup {m}
                             /\ repeated' \subseteq repeated \cup {m}
    BY <1>7 DEF HandleMessage
  <2>2. m \in given
    OBVIOUS
  <2>3. UNCHANGED <<clients, listeners, tasks, chan, arrived, given, instance, destroying,
                    stops, exited>>
    BY <1>7 DEF HandleMessage
  <2> QED
    BY <2>1, <2>2, <2>3
<1>8. ASSUME NEW s \in Start, Accept(s) PROVE TypeOK' /\ OnTheWay'
  <2>1. table' \in 0 .. made /\ told' \subseteq open
    BY <1>8 DEF Accept
  <2>2. /\ writer' \in [Start -> {"none", "ready", "blocked", "done"}]
        /\ reader' \in [Start -> {"none", "ready", "done"}]
    BY <1>8 DEF Accept
  <2>3. UNCHANGED <<clients, open, messages, instance, destroying, stops, exited>>
    BY <1>8 DEF Accept
  <2> QED
    BY <2>1, <2>2, <2>3
<1>9. ASSUME NEW s \in Start, Close(s) \/ Poll(s) \/ WriteEnds(s) \/ ReadEnds(s)
      PROVE TypeOK' /\ OnTheWay'
  BY <1>9 DEF Close, Poll, WriteEnds, ReadEnds
<1>10. ASSUME NEW s \in Start, Write(s) PROVE TypeOK' /\ OnTheWay'
  BY <1>10 DEF Write
<1>11. CASE UNCHANGED vars
  BY <1>11 DEF vars
<1> QED
  BY <1>1, <1>2, <1>3, <1>4, <1>5, <1>6, <1>7, <1>8, <1>9, <1>10, <1>11, Steps

\* Every variable keeps its type, however many starts, stops and messages there are.
THEOREM TypeCorrect == Spec => []TypeOK
<1>1. (TypeOK /\ OnTheWay) /\ [Next]_vars => (TypeOK /\ OnTheWay)'
  BY TypeStep
<1> QED
  BY <1>1, TypeInit, PTL DEF Spec

-----------------------------------------------------------------------------
(* Each message is in one place *)

\* The places of a message, by kind.
Channels(m) == {s \in Start : m \in chan[s] /\ writer[s] # "done"}
Sockets(m) == {s \in Start : m \in down[s]}

LEMMA InChannel ==
  ASSUME NEW m, NEW s, Channels(m) = {s}, Sockets(m) = {}, m \notin handled
  PROVE  Places(m) = {<<"chan", s>>}
<1>1. Places(m) = ({"chan"} \X {s}) \cup ({"down"} \X {}) \cup ({"handled"} \X {})
  BY DEF Places, Channels, Sockets
<1> QED
  BY <1>1

LEMMA OnSocket ==
  ASSUME NEW m, NEW s, Channels(m) = {}, Sockets(m) = {s}, m \notin handled
  PROVE  Places(m) = {<<"down", s>>}
<1>1. Places(m) = ({"chan"} \X {}) \cup ({"down"} \X {s}) \cup ({"handled"} \X {})
  BY DEF Places, Channels, Sockets
<1> QED
  BY <1>1

LEMMA AtHandler ==
  ASSUME NEW m, Channels(m) = {}, Sockets(m) = {}, m \in handled
  PROVE  Places(m) = {<<"handled", 0>>}
<1>1. Places(m) = ({"chan"} \X {}) \cup ({"down"} \X {}) \cup ({"handled"} \X {0})
  BY DEF Places, Channels, Sockets
<1> QED
  BY <1>1

\* A message in one place, and nowhere else.
InOne(m) ==
  \/ \E s \in Start : Channels(m) = {s} /\ Sockets(m) = {} /\ m \notin handled
  \/ \E s \in Start : Channels(m) = {} /\ Sockets(m) = {s} /\ m \notin handled
  \/ Channels(m) = {} /\ Sockets(m) = {} /\ m \in handled

\* A message that ended with its runtime.
Lost(m) ==
  /\ instance = "released"
  /\ Channels(m) = {} /\ Sockets(m) = {} /\ m \notin handled

\* Every message that was given is in one place, or was lost with the runtime.
Single == \A m \in given : InOne(m) \/ Lost(m)

\* While there is a runtime it is in one.
LEMMA OneIsOne ==
  ASSUME Single
  PROVE  NoneLost
<1> SUFFICES ASSUME instance = "alive", NEW m \in given PROVE Cardinality(Places(m)) = 1
  BY DEF NoneLost
<1>1. InOne(m)
  BY DEF Single, Lost
<1>2. \E p : Places(m) = {p}
  <2>1. ASSUME NEW s \in Start, Channels(m) = {s}, Sockets(m) = {}, m \notin handled
        PROVE  Places(m) = {<<"chan", s>>}
    BY <2>1, InChannel
  <2>2. ASSUME NEW s \in Start, Channels(m) = {}, Sockets(m) = {s}, m \notin handled
        PROVE  Places(m) = {<<"down", s>>}
    BY <2>2, OnSocket
  <2>3. ASSUME Channels(m) = {}, Sockets(m) = {}, m \in handled
        PROVE  Places(m) = {<<"handled", 0>>}
    BY <2>3, AtHandler
  <2> QED
    BY <1>1, <2>1, <2>2, <2>3 DEF InOne
<1> QED
  BY <1>2, FS_Singleton

\* A step that leaves channels and sockets alone leaves messages where they are.
LEMMA StaysPut ==
  ASSUME UNCHANGED <<chan, down, given, handled>>,
         \A s \in Start : chan[s] # {} => (writer'[s] = "done" <=> writer[s] = "done"),
         Single, instance = "released" => instance' = "released"
  PROVE  Single'
<1>1. ASSUME NEW m PROVE Channels(m)' = Channels(m) /\ Sockets(m)' = Sockets(m)
  BY DEF Channels, Sockets
<1> QED
  BY <1>1 DEF Single, InOne, Lost

LEMMA SingleStep ==
  ASSUME TypeOK, OnTheWay, Written, Single, [Next]_vars
  PROVE  Single'
<1> USE DEF clients, listeners, tasks, messages
<1>1. CASE Connect \/ Stop \/ Destroy \/ DestroyReturns \/ UNCHANGED vars
  BY <1>1, StaysPut DEF Connect, Stop, Destroy, DestroyReturns, vars
<1>2. CASE DropRuntime
  <2> SUFFICES ASSUME NEW m \in given PROVE InOne(m)' \/ Lost(m)'
    BY <1>2 DEF DropRuntime, Single
  <2>1. /\ UNCHANGED <<chan, down, handled>> /\ instance = "destroyed" /\ instance' = "released"
        /\ writer' = [s \in Start |-> IF writer[s] = "none" THEN "none" ELSE "done"]
    BY <1>2 DEF DropRuntime
  <2>2. InOne(m)
    BY <2>1 DEF Single, Lost
  <2>3. Sockets(m)' = Sockets(m) /\ Channels(m)' \subseteq Channels(m)
    BY <2>1 DEF Sockets, Channels
  <2>4. ASSUME NEW s, Channels(m) = {s} PROVE Channels(m)' = {s} \/ Channels(m)' = {}
    BY <2>3, <2>4
  <2> QED
    BY <2>1, <2>2, <2>3, <2>4 DEF InOne, Lost
<1>3. ASSUME NEW s \in Start, Connected(s) \/ Close(s) \/ ReadEnds(s) PROVE Single'
  BY <1>3, StaysPut DEF Connected, Close, ReadEnds
<1>4. ASSUME NEW s \in Start, Accept(s) \/ Poll(s) \/ WriteEnds(s) PROVE Single'
  <2>1. UNCHANGED <<chan, down, given, handled, instance>>
    BY <1>4 DEF Accept, Poll, WriteEnds
  <2>2. \A t \in Start : chan[t] # {} => (writer'[t] = "done" <=> writer[t] = "done")
    BY <1>4 DEF Accept, Poll, WriteEnds, TypeOK
  <2> QED
    BY <2>1, <2>2, StaysPut
<1>5. CASE Consume
  <2>1. /\ arrived \in Nat
        /\ UNCHANGED <<table, writer, down, handled, instance>>
    BY <1>5 DEF Consume, TypeOK
  <2>2. CASE UNCHANGED <<chan, given>>
    BY <2>1, <2>2, StaysPut
  <2>3. CASE ~UNCHANGED <<chan, given>>
    <3> SUFFICES ASSUME NEW m \in given' PROVE InOne(m)' \/ Lost(m)'
      BY DEF Single
    <3> DEFINE n == arrived + 1
    <3>1. /\ instance = "alive" /\ table # 0
          /\ chan' = [chan EXCEPT ![table] = @ \cup {n}]
          /\ given' = given \cup {n}
      BY <1>5, <2>3 DEF Consume
    <3>2. table \in Start /\ writer[table] # "done"
      <4>1. table \in Start
        BY <3>1, Bounds DEF Start, TypeOK
      <4>2. writer[table] \in {"ready", "blocked"}
        BY <3>1 DEF Written
      <4> QED
        BY <4>1, <4>2
    <3>3. n \notin given /\ n \notin handled /\ \A s \in Start : n \notin chan[s] /\ n \notin down[s]
      BY <2>1 DEF OnTheWay, TypeOK
    <3>4. CASE m = n
      <4>1. Channels(m)' = {table}
        BY <2>1, <3>1, <3>2, <3>3, <3>4 DEF Channels, TypeOK
      <4>2. Sockets(m)' = {}
        BY <2>1, <3>3, <3>4 DEF Sockets
      <4> QED
        BY <2>1, <3>2, <3>3, <3>4, <4>1, <4>2 DEF InOne
    <3>5. CASE m # n
      <4>1. Channels(m)' = Channels(m) /\ Sockets(m)' = Sockets(m)
        BY <2>1, <3>1, <3>2, <3>5 DEF Channels, Sockets, TypeOK
      <4> QED
        BY <2>1, <3>1, <3>5, <4>1 DEF InOne, Lost, Single
    <3> QED
      BY <3>4, <3>5
  <2> QED
    BY <2>2, <2>3
<1>6. ASSUME NEW s \in Start, Write(s) PROVE Single'
  <2> SUFFICES ASSUME NEW n \in given PROVE InOne(n)' \/ Lost(n)'
    BY <1>6 DEF Write, Single
  <2>1. PICK m \in chan[s] : /\ chan' = [chan EXCEPT ![s] = @ \ {m}]
                             /\ down' = [down EXCEPT ![s] = @ \cup {m}]
    BY <1>6 DEF Write
  <2>2. UNCHANGED handled /\ writer[s] # "done" /\ writer'[s] # "done"
        /\ \A t \in Start \ {s} : writer'[t] = writer[t]
    BY <1>6 DEF Write, TypeOK
  <2>3. InOne(n) \/ Lost(n)
    BY DEF Single
  <2>4. CASE n = m
    <3>1. s \in Channels(n)
      BY <2>1, <2>2, <2>4 DEF Channels
    <3>2. Channels(n) = {s} /\ Sockets(n) = {} /\ n \notin handled
      BY <2>3, <3>1 DEF InOne, Lost
    <3>3. Channels(n)' = {}
      BY <2>1, <2>2, <2>4, <3>2 DEF Channels, TypeOK
    <3>4. Sockets(n)' = {s}
      BY <2>1, <2>4, <3>2 DEF Sockets, TypeOK
    <3> QED
      BY <2>2, <3>2, <3>3, <3>4 DEF InOne
  <2>5. CASE n # m
    <3>1. Channels(n)' = Channels(n) /\ Sockets(n)' = Sockets(n)
      BY <2>1, <2>2, <2>5 DEF Channels, Sockets, TypeOK
    <3>2. UNCHANGED instance /\ (n \in handled' <=> n \in handled)
      BY <1>6 DEF Write
    <3> QED
      BY <2>3, <3>1, <3>2 DEF InOne, Lost
  <2> QED
    BY <2>4, <2>5
<1>7. ASSUME NEW s \in Start, HandleMessage(s) PROVE Single'
  <2> SUFFICES ASSUME NEW n \in given PROVE InOne(n)' \/ Lost(n)'
    BY <1>7 DEF HandleMessage, Single
  <2>1. PICK m \in down[s] : /\ down' = [down EXCEPT ![s] = @ \ {m}]
                             /\ handled' = handled \cup {m}
    BY <1>7 DEF HandleMessage
  <2>2. UNCHANGED <<chan, writer>>
    BY <1>7 DEF HandleMessage
  <2>3. InOne(n) \/ Lost(n)
    BY DEF Single
  <2>4. CASE n = m
    <3>1. s \in Sockets(n)
      BY <2>1, <2>4 DEF Sockets
    <3>2. Channels(n) = {} /\ Sockets(n) = {s} /\ n \notin handled
      BY <2>3, <3>1 DEF InOne, Lost
    <3>3. Channels(n)' = {}
      BY <2>2, <3>2 DEF Channels
    <3>4. Sockets(n)' = {}
      BY <2>1, <2>4, <3>2 DEF Sockets, TypeOK
    <3> QED
      BY <2>1, <2>4, <3>3, <3>4 DEF InOne
  <2>5. CASE n # m
    <3>1. Channels(n)' = Channels(n) /\ Sockets(n)' = Sockets(n)
      BY <2>1, <2>2, <2>5 DEF Channels, Sockets, TypeOK
    <3>2. UNCHANGED instance /\ (n \in handled' <=> n \in handled)
      BY <1>7, <2>1, <2>5 DEF HandleMessage
    <3> QED
      BY <2>3, <3>1, <3>2 DEF InOne, Lost
  <2> QED
    BY <2>4, <2>5
<1> QED
  BY <1>1, <1>2, <1>3, <1>4, <1>5, <1>6, <1>7, Steps

-----------------------------------------------------------------------------
(* Who listens to a client, and the whole invariant *)

LEMMA WrittenStep ==
  ASSUME TypeOK, Written, [Next]_vars
  PROVE  Written'
<1> USE DEF clients, listeners, tasks, messages, Written
<1>1. CASE Connect \/ Stop \/ Destroy \/ DestroyReturns \/ Consume \/ UNCHANGED vars
  BY <1>1 DEF Connect, Stop, Destroy, DestroyReturns, Consume, vars
<1>2. CASE DropRuntime
  BY <1>2 DEF DropRuntime
<1>3. ASSUME NEW s \in Start, Connected(s) \/ HandleMessage(s) \/ Close(s) \/ ReadEnds(s)
      PROVE Written'
  BY <1>3 DEF Connected, HandleMessage, Close, ReadEnds
<1>4. ASSUME NEW s \in Start, Accept(s) PROVE Written'
  BY <1>4 DEF Accept, TypeOK
<1>5. ASSUME NEW s \in Start, Poll(s) PROVE Written'
  BY <1>5 DEF Poll, TypeOK
<1>6. ASSUME NEW s \in Start, Write(s) PROVE Written'
  BY <1>6 DEF Write, TypeOK
<1>7. ASSUME NEW s \in Start, WriteEnds(s) PROVE Written'
  BY <1>7 DEF WriteEnds, TypeOK
<1> QED
  BY <1>1, <1>2, <1>3, <1>4, <1>5, <1>6, <1>7, Steps

LEMMA ListenStep ==
  ASSUME TypeOK, OneEach, HandledOnce, [Next]_vars
  PROVE  OneEach' /\ HandledOnce'
<1> USE DEF listeners, tasks, messages, OneEach, HandledOnce
<1>1. CASE Connect
  <2>1. \A s \in Start : ~overlap' /\ s < made' => s \in resolved
    <3>1. ~overlap' => resolved = 1 .. made
      BY <1>1, Zenon DEF Connect
    <3>2. made' = made + 1 /\ made \in Nat
      BY <1>1 DEF Connect, TypeOK
    <3> QED
      BY <3>1, <3>2 DEF Start
  <2>2. overlap => overlap'
    BY <1>1, Zenon DEF Connect
  <2> QED
    BY <1>1, <2>1, <2>2 DEF Connect
<1>2. ASSUME NEW s \in Start, Connected(s) PROVE OneEach' /\ HandledOnce'
  <2>1. /\ s \in 1 .. made /\ s \notin resolved /\ resolved' = resolved \cup {s}
        /\ heard' = [heard EXCEPT ![made] = @ \cup {s}]
        /\ UNCHANGED <<made, overlap, repeated>>
    BY <1>2 DEF Connected, Client, TypeOK, Start
  <2>2. ~overlap => s = made
    BY <2>1 DEF TypeOK
  <2> QED
    BY <2>1, <2>2 DEF TypeOK
<1>3. ASSUME NEW s \in Start, HandleMessage(s) PROVE OneEach' /\ HandledOnce'
  <2>1. PICK m : repeated' = repeated \cup {n \in {m} : Cardinality(heard[s]) > 1}
    BY <1>3 DEF HandleMessage
  <2>2. UNCHANGED clients
    BY <1>3 DEF HandleMessage
  <2>3. ASSUME ~overlap PROVE repeated' = {}
    <3>1. heard[s] = {} \/ heard[s] = {s}
      BY <2>3
    <3>2. Cardinality(heard[s]) \in {0, 1}
      BY <3>1, FS_EmptySet, FS_Singleton
    <3> QED
      BY <2>1, <2>3, <3>2
  <2> QED
    BY <2>2, <2>3 DEF clients
<1>4. CASE Stop \/ Destroy \/ DestroyReturns \/ Consume \/ DropRuntime \/ UNCHANGED vars
  BY <1>4 DEF Stop, Destroy, DestroyReturns, Consume, DropRuntime, clients, vars
<1>5. ASSUME NEW s \in Start, \/ Accept(s) \/ Close(s) \/ Poll(s) \/ Write(s)
                              \/ WriteEnds(s) \/ ReadEnds(s)
      PROVE OneEach' /\ HandledOnce'
  BY <1>5 DEF Accept, Close, Poll, Write, WriteEnds, ReadEnds, clients
<1> QED
  BY <1>1, <1>2, <1>3, <1>4, <1>5, Steps

\* The inductive invariant.
Inv == TypeOK /\ OnTheWay /\ Written /\ Single /\ OneEach /\ HandledOnce

\* What the connections hold fits what was given to them, each message in one place,
\* and what each client's data listeners are fits how the starts overlapped.
THEOREM Invariance == Spec => []Inv
<1>1. Init => Inv
  <2>1. Init => Single /\ Written /\ OneEach /\ HandledOnce
    <3>1. Init => Single /\ Written /\ HandledOnce
      BY DEF Init, Single, Written, HandledOnce
    <3>2. ASSUME Init PROVE OneEach
      <4>1. \A s \in Start : heard[s] = {}
        BY <3>2 DEF Init
      <4>2. made = 0
        BY <3>2 DEF Init
      <4> QED
        BY <4>1, <4>2 DEF OneEach, Start
    <3> QED
      BY <3>1, <3>2
  <2> QED
    BY <2>1, TypeInit DEF Inv
<1>2. Inv /\ [Next]_vars => Inv'
  BY TypeStep, WrittenStep, SingleStep, ListenStep DEF Inv
<1> QED
  BY <1>1, <1>2, PTL DEF Spec

\* A message given to a connection stays in one place until it is handled, across
\* stops and restarts, however many connections and workers there are.
THEOREM NothingLost == Spec => []NoneLost
<1>1. Inv => NoneLost
  BY OneIsOne DEF Inv, Single, NoneLost
<1> QED
  BY <1>1, Invariance, PTL

\* A handler is given a message twice only if calls of start() overlapped
\* (index.ts:249-272).
THEOREM OnceUnlessOverlap == Spec => []HandledOnce
<1>1. Inv => HandledOnce
  BY DEF Inv
<1> QED
  BY <1>1, Invariance, PTL

-----------------------------------------------------------------------------
(* Who moves a message on *)

\* Messages are where a connection was accepted, and a start that has resolved is
\* heard by the client of its own unless calls of start() overlap.
Joined ==
  /\ \A s \in Start : writer[s] # "none" => s <= made
  /\ \A s \in Start : chan[s] # {} \/ down[s] # {} => writer[s] # "none"
  /\ ~overlap => \A s \in resolved : s \in heard[s]

LEMMA JoinedInit == Init => Joined
<1> SUFFICES ASSUME Init PROVE Joined
  OBVIOUS
<1>1. \A s \in Start : writer[s] = "none" /\ chan[s] = {} /\ down[s] = {}
  BY DEF Init
<1>2. resolved = {}
  BY DEF Init
<1> QED
  BY <1>1, <1>2 DEF Joined

LEMMA JoinedStep ==
  ASSUME TypeOK, Written, OneEach, Joined, [Next]_vars
  PROVE  Joined'
<1> USE DEF listeners, tasks, messages, Joined
<1>1. CASE Connect
  <2>1. made' = made + 1 /\ made \in Nat /\ \A s \in Start : s \in Nat
    BY <1>1 DEF Connect, TypeOK, Start
  <2>2. overlap => overlap'
    BY <1>1, Zenon DEF Connect
  <2>3. UNCHANGED <<resolved, heard, writer, chan, down>>
    BY <1>1 DEF Connect
  <2> QED
    BY <2>1, <2>2, <2>3
<1>2. CASE Stop \/ Destroy \/ DestroyReturns \/ UNCHANGED vars
  BY <1>2 DEF Stop, Destroy, DestroyReturns, clients, vars
<1>3. CASE Consume
  <2>1. UNCHANGED <<made, resolved, heard, overlap, writer, down>>
    BY <1>3 DEF Consume, clients
  <2>2. CASE UNCHANGED chan
    BY <2>1, <2>2
  <2>3. CASE ~UNCHANGED chan
    <3>1. /\ instance = "alive" /\ table # 0
          /\ chan' = [chan EXCEPT ![table] = @ \cup {arrived'}]
      BY <1>3, <2>3 DEF Consume
    <3>2. writer[table] # "none"
      BY <3>1 DEF Written
    <3>3. \A s \in Start : s # table => chan'[s] = chan[s]
      BY <3>1 DEF TypeOK
    <3> QED
      BY <2>1, <3>2, <3>3
  <2> QED
    BY <2>2, <2>3
<1>4. CASE DropRuntime
  <2>1. /\ \A s \in Start : writer'[s] = "none" <=> writer[s] = "none"
        /\ UNCHANGED <<made, resolved, heard, overlap, chan, down>>
    BY <1>4 DEF DropRuntime, clients
  <2> QED
    BY <2>1
<1>5. ASSUME NEW s \in Start, Connected(s) PROVE Joined'
  <2>1. /\ s \in 1 .. made /\ s \notin resolved /\ resolved' = resolved \cup {s}
        /\ heard' = [heard EXCEPT ![made] = @ \cup {s}]
        /\ UNCHANGED <<made, overlap, writer, chan, down>>
    BY <1>5 DEF Connected, Client, TypeOK, Start
  <2>2. ~overlap => s = made
    BY <2>1 DEF OneEach, TypeOK
  <2>3. \A t \in resolved : t \in Start
    BY Bounds DEF TypeOK, Start
  <2>4. ASSUME ~overlap, NEW t \in resolved' PROVE t \in heard'[t]
    <3>1. heard'[s] = heard[s] \cup {s} /\ \A u \in Start : u # s => heard'[u] = heard[u]
      BY <2>1, <2>2, <2>4 DEF TypeOK
    <3> QED
      BY <2>1, <2>3, <2>4, <3>1
  <2> QED
    BY <2>1, <2>4
<1>6. ASSUME NEW s \in Start, HandleMessage(s) PROVE Joined'
  <2>1. PICK m \in down[s] : down' = [down EXCEPT ![s] = @ \ {m}]
    BY <1>6 DEF HandleMessage
  <2>2. UNCHANGED <<made, resolved, heard, overlap, writer, chan>>
    BY <1>6 DEF HandleMessage, clients
  <2>3. \A t \in Start : down'[t] \subseteq down[t]
    BY <2>1 DEF TypeOK
  <2> QED
    BY <2>2, <2>3
<1>7. ASSUME NEW s \in Start, Accept(s) PROVE Joined'
  <2>1. s <= made /\ UNCHANGED <<made, resolved, heard, overlap, chan, down>>
    BY <1>7 DEF Accept, TypeOK, clients
  <2>2. writer'[s] = "ready" /\ \A t \in Start : t # s => writer'[t] = writer[t]
    BY <1>7 DEF Accept, TypeOK
  <2> QED
    BY <2>1, <2>2
<1>8. ASSUME NEW s \in Start, Close(s) \/ Poll(s) \/ WriteEnds(s) \/ ReadEnds(s) PROVE Joined'
  <2>1. UNCHANGED <<made, resolved, heard, overlap, chan, down>>
    BY <1>8 DEF Close, Poll, WriteEnds, ReadEnds, clients
  <2>2. \A t \in Start : writer'[t] = "none" <=> writer[t] = "none"
    BY <1>8 DEF Close, Poll, WriteEnds, ReadEnds, TypeOK
  <2> QED
    BY <2>1, <2>2
<1>9. ASSUME NEW s \in Start, Write(s) PROVE Joined'
  <2>1. PICK m \in chan[s] : /\ chan' = [chan EXCEPT ![s] = @ \ {m}]
                             /\ down' = [down EXCEPT ![s] = @ \cup {m}]
    BY <1>9 DEF Write
  <2>2. UNCHANGED <<made, resolved, heard, overlap>> /\ writer[s] = "blocked"
    BY <1>9 DEF Write, clients
  <2>3. \A t \in Start : writer'[t] = "none" <=> writer[t] = "none"
    BY <1>9 DEF Write, TypeOK
  <2>4. \A t \in Start : t # s => chan'[t] = chan[t] /\ down'[t] = down[t]
    BY <2>1 DEF TypeOK
  <2> QED
    BY <2>2, <2>3, <2>4
<1> QED
  BY <1>1, <1>2, <1>3, <1>4, <1>5, <1>6, <1>7, <1>8, <1>9, Steps

\* A write task that is ready finds a worker, unless there are more of them than workers.
LEMMA SpareOrCrowded ==
  ASSUME NEW s \in Start, writer[s] = "ready"
  PROVE  Spare \/ Crowded
<1> DEFINE Tasks == {t \in Start : writer[t] \in {"ready", "blocked"}}
<1>1. IsFiniteSet(Tasks)
  <2>1. IsFiniteSet(Start)
    BY FS_Interval, Bounds DEF Start
  <2> QED
    BY <2>1, FS_Subset
<1>2. Blocked \subseteq Tasks /\ s \in Tasks /\ s \notin Blocked
  BY DEF Blocked
<1>3. /\ IsFiniteSet(Blocked) /\ Cardinality(Blocked) <= Cardinality(Tasks)
      /\ Cardinality(Blocked) = Cardinality(Tasks) => Blocked = Tasks
  BY <1>1, <1>2, FS_Subset
<1>4. Cardinality(Blocked) < Cardinality(Tasks)
  BY <1>1, <1>2, <1>3, FS_CardinalityType
<1>5. Cardinality(Blocked) \in Nat /\ Cardinality(Tasks) \in Nat /\ ThreadLimit \in Nat
  BY <1>1, <1>3, FS_CardinalityType, ConnectionsAssumption DEF ConnectionsAssumption
<1> QED
  BY <1>4, <1>5 DEF Spare, Crowded

\* Unless calls of start() overlapped, a message that a consumer's send left with this
\* instance (lib.rs:256-296) has its write task, which waits for it or which a worker can
\* take up, or a client that hands it on: no stop and no restart leaves it without both
\* (uds.rs:333-348, index.ts:249-272).
THEOREM NobodyStranded == Spec => []NoStrandedMessage
<1>1. Inv /\ Joined => NoStrandedMessage
  <2> SUFFICES ASSUME Inv, Joined, instance = "alive", ~overlap, NEW m \in given \ handled
               PROVE  \E s \in Start :
                        \/ m \in chan[s] /\ writer[s] = "blocked"
                        \/ m \in chan[s] /\ writer[s] = "ready" /\ (Spare \/ Crowded)
                        \/ m \in down[s] /\ heard[s] # {}
                        \/ m \in down[s] /\ s = Client /\ s \notin resolved
    BY DEF NoStrandedMessage
  <2>1. PICK s \in Start : \/ m \in chan[s] /\ writer[s] # "done"
                           \/ m \in down[s]
    <3>1. InOne(m)
      BY DEF Inv, Single, Lost
    <3>2. \E s \in Start : s \in Channels(m) \/ s \in Sockets(m)
      BY <3>1 DEF InOne
    <3> QED
      BY <3>2 DEF Channels, Sockets
  <2>2. CASE m \in chan[s] /\ writer[s] # "done"
    <3>1. writer[s] \in {"ready", "blocked"}
      BY <2>2 DEF Inv, TypeOK, Joined
    <3> QED
      BY <2>2, <3>1, SpareOrCrowded
  <2>3. CASE m \in down[s]
    <3>1. s <= made /\ s \in Nat /\ made \in Nat
      BY <2>3 DEF Inv, TypeOK, Joined, Start
    <3>2. s \notin resolved => s = Client
      BY <3>1 DEF Inv, OneEach, Client
    <3>3. s \in resolved => heard[s] # {}
      BY DEF Joined
    <3> QED
      BY <2>3, <3>2, <3>3
  <2> QED
    BY <2>1, <2>2, <2>3
<1>2. Inv /\ Joined /\ [Next]_vars => Joined'
  BY JoinedStep DEF Inv
<1> QED
  BY <1>1, <1>2, JoinedInit, Invariance, PTL DEF Spec

-----------------------------------------------------------------------------
(* Connections implements Delivery *)

\* The messages on their way.
Carried == {m \in Message : OnItsWay(m)}

Step == [Promise!Next]_(Promise!vars)

\* A step that moves no message to a handler, and takes none, is a stutter.
LEMMA Stutter ==
  ASSUME UNCHANGED <<arrived, Carried, handled, repeated, overlap, instance>>
  PROVE  Step
<1>1. UNCHANGED Promise!vars
  BY DEF Promise!vars, Carried
<1> QED
  BY <1>1 DEF Step

\* A message stays on its way with its place.
LEMMA SameWay ==
  ASSUME UNCHANGED <<chan, down>>,
         \A s \in Start : chan[s] # {} => (writer'[s] = "done" <=> writer[s] = "done")
  PROVE  UNCHANGED Carried
BY DEF Carried, OnItsWay

\* The JavaScript side without its handlers: clients, listeners and the end of the
\* instance are no concern of messages.
LEMMA ShapeStep ==
  ASSUME TypeOK, Connect \/ Stop \/ Destroy \/ DestroyReturns \/ UNCHANGED vars
  PROVE  Step
<1>1. UNCHANGED <<chan, down, writer, arrived, handled, repeated>>
  BY DEF Connect, Stop, Destroy, DestroyReturns, vars, tasks, messages
<1>2. UNCHANGED Carried
  BY <1>1, SameWay
<1>3. CASE UNCHANGED <<overlap, instance>>
  BY <1>1, <1>2, <1>3, Stutter
<1>4. CASE UNCHANGED instance /\ overlap' = TRUE
  <2>1. Promise!Overlap
    BY <1>1, <1>2, <1>4 DEF Promise!Overlap, Carried
  <2> QED
    BY <2>1 DEF Step, Promise!Next
<1>5. CASE instance' = "destroyed" /\ UNCHANGED overlap
  <2>1. Promise!Destroy
    BY <1>1, <1>2, <1>5 DEF Promise!Destroy, Carried
  <2> QED
    BY <2>1 DEF Step, Promise!Next
<1>6. \/ UNCHANGED <<overlap, instance>>
      \/ UNCHANGED instance /\ overlap' = TRUE
      \/ instance' = "destroyed" /\ UNCHANGED overlap
  <2>1. CASE Connect
    <3>1. overlap' = (overlap \/ resolved # 1 .. made) /\ UNCHANGED instance
      BY <2>1, Zenon DEF Connect
    <3>2. overlap \in BOOLEAN
      BY DEF TypeOK
    <3> QED BY <3>1, <3>2
  <2>2. CASE Destroy
    BY <2>2 DEF Destroy, clients
  <2>3. CASE Stop \/ DestroyReturns \/ UNCHANGED vars
    BY <2>3 DEF Stop, DestroyReturns, vars, clients
  <2> QED BY <2>1, <2>2, <2>3
<1> QED
  BY <1>3, <1>4, <1>5, <1>6

\* The steps of listeners and tasks, but for the write task's.
LEMMA TaskStep ==
  ASSUME TypeOK, NEW s \in Start,
         Connected(s) \/ Accept(s) \/ Close(s) \/ Poll(s) \/ WriteEnds(s) \/ ReadEnds(s)
  PROVE  Step
<1>1. UNCHANGED <<chan, down, arrived, handled, repeated, overlap, instance>>
  BY DEF Connected, Accept, Close, Poll, WriteEnds, ReadEnds, messages, clients
<1>2. \A t \in Start : chan[t] # {} => (writer'[t] = "done" <=> writer[t] = "done")
  BY DEF Connected, Accept, Close, Poll, WriteEnds, ReadEnds, tasks, TypeOK
<1> QED
  BY <1>1, <1>2, SameWay, Stutter

\* A message that is written is still on its way.
LEMMA WriteStep ==
  ASSUME TypeOK, NEW s \in Start, Write(s)
  PROVE  Step
<1>1. PICK m \in chan[s] : /\ chan' = [chan EXCEPT ![s] = @ \ {m}]
                           /\ down' = [down EXCEPT ![s] = @ \cup {m}]
  BY DEF Write
<1>2. /\ writer[s] # "done" /\ writer'[s] # "done"
      /\ \A t \in Start \ {s} : writer'[t] = writer[t]
  BY DEF Write, TypeOK
<1>3. UNCHANGED <<arrived, handled, repeated, overlap, instance>>
  BY DEF Write, clients
<1>4. ASSUME NEW n \in Message PROVE OnItsWay(n)' <=> OnItsWay(n)
  <2>1. CASE n = m
    <3>1. n \in chan[s] /\ n \in down'[s]
      BY <1>1, <2>1 DEF TypeOK
    <3> QED BY <1>2, <3>1 DEF OnItsWay
  <2>2. CASE n # m
    <3>1. \A t \in Start : (n \in chan'[t] <=> n \in chan[t]) /\ (n \in down'[t] <=> n \in down[t])
      BY <1>1, <2>2 DEF TypeOK
    <3> QED BY <1>2, <3>1 DEF OnItsWay
  <2> QED BY <2>1, <2>2
<1>5. UNCHANGED Carried
  BY <1>4 DEF Carried
<1> QED
  BY <1>3, <1>5, Stutter

\* A message is handled where it is, and is then nowhere else.
LEMMA HandleStep ==
  ASSUME TypeOK, OnTheWay, Single, OneEach, NEW s \in Start, HandleMessage(s)
  PROVE  Step
<1>1. PICK m \in down[s] :
        /\ down' = [down EXCEPT ![s] = @ \ {m}]
        /\ handled' = handled \cup {m}
        /\ repeated' = repeated \cup {n \in {m} : Cardinality(heard[s]) > 1}
  BY DEF HandleMessage
<1>2. UNCHANGED <<chan, writer, arrived, overlap, instance>>
  BY DEF HandleMessage, clients, tasks
<1>3. m \in given /\ m \in Message
  BY DEF OnTheWay, TypeOK
<1>4. Channels(m) = {} /\ Sockets(m) = {s}
  BY <1>3 DEF Single, InOne, Lost, Sockets
<1>5. ASSUME NEW n \in Message PROVE OnItsWay(n)' <=> OnItsWay(n) /\ n # m
  <2>1. CASE n = m
    <3>1. \A t \in Start : ~(n \in chan[t] /\ writer[t] # "done") /\ (n \in down[t] => t = s)
      BY <1>4, <2>1 DEF Channels, Sockets
    <3>2. \A t \in Start : n \notin down'[t]
      BY <1>1, <2>1, <3>1 DEF TypeOK
    <3> QED BY <1>2, <2>1, <3>1, <3>2 DEF OnItsWay
  <2>2. CASE n # m
    <3>1. \A t \in Start : n \in down'[t] <=> n \in down[t]
      BY <1>1, <2>2 DEF TypeOK
    <3> QED BY <1>2, <2>2, <3>1 DEF OnItsWay
  <2> QED BY <2>1, <2>2
<1>6. Carried' = Carried \ {m} /\ m \in Carried
  <2>1. OnItsWay(m)
    BY DEF OnItsWay
  <2> QED BY <1>3, <1>5, <2>1 DEF Carried
<1>7. UNCHANGED repeated \/ (overlap /\ repeated' = repeated \cup {m})
  <2>1. CASE overlap
    BY <1>1, <2>1
  <2>2. CASE ~overlap
    <3>1. heard[s] = {} \/ heard[s] = {s}
      BY <2>2 DEF OneEach
    <3>2. Cardinality(heard[s]) \in {0, 1}
      BY <3>1, FS_EmptySet, FS_Singleton
    <3> QED BY <1>1, <3>2
  <2> QED BY <2>1, <2>2
<1>8. Promise!Handle(m)
  BY <1>1, <1>2, <1>6, <1>7 DEF Promise!Handle, Carried
<1> QED
  BY <1>6, <1>8 DEF Step, Promise!Next, Carried

\* A message that is received finds the channel in the table, or is refused.
LEMMA ConsumeStep ==
  ASSUME TypeOK, Written, Consume
  PROVE  Step
<1>1. /\ arrived < MaxMessages /\ arrived' = arrived + 1 /\ arrived' \in Message
      /\ UNCHANGED <<writer, down, handled, repeated, overlap, instance>>
  BY Bounds DEF Consume, clients, tasks, TypeOK, Message
<1>2. CASE UNCHANGED chan
  <2>1. UNCHANGED Carried
    BY <1>1, <1>2, SameWay
  <2>2. Promise!Receive
    BY <1>1, <2>1 DEF Promise!Receive, Carried
  <2> QED BY <2>2 DEF Step, Promise!Next
<1>3. CASE ~UNCHANGED chan
  <2>1. /\ instance = "alive" /\ table # 0
        /\ chan' = [chan EXCEPT ![table] = @ \cup {arrived'}]
    BY <1>3 DEF Consume
  <2>2. table \in Start
    BY <2>1, Bounds DEF Start, TypeOK
  <2>3. writer[table] # "done"
    BY <2>1 DEF Written
  <2>4. ASSUME NEW n \in Message PROVE OnItsWay(n)' <=> OnItsWay(n) \/ n = arrived'
    <3>1. CASE n = arrived'
      <4>1. n \in chan'[table] /\ writer'[table] # "done"
        BY <1>1, <2>1, <2>2, <2>3, <3>1 DEF TypeOK
      <4> QED BY <2>2, <3>1, <4>1 DEF OnItsWay
    <3>2. CASE n # arrived'
      <4>1. \A t \in Start : n \in chan'[t] <=> n \in chan[t]
        BY <2>1, <2>2, <3>2 DEF TypeOK
      <4> QED BY <1>1, <3>2, <4>1 DEF OnItsWay
    <3> QED BY <3>1, <3>2
  <2>5. Carried' = Carried \cup {arrived'}
    BY <1>1, <2>4 DEF Carried
  <2>6. Promise!Receive
    BY <1>1, <2>1, <2>5 DEF Promise!Receive, Carried
  <2> QED BY <2>6 DEF Step, Promise!Next
<1> QED BY <1>2, <1>3

\* The end of the runtime loses what was in the channels.
LEMMA DropStep ==
  ASSUME DropRuntime
  PROVE  Step
<1>1. /\ instance = "destroyed" /\ instance' = "released"
      /\ writer' = [s \in Start |-> IF writer[s] = "none" THEN "none" ELSE "done"]
      /\ UNCHANGED <<chan, down, arrived, handled, repeated, overlap>>
  BY DEF DropRuntime, clients, messages
<1>2. Carried' \subseteq Carried
  BY <1>1 DEF Carried, OnItsWay
<1>3. Promise!Lose
  BY <1>1, <1>2 DEF Promise!Lose, Carried
<1> QED
  BY <1>3 DEF Step, Promise!Next

\* Connections implements Delivery, for any number of starts, stops, messages and
\* workers: while the instance lives, a message a connection has taken is kept until
\* a handler is given it, and once unless calls of start() overlapped.
THEOREM KeepsDelivery == Spec => ImplementsDelivery
<1>1. Init => Promise!Init
  BY DEF Init, Promise!Init, OnItsWay
<1>2. Inv /\ [Next]_vars => Step
  <2> SUFFICES ASSUME Inv, [Next]_vars PROVE Step
    OBVIOUS
  <2> USE DEF Inv
  <2>1. CASE Connect \/ Stop \/ Destroy \/ DestroyReturns \/ UNCHANGED vars
    BY <2>1, ShapeStep
  <2>2. CASE Consume \/ DropRuntime
    BY <2>2, ConsumeStep, DropStep
  <2>3. ASSUME NEW s \in Start,
               \/ Connected(s) \/ HandleMessage(s)
               \/ Accept(s) \/ Close(s) \/ Poll(s) \/ Write(s) \/ WriteEnds(s) \/ ReadEnds(s)
        PROVE  Step
    BY <2>3, TaskStep, HandleStep, WriteStep
  <2> QED
    BY <2>1, <2>2, <2>3, Steps
<1> QED
  BY <1>1, <1>2, Invariance, PTL DEF Spec, Step, ImplementsDelivery, Promise!Spec

=============================================================================
