---------------------------- MODULE LifecycleProofs ----------------------------
(* Theorems about Lifecycle, for every value of its constants. *)
EXTENDS Lifecycle, TLAPS

\* A thread on its way to bind() has the JavaScript thread waiting for it: there is
\* never more than one.
Alone ==
  \A s \in Start : listener[s] \in {"look", "remove", "bind"} => js = <<"start_ipc", s>>

\* A call that was not made has no thread.
Unmade == \A s \in Start : owner[s] = 0 => listener[s] = "none"

\* What the thread of s has established at the path.
Established(s) ==
  /\ dial[s] \in {0, s}
  /\ listener[s] = "remove" => file # 0
  /\ listener[s] = "bind" => file = 0
  /\ Announced(s) /\ js = <<"start_ipc", s>> => file = s

\* Without another process it holds, and the path ends no process.
PathKept ==
  foreign = 0 => exited[1] \notin PathErrors /\ \A s \in Start : Established(s)

Inv == TypeOK /\ Alone /\ Unmade /\ PathKept

-----------------------------------------------------------------------------
(* Types *)

\* What the types of TypeOK contain.
LEMMA Members ==
  /\ "none" \in Calls /\ "ipc" \in Calls /\ "connecting" \in Calls /\ "started" \in Calls
  /\ "none" \in Listeners /\ "look" \in Listeners /\ "remove" \in Listeners
  /\ "bind" \in Listeners /\ "bound" \in Listeners /\ "loop" \in Listeners
  /\ "closed" \in Listeners
  /\ "none" \in Transports /\ "spawned" \in Transports /\ "bound" \in Transports
  /\ "loop" \in Transports /\ "leaving" \in Transports /\ "done" \in Transports
  /\ Idle \in NativeCalls
  /\ \A s \in Start : <<"start_ipc", s>> \in NativeCalls
  /\ \A i \in Id : <<"send", i>> \in NativeCalls /\ <<"destroy", i>> \in NativeCalls
  /\ 0 \in Files /\ Other \in Files /\ \A s \in Start : s \in Files
  /\ \A s \in Start : <<"uds", s>> \in Notices /\ <<"umqt", s>> \in Notices
  /\ NotExited \in Exits
  /\ \A i \in Id \cup {0} : /\ <<"producer", i>> \in Exits /\ <<"ipc_send", i>> \in Exits
                          /\ <<"open", i>> \in Exits /\ <<"bind", i>> \in Exits
                          /\ <<"connect", i>> \in Exits
<1>1. /\ "none" \in Calls /\ "ipc" \in Calls /\ "connecting" \in Calls /\ "started" \in Calls
      /\ "none" \in Listeners /\ "look" \in Listeners /\ "remove" \in Listeners
      /\ "bind" \in Listeners /\ "bound" \in Listeners /\ "loop" \in Listeners
      /\ "closed" \in Listeners
      /\ "none" \in Transports /\ "spawned" \in Transports /\ "bound" \in Transports
      /\ "loop" \in Transports /\ "leaving" \in Transports /\ "done" \in Transports
  BY DEF Calls, Listeners, Transports
<1>2. /\ Idle \in NativeCalls
      /\ \A s \in Start : <<"start_ipc", s>> \in NativeCalls
      /\ \A i \in Id : <<"send", i>> \in NativeCalls /\ <<"destroy", i>> \in NativeCalls
  BY DEF NativeCalls
<1>3. /\ 0 \in Files /\ Other \in Files /\ \A s \in Start : s \in Files
      /\ \A s \in Start : <<"uds", s>> \in Notices /\ <<"umqt", s>> \in Notices
  BY DEF Files, Notices
<1>4. NotExited \in Exits
  BY DEF Exits, NotExited
<1>5. \A i \in Id \cup {0} : /\ <<"producer", i>> \in Exits /\ <<"ipc_send", i>> \in Exits
                           /\ <<"open", i>> \in Exits /\ <<"bind", i>> \in Exits
                           /\ <<"connect", i>> \in Exits
  BY DEF Exits, PathErrors
<1> QED
  BY <1>1, <1>2, <1>3, <1>4, <1>5

LEMMA Bounds == MaxIds \in Nat /\ MaxStarts \in Nat /\ MaxStops \in Nat /\ MaxForeign \in Nat
  BY LifecycleAssumption DEF LifecycleAssumption

LEMMA TypeInit == Init => TypeOK
  BY Members, LifecycleAssumption DEF LifecycleAssumption, Init, TypeOK

\* The actions, one by one.
LEMMA Steps ==
  ASSUME Next
  PROVE  \/ Create \/ ForeignStart
         \/ \E i \in Id : \/ StartIpc(i) \/ Stop(i) \/ Destroy(i) \/ DestroyReturns(i)
                          \/ Send(i) \/ SendReturns(i)
         \/ \E s \in Start : \/ Dial(s) \/ Connected(s)
                             \/ Look(s) \/ Remove(s) \/ Bind(s) \/ Listen(s) \/ Accept(s) \/ Close(s)
                             \/ BindPort(s) \/ Receive(s) \/ Consume(s) \/ Leave(s) \/ Unbind(s)
  BY DEF Next, Instance, Class, Listener, Transport

\* Every step keeps the types.
LEMMA TypeStep ==
  ASSUME TypeOK, [Next]_vars
  PROVE  TypeOK'
<1> USE Members DEF TypeOK, JsFree, Exit, maps, starts, threads, calls
<1>1. CASE Create
  <2>1. created' \in 0 .. MaxIds /\ created' \in Id
    BY <1>1, Bounds DEF Create, Id
  <2> QED
    BY <1>1, <2>1 DEF Create
<1>2. CASE ForeignStart
  <2>1. foreign' \in 0 .. MaxForeign
    BY <1>2, Bounds DEF ForeignStart
  <2>2. file' \in Files
    BY <1>2 DEF ForeignStart
  <2> QED
    BY <1>2, <2>1, <2>2 DEF ForeignStart
<1>3. ASSUME NEW i \in Id, StartIpc(i) PROVE TypeOK'
  <2>1. PICK s \in Start : /\ owner' = [owner EXCEPT ![s] = i]
                            /\ call' = [call EXCEPT ![s] = "ipc"]
                            /\ js' = <<"start_ipc", s>>
                            /\ \/ listener' = [listener EXCEPT ![s] = "look"]
                               \/ UNCHANGED listener
    BY <1>3 DEF StartIpc
  <2>2. UNCHANGED <<maps, dial, file, transport, told, accepted, stops, foreign, exited>>
    BY <1>3 DEF StartIpc
  <2> QED
    BY <2>1, <2>2
<1>4. ASSUME NEW i \in Id, Stop(i) PROVE TypeOK'
  <2>1. told' \subseteq Notices
    BY <1>4 DEF Stop, Of
  <2>2. stops' \in 0 .. MaxStops
    BY <1>4, Bounds DEF Stop
  <2>3. UNCHANGED <<maps, starts, js, file, listener, transport, accepted, foreign, exited>>
    BY <1>4 DEF Stop
  <2> QED
    BY <2>1, <2>2, <2>3
<1>5. ASSUME NEW i \in Id, Destroy(i) PROVE TypeOK'
  BY <1>5 DEF Destroy, Instances
<1>6. ASSUME NEW i \in Id, DestroyReturns(i) PROVE TypeOK'
  BY <1>6 DEF DestroyReturns
<1>7. ASSUME NEW i \in Id, Send(i) PROVE TypeOK'
  BY <1>7 DEF Send, Instances, Holders
<1>8. ASSUME NEW i \in Id, SendReturns(i) PROVE TypeOK'
  BY <1>8 DEF SendReturns
<1>9. ASSUME NEW s \in Start, Dial(s) PROVE TypeOK'
  BY <1>9 DEF Dial
<1>10. ASSUME NEW s \in Start, Connected(s) PROVE TypeOK'
  BY <1>10 DEF Connected
<1>11. ASSUME NEW s \in Start, Look(s) PROVE TypeOK'
  BY <1>11 DEF Look
<1>12. ASSUME NEW s \in Start, Remove(s) PROVE TypeOK'
  BY <1>12 DEF Remove
<1>13. ASSUME NEW s \in Start, Bind(s) PROVE TypeOK'
  BY <1>13 DEF Bind
<1>14. ASSUME NEW s \in Start, Listen(s) PROVE TypeOK'
  BY <1>14 DEF Listen
<1>15. ASSUME NEW s \in Start, Accept(s) PROVE TypeOK'
  BY <1>15 DEF Accept
<1>16. ASSUME NEW s \in Start, Close(s) PROVE TypeOK'
  BY <1>16 DEF Close
<1>17. ASSUME NEW s \in Start, BindPort(s) PROVE TypeOK'
  BY <1>17 DEF BindPort
<1>18. ASSUME NEW s \in Start, Receive(s) PROVE TypeOK'
  BY <1>18 DEF Receive
<1>19. ASSUME NEW s \in Start, Consume(s) PROVE TypeOK'
  BY <1>19 DEF Consume
<1>20. ASSUME NEW s \in Start, Leave(s) PROVE TypeOK'
  BY <1>20 DEF Leave
<1>21. ASSUME NEW s \in Start, Unbind(s) PROVE TypeOK'
  BY <1>21 DEF Unbind
<1>22. CASE UNCHANGED vars
  BY <1>22 DEF vars
<1> QED
  BY <1>1, <1>2, <1>3, <1>4, <1>5, <1>6, <1>7, <1>8, <1>9, <1>10, <1>11, <1>12, <1>13, <1>14, <1>15, <1>16, <1>17, <1>18, <1>19, <1>20, <1>21, <1>22, Steps

\* Every variable keeps its type, however many instances and starts there are.
THEOREM TypeCorrect == Spec => []TypeOK
<1>1. TypeOK /\ [Next]_vars => TypeOK'
  BY TypeStep
<1> QED
  BY <1>1, TypeInit, PTL DEF Spec

-----------------------------------------------------------------------------
(* The path *)

LEMMA InvInit == Init => Inv
  BY TypeInit, LifecycleAssumption, Members
  DEF LifecycleAssumption, Init, Inv, Alone, Unmade, PathKept, Established, Announced,
      PathErrors, NotExited, Idle, Start

\* What the invariant speaks of, besides the types, stays.
LEMMA Untouched ==
  ASSUME Inv, TypeOK', UNCHANGED <<owner, listener, js, file, dial, foreign>>,
         exited'[1] \in PathErrors => exited' = exited
  PROVE  Inv'
  BY DEF Inv, Alone, Unmade, PathKept, Established, Announced

\* The step of JavaScript or of a listener that uses a path only it looks at.
LEMMA PathStep ==
  ASSUME Inv, [Next]_vars
  PROVE  Inv'
<1>1. TypeOK'
  BY TypeStep DEF Inv
<1> USE <1>1
<1>2. CASE Create
  BY <1>2, Untouched DEF Create, starts, threads
<1>3. CASE ForeignStart
  <2>1. foreign' # 0
    BY <1>3 DEF ForeignStart, Inv, TypeOK
  <2>2. Alone' /\ Unmade'
    BY <1>3 DEF ForeignStart, Inv, Alone, Unmade, starts, threads
  <2> QED
    BY <2>1, <2>2 DEF Inv, PathKept
<1>4. ASSUME NEW i \in Id, StartIpc(i) PROVE Inv'
  <2>1. PICK s \in Start : /\ Made = 1 .. s - 1
                            /\ owner' = [owner EXCEPT ![s] = i]
                            /\ js' = <<"start_ipc", s>>
                            /\ \/ listener' = [listener EXCEPT ![s] = "look"]
                               \/ UNCHANGED listener
    BY <1>4 DEF StartIpc
  <2>2. js = Idle /\ UNCHANGED <<dial, file, foreign, exited>>
    BY <1>4 DEF StartIpc, JsFree
  <2>3. owner[s] = 0
    BY <2>1 DEF Made, Start
  <2>4. listener[s] = "none"
    BY <2>3 DEF Inv, Unmade
  <2>5. \A t \in Start : listener[t] \notin {"look", "remove", "bind"}
    BY <2>2 DEF Inv, Alone, Idle
  <2>6. /\ owner \in [Start -> Id \cup {0}] /\ listener \in [Start -> Listeners] /\ i # 0
    BY DEF Inv, TypeOK, Id
  <2>7. \A t \in Start \ {s} : owner'[t] = owner[t] /\ listener'[t] = listener[t]
    BY <2>1, <2>6
  <2>8. owner'[s] = i /\ listener'[s] \in {"none", "look"}
    BY <2>1, <2>4, <2>6
  <2>9. Alone'
    BY <2>1, <2>5, <2>7, <2>8 DEF Alone
  <2>10. Unmade'
    BY <2>6, <2>7, <2>8 DEF Inv, Unmade
  <2>11. PathKept'
    BY <2>1, <2>2, <2>7, <2>8, <2>5 DEF Inv, PathKept, Established, Announced
  <2> QED
    BY <2>9, <2>10, <2>11 DEF Inv
<1>5. ASSUME NEW i \in Id, Stop(i) PROVE Inv'
  BY <1>5, Untouched DEF Stop, starts
<1>6. ASSUME NEW i \in Id, Destroy(i) \/ Send(i) PROVE Inv'
  <2>1. js = Idle /\ (js' = <<"destroy", i>> \/ js' = <<"send", i>> \/ js' = js)
    BY <1>6 DEF Destroy, Send, JsFree
  <2>2. UNCHANGED <<owner, listener, file, dial, foreign>>
    BY <1>6 DEF Destroy, Send, starts, threads
  <2>3. exited'[1] \in PathErrors => exited' = exited
    BY <1>6 DEF Destroy, Send, Exit, PathErrors
  <2> QED
    BY <2>1, <2>2, <2>3 DEF Inv, Alone, Unmade, PathKept, Established, Announced, Idle
<1>7. ASSUME NEW i \in Id, DestroyReturns(i) \/ SendReturns(i) PROVE Inv'
  <2>1. (js = <<"destroy", i>> \/ js = <<"send", i>>) /\ js' = Idle
    BY <1>7 DEF DestroyReturns, SendReturns
  <2>2. UNCHANGED <<owner, listener, file, dial, foreign, exited>>
    BY <1>7 DEF DestroyReturns, SendReturns, starts, threads
  <2> QED
    BY <2>1, <2>2 DEF Inv, Alone, Unmade, PathKept, Established, Announced, Idle
<1>8. ASSUME NEW s \in Start, Dial(s) PROVE Inv'
  <2>1. js = <<"start_ipc", s>> /\ Announced(s) /\ js' = Idle /\ dial' = [dial EXCEPT ![s] = file]
    BY <1>8 DEF Dial
  <2>2. UNCHANGED <<owner, listener, file, foreign>>
    BY <1>8 DEF Dial, threads
  <2>3. dial \in [Start -> Files]
    BY DEF Inv, TypeOK
  <2>4. \A t \in Start : listener[t] \notin {"look", "remove", "bind"}
    BY <2>1 DEF Inv, Alone, Announced
  <2>5. foreign = 0 => file = s /\ s # 0
    BY <2>1 DEF Inv, PathKept, Established, Start
  <2>6. foreign = 0 => UNCHANGED exited
    BY <1>8, <2>5 DEF Dial
  <2>7. Alone' /\ Unmade'
    BY <2>2, <2>4 DEF Inv, Alone, Unmade
  <2>8. PathKept'
    BY <2>1, <2>2, <2>3, <2>4, <2>5, <2>6 DEF Inv, PathKept, Established, Announced, Idle
  <2> QED
    BY <2>7, <2>8 DEF Inv
<1>9. ASSUME NEW s \in Start, Connected(s) \/ Accept(s) \/ BindPort(s) \/ Receive(s) \/ Leave(s) \/ Unbind(s)
      PROVE Inv'
  BY <1>9, Untouched DEF Connected, Accept, BindPort, Receive, Leave, Unbind, calls, starts
<1>10. ASSUME NEW s \in Start, Consume(s) PROVE Inv'
  <2>1. exited'[1] \in PathErrors => exited' = exited
    BY <1>10 DEF Consume, Exit, PathErrors
  <2> QED
    BY <1>10, <2>1, Untouched DEF Consume, calls, starts
<1>11. ASSUME NEW s \in Start, Look(s) \/ Remove(s) \/ Bind(s) \/ Listen(s) \/ Close(s)
       PROVE Inv'
  <2>1. UNCHANGED <<owner, js, dial, foreign>>
    BY <1>11 DEF Look, Remove, Bind, Listen, Close, calls, starts
  <2>2. listener \in [Start -> Listeners]
    BY DEF Inv, TypeOK
  <2>3. listener[s] # "none" => owner[s] # 0
    BY DEF Inv, Unmade
  <2>4. CASE Look(s)
    <3>1. /\ listener[s] = "look" /\ UNCHANGED <<file, exited>>
          /\ listener' = [listener EXCEPT ![s] = IF file = 0 THEN "bind" ELSE "remove"]
      BY <2>4 DEF Look
    <3> QED
      BY <2>1, <2>2, <2>3, <3>1 DEF Inv, Alone, Unmade, PathKept, Established, Announced
  <2>5. CASE Remove(s)
    <3>1. /\ listener[s] = "remove" /\ file' = 0
          /\ listener' = [listener EXCEPT ![s] = "bind"]
          /\ file # 0 => UNCHANGED exited
      BY <2>5 DEF Remove
    <3> QED
      BY <2>1, <2>2, <2>3, <3>1 DEF Inv, Alone, Unmade, PathKept, Established, Announced
  <2>6. CASE Bind(s)
    <3>1. /\ listener[s] = "bind"
          /\ listener' = [listener EXCEPT ![s] = "bound"]
          /\ file = 0 => UNCHANGED exited /\ file' = s
      BY <2>6 DEF Bind
    <3> QED
      BY <2>1, <2>2, <2>3, <3>1 DEF Inv, Alone, Unmade, PathKept, Established, Announced
  <2>7. CASE Listen(s) \/ Close(s)
    <3>1. /\ UNCHANGED <<file, exited>>
          /\ \/ listener[s] = "bound" /\ listener' = [listener EXCEPT ![s] = "loop"]
             \/ listener[s] = "loop" /\ listener' = [listener EXCEPT ![s] = "closed"]
      BY <2>7 DEF Listen, Close
    <3> QED
      BY <2>1, <2>2, <2>3, <3>1 DEF Inv, Alone, Unmade, PathKept, Established, Announced
  <2> QED
    BY <1>11, <2>4, <2>5, <2>6, <2>7
<1>12. CASE UNCHANGED vars
  BY <1>12, Untouched DEF vars, starts, threads
<1> QED
  BY <1>2, <1>3, <1>4, <1>5, <1>6, <1>7, <1>8, <1>9, <1>10, <1>11, <1>12, Steps

\* The inductive invariant: of the threads that are on their way to bind() there is
\* one, the JavaScript thread waits for it, and what it has seen at the path is still so.
THEOREM Invariance == Spec => []Inv
<1>1. Inv /\ [Next]_vars => Inv'
  BY PathStep
<1> QED
  BY <1>1, InvInit, PTL DEF Spec

\* The client of a start is connected to the listener of that start, although all
\* instances bind the same path (uds.rs:518-531).
THEOREM OwnListenerHolds == Spec => []OwnListener
<1>1. Inv => OwnListener
  BY DEF Inv, PathKept, Established, OwnListener
<1> QED
  BY <1>1, Invariance, PTL

\* By itself the process never ends over the path: not in remove_file, not in bind,
\* and not in connect.
THEOREM PathErrorsForeign == Spec => []PathErrorsAreForeign
<1>1. Inv => PathErrorsAreForeign
  BY DEF Inv, PathKept, PathErrorsAreForeign, TypeOK
<1> QED
  BY <1>1, Invariance, PTL

-----------------------------------------------------------------------------
(* The waits of the JavaScript thread *)

\* A stop has reached only threads that wait in their loop.
Reached == \A s \in Start : <<"uds", s>> \in told => listener[s] = "loop"

\* start() is in umqt_start_ipc as long as its thread is.
Calling == \A s \in Start : call[s] = "ipc" <=> js = <<"start_ipc", s>>

\* While it is, no stop can be called: the thread stays, if there is one.
Served ==
  \A s \in Start : js = <<"start_ipc", s>> =>
    /\ <<"uds", s>> \notin told
    /\ listener[s] # "closed"
    /\ listener[s] = "none" => owner[s] \notin uds_map

Waits == Reached /\ Calling /\ Served

LEMMA WaitsInit == Init => Waits
  BY DEF Init, Idle, Waits, Reached, Calling, Served

\* What the waits for a listener rest on stays.
LEMMA WaitsUntouched ==
  ASSUME Waits, UNCHANGED <<owner, call, js, listener, uds_map>>,
         \A s \in Start : <<"uds", s>> \in told' => <<"uds", s>> \in told
  PROVE  Waits'
  BY DEF Waits, Reached, Calling, Served

LEMMA WaitsStep ==
  ASSUME Inv, Waits, [Next]_vars
  PROVE  Waits'
<1>1. /\ owner \in [Start -> Id \cup {0}] /\ call \in [Start -> Calls]
      /\ listener \in [Start -> Listeners] /\ transport \in [Start -> Transports]
  BY DEF Inv, TypeOK
<1>2. CASE Create
  <2>1. \A s \in Start : owner[s] \in uds_map' => owner[s] \in uds_map \/ owner[s] = created + 1
    BY <1>2 DEF Create
  <2> QED
    BY <1>2, <2>1 DEF Create, JsFree, Idle, starts, threads, Waits, Reached, Calling, Served
<1>3. CASE ForeignStart
  BY <1>3, WaitsUntouched DEF ForeignStart, maps, starts, threads
<1>4. ASSUME NEW i \in Id, StartIpc(i) PROVE Waits'
  <2>1. PICK s \in Start : /\ Made = 1 .. s - 1
                           /\ owner' = [owner EXCEPT ![s] = i]
                           /\ call' = [call EXCEPT ![s] = "ipc"]
                           /\ js' = <<"start_ipc", s>>
                           /\ listener' = IF i \in uds_map THEN [listener EXCEPT ![s] = "look"]
                                                           ELSE listener
    BY <1>4 DEF StartIpc
  <2>2. js = Idle /\ UNCHANGED <<uds_map, transport, told>>
    BY <1>4 DEF StartIpc, JsFree, maps
  <2>3. listener[s] = "none"
    BY <2>1 DEF Made, Start, Inv, Unmade
  <2>4. <<"uds", s>> \notin told
    BY <2>3 DEF Waits, Reached
  <2>5. \A t \in Start : t # s => js' # <<"start_ipc", t>> /\ js # <<"start_ipc", t>>
    BY <2>1, <2>2 DEF Idle
  <2>6. Reached'
    BY <1>1, <2>1, <2>2, <2>4 DEF Waits, Reached
  <2>7. Calling'
    BY <1>1, <2>1, <2>5 DEF Waits, Calling
  <2>8. Served'
    BY <1>1, <2>1, <2>2, <2>3, <2>4, <2>5 DEF Served
  <2> QED BY <2>6, <2>7, <2>8 DEF Waits
<1>5. ASSUME NEW i \in Id, Stop(i) PROVE Waits'
  <2>1. js = Idle /\ UNCHANGED <<owner, call, js, listener, transport, uds_map>>
    BY <1>5 DEF Stop, JsFree, maps, starts
  <2>2. \A s \in Start : <<"uds", s>> \in told' => <<"uds", s>> \in told \/ listener[s] = "loop"
    BY <1>5 DEF Stop
  <2> QED
    BY <2>1, <2>2 DEF Waits, Reached, Calling, Served, Idle
<1>6. ASSUME NEW i \in Id, Destroy(i) PROVE Waits'
  <2>1. js = Idle /\ js' = <<"destroy", i>> /\ UNCHANGED <<call, listener, told>>
    BY <1>6 DEF Destroy, JsFree, starts, threads
  <2> QED
    BY <2>1 DEF Waits, Reached, Calling, Served, Idle
<1>7. ASSUME NEW i \in Id, DestroyReturns(i) \/ SendReturns(i) PROVE Waits'
  <2>1. (js = <<"destroy", i>> \/ js = <<"send", i>>) /\ js' = Idle /\ UNCHANGED <<call, listener, told>>
    BY <1>7 DEF DestroyReturns, SendReturns, starts, threads
  <2> QED
    BY <2>1 DEF Waits, Reached, Calling, Served, Idle
<1>8. ASSUME NEW i \in Id, Send(i) PROVE Waits'
  <2>1. /\ js = Idle /\ UNCHANGED <<call, listener, told, owner, transport, uds_map>>
        /\ js' = js \/ js' = <<"send", i>>
    BY <1>8 DEF Send, JsFree, maps, starts, threads
  <2> QED
    BY <2>1 DEF Waits, Reached, Calling, Served, Idle
<1>9. ASSUME NEW s \in Start, Dial(s) PROVE Waits'
  <2>1. js = <<"start_ipc", s>> /\ js' = Idle /\ call' = [call EXCEPT ![s] = "connecting"]
        /\ UNCHANGED <<listener, told>>
    BY <1>9 DEF Dial, threads
  <2>2. \A t \in Start : call'[t] # "ipc"
    BY <1>1, <2>1 DEF Waits, Calling
  <2> QED
    BY <2>1, <2>2 DEF Waits, Reached, Calling, Served, Idle
<1>10. ASSUME NEW s \in Start, Connected(s) PROVE Waits'
  <2>1. /\ js = Idle /\ call[s] = "connecting" /\ call' = [call EXCEPT ![s] = "started"]
        /\ UNCHANGED <<owner, js, listener, told, uds_map>>
    BY <1>10 DEF Connected, JsFree, maps
  <2>2. \A t \in Start : call'[t] = "ipc" <=> call[t] = "ipc"
    BY <1>1, <2>1
  <2> QED
    BY <2>1, <2>2 DEF Waits, Reached, Calling, Served, Idle
<1>11. ASSUME NEW s \in Start, Look(s) \/ Remove(s) \/ Bind(s) \/ Listen(s) PROVE Waits'
  <2>1. UNCHANGED <<owner, call, js, uds_map, transport, told>>
    BY <1>11 DEF Look, Remove, Bind, Listen, calls, maps, starts
  <2>2. /\ listener[s] \in {"look", "remove", "bind", "bound"}
        /\ \E l \in {"remove", "bind", "bound", "loop"} : listener' = [listener EXCEPT ![s] = l]
    BY <1>11 DEF Look, Remove, Bind, Listen
  <2>3. <<"uds", s>> \notin told
    BY <2>2 DEF Waits, Reached
  <2>4. \A t \in Start \ {s} : listener'[t] = listener[t]
    BY <1>1, <2>2
  <2>5. listener'[s] \notin {"none", "closed"}
    BY <1>1, <2>2
  <2>6. Reached'
    BY <2>1, <2>3, <2>4 DEF Waits, Reached
  <2>7. Calling'
    BY <2>1 DEF Waits, Calling
  <2>8. Served'
    BY <2>1, <2>4, <2>5 DEF Waits, Served
  <2> QED BY <2>6, <2>7, <2>8 DEF Waits
<1>12. ASSUME NEW s \in Start, Close(s) PROVE Waits'
  <2>1. UNCHANGED <<owner, call, js, uds_map, transport>>
    BY <1>12 DEF Close, calls, maps, starts
  <2>2. /\ <<"uds", s>> \in told /\ told' = told \ {<<"uds", s>>}
        /\ listener' = [listener EXCEPT ![s] = "closed"]
    BY <1>12 DEF Close
  <2>3. js # <<"start_ipc", s>>
    BY <2>2 DEF Waits, Served
  <2>4. \A t \in Start \ {s} : listener'[t] = listener[t]
    BY <1>1, <2>2
  <2>5. Reached'
    BY <2>2, <2>4 DEF Waits, Reached
  <2>6. Calling'
    BY <2>1 DEF Waits, Calling
  <2>7. Served'
    BY <2>1, <2>2, <2>3, <2>4 DEF Waits, Served
  <2> QED BY <2>5, <2>6, <2>7 DEF Waits
<1>13. ASSUME NEW s \in Start, Accept(s) PROVE Waits'
  BY <1>13, WaitsUntouched DEF Accept, calls, maps, starts
<1>14. ASSUME NEW s \in Start, BindPort(s) \/ Receive(s) \/ Consume(s) \/ Leave(s) \/ Unbind(s)
       PROVE Waits'
  <2>1. UNCHANGED <<owner, call, js, listener, uds_map>>
    BY <1>14 DEF BindPort, Receive, Consume, Leave, Unbind, calls, maps, starts
  <2>2. \A t \in Start : <<"uds", t>> \in told' => <<"uds", t>> \in told
    BY <1>14 DEF BindPort, Receive, Consume, Leave, Unbind
  <2> QED
    BY <2>1, <2>2, WaitsUntouched
<1>15. CASE UNCHANGED vars
  BY <1>15, WaitsUntouched DEF vars, maps, starts, threads
<1> QED
  BY <1>2, <1>3, <1>4, <1>5, <1>6, <1>7, <1>8, <1>9, <1>10, <1>11, <1>12, <1>13, <1>14, <1>15, Steps

\* Without a stop no transport that had its socket gives it back, and a send that
\* waits has found one.
Sending ==
  /\ \A s \in Start : <<"umqt", s>> \in told \/ transport[s] = "leaving" => stops > 0
  /\ \A i \in Id : js = <<"send", i>> => Holders(i) # {} \/ stops > 0

LEMMA SendingUntouched ==
  ASSUME Sending, UNCHANGED <<transport, stops>>,
         \A s \in Start : <<"umqt", s>> \in told' => <<"umqt", s>> \in told,
         \A i \in Id : js' # <<"send", i>> \/ UNCHANGED <<js, owner>>
  PROVE  Sending'
  BY DEF Sending, Holders, Of

LEMMA SendingStep ==
  ASSUME Inv, Sending, [Next]_vars
  PROVE  Sending'
<1>1. transport \in [Start -> Transports] /\ stops \in Nat
  BY LifecycleAssumption DEF Inv, TypeOK
<1>2. CASE Create \/ ForeignStart \/ UNCHANGED vars
  BY <1>2, SendingUntouched DEF Create, ForeignStart, vars, starts, threads
<1>3. ASSUME NEW i \in Id, StartIpc(i) PROVE Sending'
  BY <1>3, SendingUntouched DEF StartIpc
<1>4. ASSUME NEW i \in Id, Stop(i) PROVE Sending'
  <2>1. stops' > 0
    BY <1>1, <1>4 DEF Stop
  <2> QED
    BY <2>1 DEF Sending
<1>5. ASSUME NEW i \in Id, Destroy(i) \/ DestroyReturns(i) \/ SendReturns(i) PROVE Sending'
  BY <1>5, SendingUntouched DEF Destroy, DestroyReturns, SendReturns, starts, threads, Idle
<1>6. ASSUME NEW i \in Id, Send(i) PROVE Sending'
  <2>1. /\ js = Idle /\ UNCHANGED <<owner, transport, told, stops>>
        /\ js' = js \/ (js' = <<"send", i>> /\ Holders(i) # {})
    BY <1>6 DEF Send, JsFree, starts, threads
  <2>2. \A k \in Id : js' = <<"send", k>> => Holders(k)' # {}
    BY <2>1 DEF Holders, Of, Idle
  <2> QED
    BY <2>1, <2>2 DEF Sending
<1>7. ASSUME NEW s \in Start, Dial(s) PROVE Sending'
  BY <1>7, SendingUntouched DEF Dial, threads, Idle
<1>8. ASSUME NEW s \in Start, Connected(s) PROVE Sending'
  <2>1. js' = Idle /\ UNCHANGED <<told, stops>>
    BY <1>8 DEF Connected, JsFree
  <2>2. \A t \in Start : transport'[t] = "leaving" => transport[t] = "leaving"
    BY <1>1, <1>8 DEF Connected
  <2> QED
    BY <2>1, <2>2 DEF Sending, Idle
<1>9. ASSUME NEW s \in Start, Listener(s) PROVE Sending'
  BY <1>9, SendingUntouched
     DEF Listener, Look, Remove, Bind, Listen, Accept, Close, calls, starts
<1>10. ASSUME NEW s \in Start, Transport(s) PROVE Sending'
  <2>1. UNCHANGED <<owner, js, stops>>
        /\ \A t \in Start : <<"umqt", t>> \in told' => <<"umqt", t>> \in told
    BY <1>10 DEF Transport, BindPort, Receive, Consume, Leave, Unbind, calls, starts
  <2>2. CASE stops > 0
    BY <2>1, <2>2 DEF Sending
  <2>3. CASE ~(stops > 0)
    <3>1. ~Leave(s) /\ ~Unbind(s)
      BY <2>3 DEF Sending, Leave, Unbind
    <3>2. /\ \A t \in Start : transport'[t] = "leaving" => transport[t] = "leaving"
          /\ \A t \in Start : transport[t] \in {"bound", "loop", "leaving"}
                            => transport'[t] \in {"bound", "loop", "leaving"}
      BY <1>1, <1>10, <3>1 DEF Transport, BindPort, Receive, Consume
    <3>3. \A k \in Id : Holders(k) # {} => Holders(k)' # {}
      BY <2>1, <3>2 DEF Holders, Of
    <3> QED
      BY <2>1, <3>2, <3>3 DEF Sending
  <2> QED
    BY <2>2, <2>3
<1> QED
  BY <1>2, <1>3, <1>4, <1>5, <1>6, <1>7, <1>8, <1>9, <1>10 DEF Next, Instance, Class

\* The JavaScript thread never waits for a thread that was not spawned or was stopped, and
\* without a stop never for a socket nobody reads, however starts, stops, sends and the ends
\* of instances follow each other (lib.rs:256, uds.rs:551, umqt.rs:557, 657).
THEOREM NoVainWait == Spec => []WaitsForSomebody
<1>1. Inv /\ Waits /\ Sending /\ [Next]_vars => Waits' /\ Sending'
  BY WaitsStep, SendingStep
<1>2. Inv /\ Waits /\ Sending => WaitsForSomebody
  <2> SUFFICES ASSUME Inv, Waits, Sending PROVE WaitsForSomebody
    OBVIOUS
  <2>1. js[1] = "start_ipc" => js[2] \in Start /\ js = <<"start_ipc", js[2]>>
    BY DEF Inv, TypeOK, NativeCalls, Idle
  <2>2. js[1] = "send" => js[2] \in Id /\ js = <<"send", js[2]>>
    BY DEF Inv, TypeOK, NativeCalls, Idle
  <2> QED
    BY <2>1, <2>2 DEF Waits, Calling, Served, Sending, WaitsForSomebody
<1>3. Init => Sending
  BY DEF Init, Idle, Sending
<1> QED
  BY <1>1, <1>2, <1>3, WaitsInit, Invariance, PTL DEF Spec

=============================================================================
