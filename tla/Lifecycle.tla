------------------------------- MODULE Lifecycle -------------------------------
(***************************************************************************)
(* The instances of one process: the JavaScript class UMQT                 *)
(* (src/transport/umqt.ts), the binding below it (native/src/lib.rs), and  *)
(* the two threads a start sets going, the listener of the Unix socket     *)
(* (native/src/ipc/uds.rs) and the transport (native/src/transport/        *)
(* umqt.rs). What happens on the connections is in module Connections,     *)
(* what on the network in module Umqt.                                     *)
(*                                                                         *)
(* The path of the socket is the same for all instances of all processes.  *)
(* Another process is known by what it does to the file there.             *)
(***************************************************************************)
EXTENDS Naturals

CONSTANTS
  MaxIds,      \* bound: instances
  MaxStarts,   \* bound: calls of start(), of all instances
  MaxStops,    \* bound: calls of stop()
  MaxForeign,  \* bound: steps of another process at the path
  Other        \* a file this process did not make, or who listens there

ASSUME LifecycleAssumption ==
  /\ {MaxIds, MaxStarts, MaxStops, MaxForeign} \subseteq Nat
  /\ Other \notin Nat

Id == 1 .. MaxIds
\* The calls of start(), in their order.
Start == 1 .. MaxStarts

VARIABLES
  created,    \* UMQT_ID: ids given out
  uds_map,    \* ids in UMQT_UDS_MAP
  umqt_map,   \* ids in UMQT_MAP
  owner,      \* owner[s]: the instance of start s, or 0
  call,       \* call[s]: where the call of start() is
  js,         \* the native call the JavaScript thread is in, and its start or id
  file,       \* at the path: 0, the start that bound it, or Other
  listener,   \* listener[s]: the thread of umqt_start_ipc
  transport,  \* transport[s]: the thread of umqt_start
  told,       \* threads that a stop() has reached and that did not notice yet
  dial,       \* dial[s]: what was at the path when the client connected, or 0
  accepted,   \* starts whose client was accepted: they are in UDS_STREAMS
  stops, foreign,
  exited      \* why the process is over and over which instance; or NotExited

maps == <<created, uds_map, umqt_map>>
starts == <<owner, call, dial>>
threads == <<listener, transport, told, accepted>>
vars == <<maps, starts, js, file, threads, stops, foreign, exited>>

NotExited == <<"no", 0>>
Idle == <<"none", 0>>
Running == exited = NotExited
JsFree == Running /\ js = Idle
Exit(why, i) == exited' = <<why, i>>

Made == {s \in Start : owner[s] # 0}
Of(i) == {s \in Start : owner[s] = i}
\* Objects of the class: their constructor did not throw.
Instances == {i \in Id : i <= created /\ (i \in uds_map => i \in umqt_map)}

Init ==
  /\ created = 0 /\ uds_map = {} /\ umqt_map = {}
  /\ owner = [s \in Start |-> 0]
  /\ call = [s \in Start |-> "none"]
  /\ js = Idle
  /\ file \in {0, Other}
  /\ listener = [s \in Start |-> "none"]
  /\ transport = [s \in Start |-> "none"]
  /\ told = {} /\ accepted = {}
  /\ dial = [s \in Start |-> 0]
  /\ stops = 0 /\ foreign = 0
  /\ exited = NotExited

-----------------------------------------------------------------------------
(* Calls of JavaScript *)

\* Bug: the id is read before it is counted up.
CreateBug ==
  /\ JsFree /\ created < MaxIds
  /\ created' = created + 1
  /\ uds_map' = uds_map \cup {created}
  /\ umqt_map' \in {umqt_map \cup {created}, umqt_map}
  /\ UNCHANGED <<starts, js, file, threads, stops, foreign, exited>>

\* constructor(): umqt_create fills both maps; where it finds an option of the
\* transport missing or out of range, it throws between the two. (An option both
\* need is read first: without it only an id is used up, which is left out.)
Create ==
  /\ JsFree /\ created < MaxIds
  /\ created' = created + 1
  /\ uds_map' = uds_map \cup {created + 1}
  /\ umqt_map' \in {umqt_map \cup {created + 1}, umqt_map}
  /\ UNCHANGED <<starts, js, file, threads, stops, foreign, exited>>

\* Bug: a second listener of the instance is not spawned.
StartIpcBug(i) ==
  /\ JsFree /\ i \in Instances
  /\ \E s \in Start :
       /\ Made = 1 .. s - 1
       /\ owner' = [owner EXCEPT ![s] = i]
       /\ call' = [call EXCEPT ![s] = "ipc"]
       /\ js' = <<"start_ipc", s>>
       /\ listener' = IF i \in uds_map /\ \A t \in Of(i) : listener[t] # "loop"
                      THEN [listener EXCEPT ![s] = "look"] ELSE listener
  /\ UNCHANGED <<maps, dial, file, transport, told, accepted, stops, foreign, exited>>

\* start(): umqt_start_ipc spawns the thread of the listener, if there is a
\* socket of that id, and waits for its on_start.
StartIpc(i) ==
  /\ JsFree /\ i \in Instances
  /\ \E s \in Start :
       /\ Made = 1 .. s - 1
       /\ owner' = [owner EXCEPT ![s] = i]
       /\ call' = [call EXCEPT ![s] = "ipc"]
       /\ js' = <<"start_ipc", s>>
       /\ listener' = IF i \in uds_map THEN [listener EXCEPT ![s] = "look"] ELSE listener
  /\ UNCHANGED <<maps, dial, file, transport, told, accepted, stops, foreign, exited>>

\* Bug: on_start is called before bind.
AnnouncedBug(s) == listener[s] # "none"

\* Bug: who does not wait yet when on_start is called misses it.
AnnouncedLateBug(s) == listener[s] = "bound"

\* on_start was called.
Announced(s) == listener[s] \in {"bound", "loop"}

\* umqt_start_ipc returns, and in the same turn the client connects to whoever is
\* bound at the path. With nobody there its error event, which has no listener
\* yet, ends the process.
Dial(s) ==
  /\ Running /\ js = <<"start_ipc", s>> /\ Announced(s)
  /\ js' = Idle
  /\ call' = [call EXCEPT ![s] = "connecting"]
  /\ dial' = [dial EXCEPT ![s] = file]
  /\ IF file = 0 THEN Exit("connect", owner[s]) ELSE UNCHANGED exited
  /\ UNCHANGED <<maps, owner, file, threads, stops, foreign>>

\* The connect event: umqt_start spawns the thread of the transport and returns;
\* start() resolves.
Connected(s) ==
  /\ JsFree /\ call[s] = "connecting"
  /\ call' = [call EXCEPT ![s] = "started"]
  /\ transport' = IF owner[s] \in umqt_map THEN [transport EXCEPT ![s] = "spawned"]
                                           ELSE transport
  /\ UNCHANGED <<maps, owner, dial, js, file, listener, told, accepted, stops, foreign, exited>>

\* stop(): notify_waiters reaches the threads that wait in their select!.
Stop(i) ==
  /\ JsFree /\ i \in Instances /\ stops < MaxStops
  /\ stops' = stops + 1
  /\ told' = told
       \cup {<<"uds", s>> : s \in {s \in Of(i) : i \in uds_map /\ listener[s] = "loop"}}
       \cup {<<"umqt", s>> : s \in {s \in Of(i) : i \in umqt_map /\ transport[s] = "loop"}}
  /\ UNCHANGED <<maps, starts, js, file, listener, transport, accepted, foreign, exited>>

\* umqt_destroy, which the class does not call: both entries go. The JavaScript
\* thread may be the last owner of the Unix socket: for the wait see Connections.
Destroy(i) ==
  /\ JsFree /\ i \in Instances \cap uds_map
  /\ uds_map' = uds_map \ {i}
  /\ umqt_map' = umqt_map \ {i}
  /\ js' = <<"destroy", i>>
  /\ UNCHANGED <<created, starts, file, threads, stops, foreign, exited>>

DestroyReturns(i) ==
  /\ Running /\ js = <<"destroy", i>>
  /\ js' = Idle
  /\ UNCHANGED <<maps, starts, file, threads, stops, foreign, exited>>

\* The threads of the instance whose socket is set.
Holders(i) == {s \in Of(i) : transport[s] \in {"bound", "loop", "leaving"}}

\* Bug: without a socket the message waits for one.
SendBug(i) ==
  /\ JsFree /\ i \in Instances \cap umqt_map
  /\ js' = <<"send", i>>
  /\ UNCHANGED <<maps, starts, file, threads, stops, foreign, exited>>

\* send() to a server of the topic: the JavaScript thread waits for an answer;
\* without a socket the process exits.
Send(i) ==
  /\ JsFree /\ i \in Instances \cap umqt_map
  /\ IF Holders(i) = {}
     THEN Exit("producer", i) /\ UNCHANGED js
     ELSE js' = <<"send", i>> /\ UNCHANGED exited
  /\ UNCHANGED <<maps, starts, file, threads, stops, foreign>>

\* The answer needs a loop that takes it.
SendReturns(i) ==
  /\ Running /\ js = <<"send", i>>
  /\ \E s \in Of(i) : transport[s] = "loop"
  /\ js' = Idle
  /\ UNCHANGED <<maps, starts, file, threads, stops, foreign, exited>>

-----------------------------------------------------------------------------
(* The thread of the listener: UnixDomainSocket::start *)

calls == <<maps, starts, js, stops, foreign>>

\* Bug: nobody looks whether there is a file.
LookBug(s) ==
  /\ Running /\ listener[s] = "look"
  /\ listener' = [listener EXCEPT ![s] = "bind"]
  /\ UNCHANGED <<calls, file, transport, told, accepted, exited>>

\* exists()
Look(s) ==
  /\ Running /\ listener[s] = "look"
  /\ listener' = [listener EXCEPT ![s] = IF file = 0 THEN "bind" ELSE "remove"]
  /\ UNCHANGED <<calls, file, transport, told, accepted, exited>>

\* remove_file() fails if the file has gone since.
Remove(s) ==
  /\ Running /\ listener[s] = "remove"
  /\ IF file = 0 THEN Exit("open", owner[s]) ELSE UNCHANGED exited
  /\ file' = 0
  /\ listener' = [listener EXCEPT ![s] = "bind"]
  /\ UNCHANGED <<calls, transport, told, accepted>>

\* bind() fails if there is a file again; then on_start() is called.
Bind(s) ==
  /\ Running /\ listener[s] = "bind"
  /\ IF file = 0 THEN UNCHANGED exited ELSE Exit("bind", owner[s])
  /\ file' = IF file = 0 THEN s ELSE file
  /\ listener' = [listener EXCEPT ![s] = "bound"]
  /\ UNCHANGED <<calls, transport, told, accepted>>

\* The loop waits in select! for a connection or a stop.
Listen(s) ==
  /\ Running /\ listener[s] = "bound"
  /\ listener' = [listener EXCEPT ![s] = "loop"]
  /\ UNCHANGED <<calls, file, transport, told, accepted, exited>>

\* acceptor() returns; a stop that came in the same moment is forgotten.
Accept(s) ==
  /\ Running /\ s \notin accepted
  /\ \E l \in Start : /\ dial[s] = l /\ listener[l] = "loop"
                      /\ told' = told \ {<<"uds", l>>}
  /\ accepted' = accepted \cup {s}
  /\ UNCHANGED <<calls, file, listener, transport, exited>>

\* shutdown.notified(): the loop ends and the socket is closed; its file stays.
Close(s) ==
  /\ Running /\ listener[s] = "loop" /\ <<"uds", s>> \in told
  /\ told' = told \ {<<"uds", s>>}
  /\ listener' = [listener EXCEPT ![s] = "closed"]
  /\ UNCHANGED <<calls, file, transport, accepted, exited>>

-----------------------------------------------------------------------------
(* The thread of the transport: UMQT::start *)

\* One port for an instance. A send that waits keeps the socket it has found.
PortHeld(i) == Holders(i) # {} \/ js = <<"send", i>>

\* A resend task that a stop has left behind (ResendCanEnd of Umqt) keeps it, too.
PortLeft(i) == \E s \in Of(i) : transport[s] = "done"

\* If the port is taken that is logged, and the thread ends.
BindPort(s) ==
  /\ Running /\ transport[s] = "spawned"
  /\ \/ /\ ~PortHeld(owner[s])
        /\ transport' = [transport EXCEPT ![s] = "bound"]
     \/ /\ PortHeld(owner[s]) \/ PortLeft(owner[s])
        /\ transport' = [transport EXCEPT ![s] = "done"]
  /\ UNCHANGED <<calls, file, listener, told, accepted, exited>>

\* The loop waits in select! for a datagram or a stop.
Receive(s) ==
  /\ Running /\ transport[s] = "bound"
  /\ transport' = [transport EXCEPT ![s] = "loop"]
  /\ UNCHANGED <<calls, file, listener, told, accepted, exited>>

\* acceptor() returns; a stop that came in the same moment is forgotten. If it
\* called a consumer, that sends over the Unix socket, and the process exits if
\* UDS_STREAMS has connections, but none of this instance.
Consume(s) ==
  /\ Running /\ transport[s] = "loop"
  /\ told' = told \ {<<"umqt", s>>}
  /\ \/ UNCHANGED exited
     \/ /\ owner[s] \in uds_map
        /\ accepted # {} /\ accepted \cap Of(owner[s]) = {}
        /\ Exit("ipc_send", owner[s])
  /\ UNCHANGED <<calls, file, listener, transport, accepted>>

\* shutdown.notified(): the loop ends ...
Leave(s) ==
  /\ Running /\ transport[s] = "loop" /\ <<"umqt", s>> \in told
  /\ told' = told \ {<<"umqt", s>>}
  /\ transport' = [transport EXCEPT ![s] = "leaving"]
  /\ UNCHANGED <<calls, file, listener, accepted, exited>>

\* ... and the socket is taken back.
Unbind(s) ==
  /\ Running /\ transport[s] = "leaving"
  /\ transport' = [transport EXCEPT ![s] = "done"]
  /\ UNCHANGED <<calls, file, listener, told, accepted, exited>>

-----------------------------------------------------------------------------
(* Another process that starts an instance takes the file away, or binds one. *)

\* This process looks at the path only while it is in umqt_start_ipc: what the
\* other one did before counts as done then.
ForeignStart ==
  /\ Running /\ js[1] = "start_ipc" /\ foreign < MaxForeign
  /\ foreign' = foreign + 1
  /\ file' = IF file = 0 THEN Other ELSE 0
  /\ UNCHANGED <<maps, starts, js, threads, stops, exited>>

-----------------------------------------------------------------------------
Instance(i) == StartIpc(i) \/ Stop(i) \/ Destroy(i) \/ DestroyReturns(i)
               \/ Send(i) \/ SendReturns(i)
Class(s) == Dial(s) \/ Connected(s)
Listener(s) == Look(s) \/ Remove(s) \/ Bind(s) \/ Listen(s) \/ Accept(s) \/ Close(s)
Transport(s) == BindPort(s) \/ Receive(s) \/ Consume(s) \/ Leave(s) \/ Unbind(s)

Next ==
  \/ Create \/ ForeignStart
  \/ \E i \in Id : Instance(i)
  \/ \E s \in Start : Class(s) \/ Listener(s) \/ Transport(s)

Spec == Init /\ [][Next]_vars

-----------------------------------------------------------------------------
(* Safety *)

\* The threads, the native calls, the path, the stops and the ends there are.
Calls == {"none", "ipc", "connecting", "started"}
Listeners == {"none", "look", "remove", "bind", "bound", "loop", "closed"}
Transports == {"none", "spawned", "bound", "loop", "leaving", "done"}
NativeCalls == ({"start_ipc"} \X Start) \cup ({"send", "destroy"} \X Id) \cup {Idle}
Files == Start \cup {0, Other}
Notices == {"uds", "umqt"} \X Start
PathErrors == {"open", "bind", "connect"}
Exits == ({"no", "producer", "ipc_send"} \cup PathErrors) \X (Id \cup {0})

\* Every variable has its type.
TypeOK ==
  /\ created \in 0 .. MaxIds
  /\ uds_map \subseteq Id /\ umqt_map \subseteq Id
  /\ owner \in [Start -> Id \cup {0}]
  /\ call \in [Start -> Calls]
  /\ js \in NativeCalls
  /\ file \in Files
  /\ listener \in [Start -> Listeners]
  /\ transport \in [Start -> Transports]
  /\ told \subseteq Notices
  /\ dial \in [Start -> Files]
  /\ accepted \subseteq Start
  /\ stops \in 0 .. MaxStops /\ foreign \in 0 .. MaxForeign
  /\ exited \in Exits

\* The instances of a process share one path, and still none is connected to the
\* listener of another, or to an old one of its own: the JavaScript thread stays
\* in start() from the first look at the path until the client has connected.
OwnListener == foreign = 0 => \A s \in Start : dial[s] \in {0, s}

\* By itself the process never ends over the path: what an earlier process left
\* there, and the files of its own starts, are taken away before bind(), and the
\* file is still there when the client connects.
PathErrorsAreForeign == exited[1] \in PathErrors => foreign > 0

\* The JavaScript thread does not wait for what cannot come. In umqt_start_ipc it waits
\* for a thread on its way to on_start(), or past it and not closed; there is none only if
\* the instance was destroyed. In umqt_send it waits for a transport that has its socket,
\* unless there was a stop. And a start() that has not come to its client is in the first.
WaitsForSomebody ==
  /\ \A s \in Start : call[s] = "ipc" => js = <<"start_ipc", s>>
  /\ js[1] = "start_ipc" =>
       LET s == js[2]
       IN  IF listener[s] = "none" THEN owner[s] \notin uds_map
           ELSE call[s] = "ipc" /\ listener[s] # "closed"
  /\ js[1] = "send" => Holders(js[2]) # {} \/ stops > 0

\* start() resolved means that the transport is there until it is stopped: the
\* process does not end over a send() after it.
StartedIsReady ==
  \A i \in Id : exited = <<"producer", i>> /\ stops = 0
                => \A s \in Of(i) : call[s] # "started"

-----------------------------------------------------------------------------
(* Liveness *)

\* Threads run, libuv brings the connect event some time, and a transport that
\* loops gets its answer. What the application and other processes do is up to
\* them, and so is when a connection is accepted.
Fairness ==
  /\ \A i \in Id : WF_vars(SendReturns(i))
  /\ \A s \in Start :
       /\ WF_vars(Dial(s)) /\ SF_vars(Connected(s))
       /\ WF_vars(Look(s) \/ Remove(s) \/ Bind(s) \/ Listen(s))
       /\ WF_vars(BindPort(s) \/ Receive(s) \/ Leave(s) \/ Unbind(s))

FairSpec == Spec /\ Fairness

\* What may hold the JavaScript thread for ever: start() of an instance that is
\* no more, the end of a runtime, and a send() whose transport has left: it keeps
\* the port, so that no other can come.
Hung ==
  \/ js[1] = "start_ipc" /\ listener[js[2]] = "none"
  \/ js[1] = "destroy"
  \/ js[1] = "send" /\ Holders(js[2]) = {} /\ \E s \in Of(js[2]) : transport[s] = "done"

\* Every other native call returns.
CallsReturn == js # Idle ~> (js = Idle \/ ~Running \/ []Hung)

\* start() resolves, whatever the other instances do, unless the JavaScript thread
\* is held or the path was tampered with.
StartsResolve ==
  \A s \in Start : call[s] = "ipc" ~> (call[s] = "started" \/ ~Running \/ []Hung)
================================================================================
