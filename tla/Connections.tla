------------------------------ MODULE Connections ------------------------------
(***************************************************************************)
(* The connections of one instance of the class UMQT over its starts and   *)
(* stops: acceptor() and the two tasks of a connection                     *)
(* (native/src/ipc/uds.rs), the native consumers that send over it         *)
(* (native/src/lib.rs), and the clients of the class UnixDomainSocket      *)
(* (src/ipc/uds/index.ts).                                                 *)
(*                                                                         *)
(* All tasks of an instance share the worker threads of one runtime, and a *)
(* write task keeps its worker while it waits for a message. A message is  *)
(* a call of a native consumer; module Uds has its bytes. That a client    *)
(* meets the listener of its own start is OwnListener of Lifecycle.        *)
(***************************************************************************)
EXTENDS Naturals, FiniteSets

CONSTANTS
  ThreadLimit,    \* worker threads
  OthersStarted,  \* have other instances made UDS_STREAMS?
  MaxStarts,      \* bound: calls of start()
  MaxStops,       \* bound: calls of stop()
  MaxMessages     \* bound: calls of consumers

ASSUME ConnectionsAssumption ==
  /\ ThreadLimit \in Nat \ {0}
  /\ OthersStarted \in BOOLEAN
  /\ {MaxStarts, MaxStops, MaxMessages} \subseteq Nat

\* The starts, in order; each makes one listener and one client.
Start == 1 .. MaxStarts
Message == 1 .. MaxMessages

VARIABLES
  made,       \* starts so far
  resolved,   \* those whose start() has resolved
  heard,      \* heard[s]: starts that added a data listener to the client of s
  overlap,    \* was start() called while an earlier call had not resolved?
  ended,      \* starts whose client was ended
  open,       \* starts whose listener is open
  told,       \* those of them that a stop() has reached
  table,      \* the entry in UDS_STREAMS: the start whose channel it holds, or 0
  writer,     \* writer[s]: the write task; "blocked" while it keeps a worker
  reader,     \* reader[s]: the read task
  chan,       \* chan[s]: messages in the channel of s
  down,       \* down[s]: messages on the socket of s
  arrived,    \* calls of consumers so far
  given,      \* messages that found a channel
  handled,    \* messages JavaScript handlers were given
  repeated,   \* those they were given more than once
  instance,   \* "alive", "destroyed" or, without its runtime, "released"
  destroying, \* is the JavaScript thread in umqt_destroy?
  stops,
  exited      \* has a message found no channel?

clients == <<made, resolved, heard, overlap, ended>>
listeners == <<open, told>>
tasks == <<table, writer, reader>>
messages == <<chan, down, arrived, given, handled, repeated>>
vars == <<clients, listeners, tasks, messages, instance, destroying, stops, exited>>

Running == ~exited
JsFree == Running /\ ~destroying

Init ==
  /\ made = 0 /\ resolved = {} /\ overlap = FALSE /\ ended = {}
  /\ heard = [s \in Start |-> {}]
  /\ open = {} /\ told = {}
  /\ table = 0
  /\ writer = [s \in Start |-> "none"] /\ reader = [s \in Start |-> "none"]
  /\ chan = [s \in Start |-> {}] /\ down = [s \in Start |-> {}]
  /\ arrived = 0 /\ given = {} /\ handled = {} /\ repeated = {}
  /\ instance = "alive" /\ destroying = FALSE
  /\ stops = 0
  /\ exited = FALSE

-----------------------------------------------------------------------------
(* JavaScript *)

\* start(): the listener is there and the client has dialled it.
Connect ==
  /\ JsFree /\ instance = "alive" /\ made < MaxStarts
  /\ made' = made + 1
  /\ overlap' = (overlap \/ resolved # 1 .. made)
  /\ open' = open \cup {made + 1}
  /\ UNCHANGED <<resolved, heard, ended, told, tasks, messages, instance, destroying,
                 stops, exited>>

\* Bug: a start keeps the client there is.
ClientBug == 1

\* this.client: the one of the last start.
Client == made

\* The connect event: start() adds a data listener to the client the class has by
\* now, and resolves.
Connected(s) ==
  /\ JsFree /\ s <= made /\ s \notin resolved
  /\ resolved' = resolved \cup {s}
  /\ heard' = [heard EXCEPT ![Client] = @ \cup {s}]
  /\ UNCHANGED <<made, overlap, ended, listeners, tasks, messages, instance,
                 destroying, stops, exited>>

\* stop(): the listeners are told, unless the instance was destroyed, and the
\* client is ended: its socket can still be read.
Stop ==
  /\ JsFree /\ made > 0 /\ stops < MaxStops
  /\ stops' = stops + 1
  /\ told' = IF instance = "alive" THEN open ELSE told
  /\ ended' = ended \cup {made}
  /\ UNCHANGED <<made, resolved, heard, overlap, open, tasks, messages, instance,
                 destroying, exited>>

\* A data event of a client, with a message for its handler: once for every data
\* listener.
HandleMessage(s) ==
  /\ JsFree /\ heard[s] # {}
  /\ \E m \in down[s] :
       /\ down' = [down EXCEPT ![s] = @ \ {m}]
       /\ handled' = handled \cup {m}
       /\ repeated' = repeated \cup {n \in {m} : Cardinality(heard[s]) > 1}
  /\ UNCHANGED <<clients, listeners, tasks, chan, arrived, given, instance, destroying,
                 stops, exited>>

\* umqt_destroy: the instance leaves the maps. Unless a listener's thread is still
\* an owner of it, the JavaScript thread waits for the end of the runtime.
Destroy ==
  /\ JsFree /\ instance = "alive"
  /\ instance' = "destroyed"
  /\ destroying' = TRUE
  /\ UNCHANGED <<clients, listeners, tasks, messages, stops, exited>>

\* Bug: the threads of the listeners are joined.
DestroyReturnsBug ==
  /\ Running /\ destroying /\ instance = "released"
  /\ destroying' = FALSE
  /\ UNCHANGED <<clients, listeners, tasks, messages, instance, stops, exited>>

DestroyReturns ==
  /\ Running /\ destroying
  /\ open # {} \/ instance = "released"
  /\ destroying' = FALSE
  /\ UNCHANGED <<clients, listeners, tasks, messages, instance, stops, exited>>

-----------------------------------------------------------------------------
(* Native *)

Blocked == {s \in Start : writer[s] = "blocked"}

\* Bug: one worker is kept for something else.
SpareBug == Cardinality(Blocked) + 1 < ThreadLimit

\* Without a worker no task is polled and no event of a socket is noticed.
Spare == Cardinality(Blocked) < ThreadLimit

\* acceptor(): the new channel takes the place in UDS_STREAMS, and both tasks are
\* spawned. A stop that comes in the same moment is forgotten.
Accept(s) ==
  /\ Running /\ Spare /\ s \in open /\ writer[s] = "none"
  /\ table' = s
  /\ writer' = [writer EXCEPT ![s] = "ready"]
  /\ reader' = [reader EXCEPT ![s] = "ready"]
  /\ told' = told \ {s}
  /\ UNCHANGED <<clients, open, messages, instance, destroying, stops, exited>>

\* Bug: the stop stays to be noticed.
CloseBug(s) ==
  /\ Running /\ s \in told
  /\ open' = open \ {s}
  /\ UNCHANGED <<clients, told, tasks, messages, instance, destroying, stops, exited>>

\* shutdown.notified(): the listener is closed; the tasks go on.
Close(s) ==
  /\ Running /\ s \in told
  /\ open' = open \ {s}
  /\ told' = told \ {s}
  /\ UNCHANGED <<clients, tasks, messages, instance, destroying, stops, exited>>

\* The write task is polled and waits in recv(), on its worker.
Poll(s) ==
  /\ Running /\ writer[s] = "ready" /\ Spare
  /\ writer' = [writer EXCEPT ![s] = "blocked"]
  /\ UNCHANGED <<clients, listeners, table, reader, messages, instance, destroying,
                 stops, exited>>

\* recv() returns a message and it is written; the task may have to yield.
Write(s) ==
  /\ Running /\ writer[s] = "blocked"
  /\ \E m \in chan[s] : /\ chan' = [chan EXCEPT ![s] = @ \ {m}]
                        /\ down' = [down EXCEPT ![s] = @ \cup {m}]
  /\ \E pc \in {"blocked", "ready"} : writer' = [writer EXCEPT ![s] = pc]
  /\ UNCHANGED <<clients, listeners, table, reader, arrived, given, handled, repeated,
                 instance, destroying, stops, exited>>

\* Bug: the task ends with messages in its channel.
WriteEndsBug(s) ==
  /\ Running /\ writer[s] = "blocked"
  /\ table # s /\ reader[s] = "done"
  /\ writer' = [writer EXCEPT ![s] = "done"]
  /\ UNCHANGED <<clients, listeners, table, reader, messages, instance, destroying,
                 stops, exited>>

\* recv() fails: the channel is empty and no sender is left, neither in the table
\* nor in the read task.
WriteEnds(s) ==
  /\ Running /\ writer[s] = "blocked"
  /\ chan[s] = {} /\ table # s /\ reader[s] = "done"
  /\ writer' = [writer EXCEPT ![s] = "done"]
  /\ UNCHANGED <<clients, listeners, table, reader, messages, instance, destroying,
                 stops, exited>>

\* The read task reads the end of the client.
ReadEnds(s) ==
  /\ Running /\ reader[s] = "ready" /\ s \in ended /\ Spare
  /\ reader' = [reader EXCEPT ![s] = "done"]
  /\ UNCHANGED <<clients, listeners, table, writer, messages, instance, destroying,
                 stops, exited>>

\* A consumer of the transport, which runs after the first start(), is called and
\* sends over the Unix socket. The message is dropped if the instance was destroyed
\* or UDS_STREAMS was never made; the process exits if it is, without this instance.
Consume ==
  /\ Running /\ resolved # {} /\ arrived < MaxMessages
  /\ arrived' = arrived + 1
  /\ IF instance # "alive" \/ (table = 0 /\ ~OthersStarted)
     THEN UNCHANGED <<chan, given, exited>>
     ELSE IF table = 0
     THEN exited' = TRUE /\ UNCHANGED <<chan, given>>
     ELSE /\ chan' = [chan EXCEPT ![table] = @ \cup {arrived'}]
          /\ given' = given \cup {arrived'}
          /\ UNCHANGED exited
  /\ UNCHANGED <<clients, listeners, tasks, down, handled, repeated, instance,
                 destroying, stops>>

\* The last owner drops the runtime: it waits for tasks in the middle of a poll;
\* the others end where they are, and with them their channels.
DropRuntime ==
  /\ Running /\ instance = "destroyed" /\ open = {} /\ Blocked = {}
  /\ instance' = "released"
  /\ writer' = [s \in Start |-> IF writer[s] = "none" THEN "none" ELSE "done"]
  /\ reader' = [s \in Start |-> IF reader[s] = "none" THEN "none" ELSE "done"]
  /\ UNCHANGED <<clients, listeners, table, messages, destroying, stops, exited>>

-----------------------------------------------------------------------------
JavaScript == Connect \/ Stop \/ Destroy \/ DestroyReturns
              \/ \E s \in Start : Connected(s) \/ HandleMessage(s)
Native == Consume \/ DropRuntime
          \/ \E s \in Start : Accept(s) \/ Close(s) \/ Poll(s) \/ Write(s) \/ WriteEnds(s)
                              \/ ReadEnds(s)

Next == JavaScript \/ Native

Spec == Init /\ [][Next]_vars

-----------------------------------------------------------------------------
(* Safety *)

\* Every variable has its type.
TypeOK ==
  /\ made \in 0 .. MaxStarts
  /\ resolved \subseteq 1 .. made /\ ended \subseteq 1 .. made /\ open \subseteq 1 .. made
  /\ told \subseteq open
  /\ heard \in [Start -> SUBSET Start]
  /\ {overlap, destroying, exited} \subseteq BOOLEAN
  /\ table \in 0 .. made
  /\ writer \in [Start -> {"none", "ready", "blocked", "done"}]
  /\ reader \in [Start -> {"none", "ready", "done"}]
  /\ chan \in [Start -> SUBSET Message] /\ down \in [Start -> SUBSET Message]
  /\ arrived \in 0 .. MaxMessages
  /\ given \subseteq Message /\ handled \subseteq given /\ repeated \subseteq handled
  /\ instance \in {"alive", "destroyed", "released"}
  /\ stops \in 0 .. MaxStops

\* Where a message can still be handled, or was.
Places(m) ==
  ({"chan"} \X {s \in Start : m \in chan[s] /\ writer[s] # "done"})
    \cup ({"down"} \X {s \in Start : m \in down[s]})
    \cup ({"handled"} \X {s \in {0} : m \in handled})

\* Every message that was given to a connection is in one place, also while the
\* instance is stopped and started again: the old connection carries what it has.
NoneLost == instance = "alive" => \A m \in given : Cardinality(Places(m)) = 1

\* A message reaches its handler twice only if start() was called again before an
\* earlier call had resolved: both then listen to the second client.
HandledOnce == repeated # {} => overlap

\* More write tasks than there are workers to wait in recv().
Crowded == Cardinality({s \in Start : writer[s] \in {"ready", "blocked"}}) > ThreadLimit

\* A message given to a connection has somebody who will move it on, across stops and
\* restarts: a write task that waits in recv() or that a worker can take up, or a client
\* with a data listener, or one that gets it with its connect event.
NoStrandedMessage ==
  instance = "alive" /\ ~overlap =>
    \A m \in given \ handled : \E s \in Start :
      \/ m \in chan[s] /\ writer[s] = "blocked"
      \/ m \in chan[s] /\ writer[s] = "ready" /\ (Spare \/ Crowded)
      \/ m \in down[s] /\ heard[s] # {}
      \/ m \in down[s] /\ s = Client /\ s \notin resolved

-----------------------------------------------------------------------------
(* Liveness *)

\* tokio polls a task that is ready when a worker is spare, libuv brings the events
\* of a socket. What the application calls is up to it, and so is whether a
\* connection is accepted before its listener is closed.
Fairness ==
  /\ WF_vars(DropRuntime) /\ WF_vars(DestroyReturns)
  /\ \A s \in Start :
       /\ WF_vars(Connected(s)) /\ WF_vars(HandleMessage(s))
       /\ WF_vars(Poll(s)) /\ WF_vars(Write(s)) /\ WF_vars(WriteEnds(s)) /\ WF_vars(ReadEnds(s))

FairSpec == Spec /\ Fairness

\* Every message given to a connection is handled, across stops and restarts, as
\* long as there are as many workers as connections. Overlapping starts may leave
\* a client without a data listener.
EveryMessageHandled ==
  \A m \in Message :
    m \in given ~> m \in handled \/ overlap \/ Crowded \/ instance # "alive" \/ ~Running

\* umqt_destroy returns, unless a write task waits for a message: the sender it
\* waits for stays in UDS_STREAMS for good.
DestroyEnds == destroying ~> ~destroying \/ ~Running \/ [](open = {} /\ Blocked # {})
================================================================================
