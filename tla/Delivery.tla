------------------------------ MODULE Delivery ------------------------------
(***************************************************************************)
(* What an instance promises a message that its transport has received:    *)
(* once a connection has taken it, it stays until a JavaScript handler is  *)
(* given it, and is given it once, whichever of the connections of the     *)
(* starts so far carries it. The promise ends with the instance, and for   *)
(* "once" with calls of start() that overlap.                              *)
(***************************************************************************)
EXTENDS Naturals

CONSTANT MaxMessages  \* bound: messages received

VARIABLES
  arrived,   \* messages received so far
  pending,   \* those that were taken and not handled yet
  handled,   \* those a handler was given
  repeated,  \* those it was given more than once
  overlap,   \* have calls of start() overlapped?
  alive      \* has the instance not been destroyed?

vars == <<arrived, pending, handled, repeated, overlap, alive>>

Init ==
  /\ arrived = 0
  /\ pending = {} /\ handled = {} /\ repeated = {}
  /\ overlap = FALSE /\ alive = TRUE

\* A message is received, and taken or refused for good.
Receive ==
  /\ arrived < MaxMessages
  /\ arrived' = arrived + 1
  /\ \/ UNCHANGED pending
     \/ alive /\ pending' = pending \cup {arrived'}
  /\ UNCHANGED <<handled, repeated, overlap, alive>>

\* A handler is given a message.
Handle(m) ==
  /\ m \in pending
  /\ pending' = pending \ {m}
  /\ handled' = handled \cup {m}
  /\ \/ UNCHANGED repeated
     \/ overlap /\ repeated' = repeated \cup {m}
  /\ UNCHANGED <<arrived, overlap, alive>>

\* start() is called before an earlier call has resolved.
Overlap ==
  /\ overlap' = TRUE
  /\ UNCHANGED <<arrived, pending, handled, repeated, alive>>

\* The instance is destroyed: what it has not handled may be lost.
Destroy ==
  /\ alive' = FALSE
  /\ UNCHANGED <<arrived, pending, handled, repeated, overlap>>

Lose ==
  /\ ~alive
  /\ pending' \in SUBSET pending
  /\ UNCHANGED <<arrived, handled, repeated, overlap, alive>>

Next == Receive \/ (\E m \in pending : Handle(m)) \/ Overlap \/ Destroy \/ Lose

Spec == Init /\ [][Next]_vars
=============================================================================
