------------------------- MODULE ConnectionsDelivery -------------------------
(* Connections implements Delivery. *)
EXTENDS Connections

\* In the channel of a write task that will come to it, or on a socket.
OnItsWay(m) == \E s \in Start : (m \in chan[s] /\ writer[s] # "done") \/ m \in down[s]

Promise == INSTANCE Delivery WITH
  pending <- {m \in Message : OnItsWay(m)},
  alive <- instance = "alive"

\* Whatever starts, stops, the order of the tasks and the lack of workers do to the
\* connections, a message that one of them has taken is kept until a handler is given
\* it, and is gone from all of them then.
ImplementsDelivery == Promise!Spec
=============================================================================
