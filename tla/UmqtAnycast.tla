---------------------------- MODULE UmqtAnycast ----------------------------
(* Umqt implements Anycast. *)
EXTENDS Umqt

Outcome(k) ==
  CASE send_pc[k] = "idle" -> "new"
    [] Waiting(k) -> "open"
    [] send_pc[k] = "done" -> "returned"
    [] OTHER -> "cut"

Promise == INSTANCE Anycast WITH
  outcome <- [k \in Key |-> Outcome(k)],
  reliable <- {k \in Key : send_pc[k] # "idle" /\ request[k].reliable},
  receiver <- winner,
  taken <- {k \in Key : \E m \in Node : Got(m, k)},
  runs <- [k \in Key |-> IF winner[k] = None THEN 0 ELSE handled[<<winner[k], k>>]]

\* The exchange of "i", "v", "_" and "x" between processes that lose datagrams,
\* crash and start again does nothing to a request that Anycast does not allow.
ImplementsAnycast == Promise!Spec
=============================================================================
