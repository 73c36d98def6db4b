-------------------------------- MODULE MCUds --------------------------------
(* Instances of Uds for TLC. *)
EXTENDS UdsChannel

CONSTANTS a, b, c, d

\* a is JSON only, b and d have a binary part shorter than their JSON, c a longer one.
\* c is sent without a handler; the native handler of b, if pushed, answers d. Each
\* has one ":" in its JSON, d at its end.
Lengths == [m \in Message |-> IF m \in {a, c} THEN 2 ELSE 3]
Binaries == [m \in Message |-> IF m = a THEN 0 ELSE IF m = c THEN 3 ELSE 1]
Colon == [m \in Message |-> {IF m = d THEN 3 ELSE 2}]
Echo == [m \in {b} |-> d]
NoReply == [m \in {} |-> d]
=============================================================================
