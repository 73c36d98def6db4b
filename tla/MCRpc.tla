-------------------------------- MODULE MCRpc --------------------------------
(* Instances of Rpc for TLC. *)
EXTENDS RpcRemoteCall

CONSTANTS c, d, s

\* Every process serves itself.
OwnRoute == [kind \in {"req", "res"} |-> {s}]

\* One server, one client.
Pair == [kind \in {"req", "res"} |-> IF kind = "req" THEN {s} ELSE {c}]

\* One server, two clients that handle responses of the same topic.
Clients == [kind \in {"req", "res"} |-> IF kind = "req" THEN {s} ELSE {c, d}]
=============================================================================
