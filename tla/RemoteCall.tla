----------------------------- MODULE RemoteCall -----------------------------
(***************************************************************************)
(* What rpc.send promises its caller: a call that returns does so once,    *)
(* with an answer some handler gave to this very call, and the answer that *)
(* settled it is never replaced.                                           *)
(***************************************************************************)
EXTENDS Naturals

CONSTANTS
  Id,      \* calls
  Answer,  \* handlers' answers to a call
  None     \* absent value

VARIABLES
  call,     \* call[i]: "new", "waiting", "settled", "returned", or "cut" by a crash
  offered,  \* offered[i]: what handlers answered to i
  answer    \* answer[i]: the answer that settled i, or None

vars == <<call, offered, answer>>

Init ==
  /\ call = [i \in Id |-> "new"]
  /\ offered = [i \in Id |-> {}]
  /\ answer = [i \in Id |-> None]

Make(i) ==
  /\ call[i] = "new"
  /\ call' = [call EXCEPT ![i] = "waiting"]
  /\ UNCHANGED <<offered, answer>>

Settles(i, a) ==
  /\ call[i] = "waiting"
  /\ call' = [call EXCEPT ![i] = "settled"]
  /\ answer' = [answer EXCEPT ![i] = a]

\* A handler answers, and may be heard at once.
Offer(i, a) ==
  /\ call[i] # "new" /\ a \notin offered[i]
  /\ offered' = [offered EXCEPT ![i] = @ \cup {a}]
  /\ Settles(i, a) \/ UNCHANGED <<call, answer>>

\* An answer given earlier is heard.
Settle(i) ==
  /\ \E a \in offered[i] : Settles(i, a)
  /\ UNCHANGED offered

Return(i) ==
  /\ call[i] = "settled"
  /\ call' = [call EXCEPT ![i] = "returned"]
  /\ UNCHANGED <<offered, answer>>

\* The caller's process ends, and its open calls with it.
Cut ==
  /\ \E I \in SUBSET {i \in Id : call[i] \in {"waiting", "settled"}} :
        call' = [i \in Id |-> IF i \in I THEN "cut" ELSE call[i]]
  /\ UNCHANGED <<offered, answer>>

Next ==
  \/ \E i \in Id : \/ Make(i)
                   \/ Settle(i)
                   \/ Return(i)
                   \/ \E a \in Answer : Offer(i, a)
  \/ Cut

Spec == Init /\ [][Next]_vars
=============================================================================
