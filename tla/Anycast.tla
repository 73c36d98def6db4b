------------------------------ MODULE Anycast ------------------------------
(***************************************************************************)
(* What umqt.send promises its caller, whatever datagrams it takes: each   *)
(* request goes to one receiver; a reliable send returns after it has been *)
(* taken there, an unreliable one when the receiver is known; a sender     *)
(* makes one request after the other.                                      *)
(***************************************************************************)
EXTENDS Naturals

CONSTANTS
  Node,        \* senders and receivers
  Id,          \* numbers of a sender's requests
  MaxHandled,  \* bound: the counter of handler runs saturates here
  Duplicates,  \* can the network duplicate what it carries?
  None         \* absent value

Key == Node \X Id

VARIABLES
  outcome,   \* outcome[k]: "new", "open", "returned" or "cut" by a crash
  reliable,  \* keys of the requests that are to be acknowledged
  receiver,  \* receiver[k]: the node k was given to, or None
  taken,     \* keys of the requests their receiver has
  runs       \* runs[k]: how often the receiver's handler ran for k

vars == <<outcome, reliable, receiver, taken, runs>>

Init ==
  /\ outcome = [k \in Key |-> "new"]
  /\ reliable = {} /\ taken = {}
  /\ receiver = [k \in Key |-> None]
  /\ runs = [k \in Key |-> 0]

\* The caller sends; its earlier requests are over.
Submit(k) ==
  /\ outcome[k] = "new"
  /\ \A j \in Id : /\ j < k[2] => outcome[<<k[1], j>>] \in {"returned", "cut"}
                   /\ j > k[2] => outcome[<<k[1], j>>] = "new"
  /\ outcome' = [outcome EXCEPT ![k] = "open"]
  /\ reliable' \in {reliable, reliable \cup {k}}
  /\ UNCHANGED <<receiver, taken, runs>>

\* One receiver is chosen, once.
Choose(k) ==
  /\ outcome[k] = "open" /\ receiver[k] = None
  /\ \E m \in Node : receiver' = [receiver EXCEPT ![k] = m]
  /\ UNCHANGED <<outcome, reliable, taken, runs>>

\* The receiver has the message; its handler may not have run.
Take(k) ==
  /\ k \in reliable /\ receiver[k] # None
  /\ taken' = taken \cup {k}
  /\ UNCHANGED <<outcome, reliable, receiver, runs>>

\* The receiver's handler runs: again and again for a reliable message, which
\* is repeated, at most once for an unreliable one that the network does not
\* duplicate.
Run(k) ==
  /\ receiver[k] # None
  /\ IF k \in reliable THEN k \in taken ELSE Duplicates \/ runs[k] = 0
  /\ taken' = taken \cup {k}
  /\ runs' = [runs EXCEPT ![k] = IF @ < MaxHandled THEN @ + 1 ELSE @]
  /\ UNCHANGED <<outcome, reliable, receiver>>

Return(k) ==
  /\ outcome[k] = "open"
  /\ IF k \in reliable THEN k \in taken ELSE receiver[k] # None
  /\ outcome' = [outcome EXCEPT ![k] = "returned"]
  /\ UNCHANGED <<reliable, receiver, taken, runs>>

\* The sender crashes before the send returns.
Cut(k) ==
  /\ outcome[k] = "open"
  /\ outcome' = [outcome EXCEPT ![k] = "cut"]
  /\ UNCHANGED <<reliable, receiver, taken, runs>>

Next == \E k \in Key :
          Submit(k) \/ Choose(k) \/ Take(k) \/ Run(k) \/ Return(k) \/ Cut(k)

Spec == Init /\ [][Next]_vars
=============================================================================
