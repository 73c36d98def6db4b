------------------------------- MODULE Channel -------------------------------
(***************************************************************************)
(* What one direction of a connection promises to those who speak in whole *)
(* messages: a queue. A message put in waits until all before it are out;  *)
(* then the handler of its topic, if there is one, is given it, once and   *)
(* with its own binary part. The promise ends when the reader has lost its *)
(* place or the process is over; what was handed out stays so.             *)
(***************************************************************************)
EXTENDS SequencesExt

CONSTANTS
  Message,   \* messages
  Handlers,  \* those of a topic with a handler
  Given(_)   \* Given(m): what the handler of m is given

VARIABLES
  queue,     \* messages put in and not taken out yet
  out,       \* what handlers were given, in that order
  broken     \* has the promise ended?

vars == <<queue, out, broken>>

Init == queue = << >> /\ out = << >> /\ broken = FALSE

Put(m) ==
  /\ ~broken
  /\ queue' = Append(queue, m)
  /\ UNCHANGED <<out, broken>>

\* The first message leaves the queue.
Take ==
  /\ ~broken /\ queue # << >>
  /\ queue' = Tail(queue)
  /\ out' = IF Head(queue) \in Handlers THEN Append(out, Given(Head(queue))) ELSE out
  /\ UNCHANGED broken

Break ==
  /\ broken' = TRUE
  /\ queue' = << >>
  /\ UNCHANGED out

\* A reader that has lost its place may still find frames.
Wander ==
  /\ broken
  /\ IsPrefix(out, out')
  /\ UNCHANGED <<queue, broken>>

Next == (\E m \in Message : Put(m)) \/ Take \/ Break \/ Wander

Spec == Init /\ [][Next]_vars
=============================================================================
