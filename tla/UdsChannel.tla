----------------------------- MODULE UdsChannel -----------------------------
(* Each direction of Uds implements Channel. *)
EXTENDS Uds

\* How many messages a reader has behind it: from the start of those on, more bytes were
\* sent than are left in it and on their way, or taken of the frame it is in.
Place(messages, r, way) ==
  Cardinality({k \in 1 .. Len(messages) :
                 Len(Frames(After(messages, k - 1))) > Taken(r) + Len(r.buff \o way)})

Unread(messages, r, way) == After(messages, Place(messages, r, way))

DownBroken == "req" \in torn \/ ~Running
UpBroken == "reader" \in torn \/ ~Running

DownQueue == IF DownBroken THEN << >> ELSE Unread(sent, req, down \o chunk \o FlattenSeq(rx))
UpQueue == IF UpBroken THEN << >> ELSE Unread(pushed, reader, up)

Down == INSTANCE Channel WITH
  Handlers <- Handled, Given <- CallOf,
  queue <- DownQueue, out <- dispatched, broken <- DownBroken

Up == INSTANCE Channel WITH
  Handlers <- Served, Given <- CallOf,
  queue <- UpQueue, out <- served, broken <- UpBroken

\* Whatever sizes the socket and the reads have, each step moves whole messages: the
\* channel, the socket, the buffer and the parts a reader has taken are one queue for
\* each direction, and no handler is called but by its head.
ImplementsChannels == Down!Spec /\ Up!Spec
=============================================================================
