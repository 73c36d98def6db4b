--------------------------------- MODULE Uds ---------------------------------
(***************************************************************************)
(* A connection of the Unix socket between the two halves of a process.    *)
(*                                                                         *)
(* Native end, native/src/ipc/uds.rs: send() puts frames into the channel  *)
(* of the write task; the read task takes frames off the socket and calls  *)
(* handlers, which answer through a UnixDomainSocketStream. Both tasks run *)
(* on the worker threads of a tokio runtime, and the write task keeps its  *)
(* worker while it waits for the channel.                                  *)
(*                                                                         *)
(* JavaScript end, src/ipc/uds/index.ts: a data event adds the bytes to a  *)
(* reader all events share and loops until the buffer is empty, suspended  *)
(* while it awaits a handler. Other events run in between, and nothing     *)
(* else runs while the loop itself does.                                   *)
(***************************************************************************)
EXTENDS FrameReader, SequencesExt, FiniteSets

CONSTANTS
  Sends,        \* messages a consumer of the transport gives to send()
  Pushes,       \* messages JavaScript gives to push()
  Reply,        \* Reply[m]: what the native handler of m answers
  Handled,      \* messages of a topic with a JavaScript handler
  Capacity,     \* bytes the socket holds on their way to JavaScript
  ReadSizes,    \* bytes a read may bring at most
  ThreadLimit   \* worker threads of the runtime

Served == DOMAIN Reply

ASSUME UdsAssumption ==
  /\ Sends \cup Pushes \cup Handled \subseteq Message
  /\ Reply \in [Served -> Message]
  /\ Served \subseteq Pushes
  /\ Capacity \in Nat \ {0}
  /\ ReadSizes \subseteq Nat \ {0}
  /\ ThreadLimit \in Nat \ {0}

VARIABLES
  sent,        \* messages put into the channel of the write task, in that order
  rx,          \* frames in that channel
  chunk,       \* bytes left of the frame being written
  writing,     \* does the write task hold a worker?
  down,        \* bytes on their way to JavaScript
  req,         \* the JavaScript reader
  looping,     \* is a data event in its loop, not suspended?
  handling,    \* messages whose handler is awaited, each by a data event
  dispatched,  \* what JavaScript handlers were given, in that order
  pushed,      \* messages given to push(), in that order
  up,          \* bytes on their way to the read task
  closed,      \* has stop() ended the JavaScript half?
  reading,     \* the read task: "waiting", "looping" or "ended"
  reader,      \* its reader
  served,      \* what native handlers were given, in that order
  torn,        \* history: the readers that took JSON for a binary part
  exited       \* "no", or the message logged before process exit

vars == <<sent, rx, chunk, writing, down, req, looping, handling, dispatched,
          pushed, up, closed, reading, reader, served, torn, exited>>

channel == <<sent, rx>>
writer == <<chunk, writing>>
javascript == <<req, looping, handling, dispatched>>
pushing == <<pushed, closed>>
readTask == <<reading, reader, served>>

Running == exited = "no"
Idle == Running /\ ~looping

\* The acceptor has made the channel and spawned both tasks.
Init ==
  /\ sent = << >> /\ rx = << >> /\ chunk = << >> /\ down = << >>
  /\ writing = FALSE
  /\ req = NewReq
  /\ looping = FALSE
  /\ handling = {}
  /\ dispatched = << >>
  /\ pushed = << >> /\ up = << >>
  /\ closed = FALSE
  /\ reading = "waiting"
  /\ reader = NewReq
  /\ served = << >>
  /\ torn = {}
  /\ exited = "no"

-----------------------------------------------------------------------------
(* Native end *)

\* A worker that neither waits in recv() nor runs the loop of the read task: only
\* then are tasks resumed and the events of the socket noticed.
Busy == (IF writing THEN 1 ELSE 0) + (IF reading = "looping" THEN 1 ELSE 0)

Spare == Busy < ThreadLimit

\* send(), called by a consumer of the transport.
Send(m) ==
  /\ Running
  /\ \A i \in DOMAIN sent : sent[i] # m
  /\ sent' = Append(sent, m)
  /\ rx' = Append(rx, Frame(m))
  /\ UNCHANGED <<writer, down, javascript, pushing, up, readTask, torn, exited>>

\* A worker takes up the write task: for the first time, after a yield, or
\* because the socket has room again.
Resume ==
  /\ Running /\ ~writing /\ Spare
  /\ chunk # << >> => Len(down) < Capacity
  /\ writing' = TRUE
  /\ UNCHANGED <<channel, chunk, down, javascript, pushing, up, readTask, torn, exited>>

\* recv() returns the next chunk.
TakeChunk ==
  /\ Running /\ writing /\ chunk = << >> /\ rx # << >>
  /\ chunk' = Head(rx)
  /\ rx' = Tail(rx)
  /\ UNCHANGED <<sent, writing, down, javascript, pushing, up, readTask, torn, exited>>

\* Bug: write instead of write_all.
WriteBug ==
  /\ Running /\ writing /\ chunk # << >>
  /\ down' = down \o First(chunk, Capacity - Len(down))
  /\ chunk' = << >>
  /\ UNCHANGED <<channel, writing, javascript, pushing, up, readTask, torn, exited>>

\* write_all writes what the socket has room for, and waits with the rest, off
\* its worker. After a whole chunk it may be made to yield, too.
Write ==
  /\ Running /\ writing /\ chunk # << >>
  /\ down' = down \o First(chunk, Capacity - Len(down))
  /\ chunk' = After(chunk, Capacity - Len(down))
  /\ writing' \in {chunk' = << >>, FALSE}
  /\ UNCHANGED <<channel, javascript, pushing, up, readTask, torn, exited>>

\* The read task is woken by bytes of the socket.
Read ==
  /\ Running /\ reading = "waiting" /\ Spare /\ up # << >>
  /\ \E n \in ReadSizes : /\ reader' = Add(reader, First(up, n))
                          /\ up' = After(up, n)
  /\ reading' = "looping"
  /\ UNCHANGED <<channel, writer, down, javascript, pushing, served, torn, exited>>

\* Bug: one turn for each read.
LoopOnBug(r) == "waiting"

\* Whether the inner loop of the read task goes on after a turn.
LoopOn(r) == IF IsEmpty(r) THEN "waiting" ELSE "looping"

Call(r) == [ctx |-> r.ctx, bytes |-> r.binary]

\* A reader hands out a frame whose JSON it has not read.
Tear(name, r) == torn' = IF r.ctx = None THEN torn \cup {name} ELSE torn

\* One turn of its loop that finds a whole frame: the handler of the topic, if
\* there is one, is called and answers through the stream.
Serve(read) ==
  /\ read.res = "frame"
  /\ reader' = Reset(read.req)
  /\ reading' = LoopOn(read.req)
  /\ IF read.req.ctx \in Served
     THEN /\ served' = Append(served, Call(read.req))
          /\ sent' = Append(sent, Reply[read.req.ctx])
          /\ rx' = Append(rx, Frame(Reply[read.req.ctx]))
     ELSE UNCHANGED <<served, channel>>
  /\ Tear("reader", read.req)
  /\ UNCHANGED <<writer, down, javascript, pushing, up, exited>>

\* One turn that finds none: without a wait in it, the loop keeps its worker.
Spin(read) ==
  /\ read.res = "null"
  /\ reader' = read.req
  /\ reading' = LoopOn(read.req)
  /\ UNCHANGED <<channel, writer, down, javascript, pushing, up, served, torn, exited>>

\* One turn that fails: logged, then process::exit(1).
Refuse(read) ==
  /\ read.res \notin {"frame", "null"}
  /\ reader' = read.req
  /\ exited' = "Block read error."
  /\ UNCHANGED <<channel, writer, down, javascript, pushing, up, reading, served, torn>>

ReadTurn ==
  /\ Running /\ reading = "looping"
  /\ \E read \in {ReadBlock(reader)} : Serve(read) \/ Spin(read) \/ Refuse(read)

\* read() returns 0: the task ends; the write half stays open.
Disconnect ==
  /\ Running /\ reading = "waiting" /\ Spare /\ closed /\ up = << >>
  /\ reading' = "ended"
  /\ UNCHANGED <<channel, writer, down, javascript, pushing, up, reader, served, torn, exited>>

-----------------------------------------------------------------------------
(* JavaScript end *)

native == <<channel, writer, readTask>>

\* push(): the frame goes to the socket; what it does not take yet Node.js keeps.
Push(m) ==
  /\ Idle /\ ~closed
  /\ \A i \in DOMAIN pushed : pushed[i] # m
  /\ pushed' = Append(pushed, m)
  /\ up' = up \o Frame(m)
  /\ UNCHANGED <<native, down, javascript, closed, torn, exited>>

\* stop(): this half of the connection is ended; the other may still send.
Stop ==
  /\ Idle /\ ~closed
  /\ closed' = TRUE
  /\ UNCHANGED <<native, down, javascript, pushed, up, torn, exited>>

\* A data event: the bytes join the shared reader.
Data ==
  /\ Idle /\ down # << >>
  /\ \E n \in ReadSizes : /\ req' = Add(req, First(down, n))
                          /\ down' = After(down, n)
  /\ looping' = TRUE
  /\ UNCHANGED <<native, handling, dispatched, pushing, up, torn, exited>>

\* Bug: the handler is called without a look whether there is one.
DispatchBug(read) ==
  /\ read.res = "frame"
  /\ req' = Reset(read.req)
  /\ dispatched' = Append(dispatched, Call(read.req))
  /\ handling' = handling \cup {read.req.ctx}
  /\ looping' = FALSE
  /\ Tear("req", read.req)
  /\ UNCHANGED <<native, down, pushing, up, exited>>

\* One turn of the loop that finds a whole frame. With a handler the event is
\* suspended; without one the loop goes on unless the buffer is empty.
Dispatch(read) ==
  /\ read.res = "frame"
  /\ req' = Reset(read.req)
  /\ IF read.req.ctx \in Handled
     THEN /\ dispatched' = Append(dispatched, Call(read.req))
          /\ handling' = handling \cup {read.req.ctx}
          /\ looping' = FALSE
     ELSE /\ looping' = ~IsEmpty(read.req)
          /\ UNCHANGED <<dispatched, handling>>
  /\ Tear("req", read.req)
  /\ UNCHANGED <<native, down, pushing, up, exited>>

\* One turn that finds no whole frame: the loop ends only if the buffer is empty.
Incomplete(read) ==
  /\ read.res = "null"
  /\ req' = read.req
  /\ looping' = ~IsEmpty(read.req)
  /\ UNCHANGED <<native, down, handling, dispatched, pushing, up, torn, exited>>

\* One turn that fails: logged, then process.exit(1).
Reject(read) ==
  /\ read.res \notin {"frame", "null"}
  /\ req' = read.req
  /\ exited' = read.res
  /\ UNCHANGED <<native, down, looping, handling, dispatched, pushing, up, torn>>

Turn ==
  /\ Running /\ looping
  /\ \E read \in {ReadBlock(req)} : Dispatch(read) \/ Incomplete(read) \/ Reject(read)

\* Bug: the data event ends after its first handler.
ReturnBug(m) ==
  /\ Idle /\ m \in handling
  /\ handling' = handling \ {m}
  /\ UNCHANGED <<native, down, req, looping, dispatched, pushing, up, torn, exited>>

\* A handler's promise is settled: its data event goes on with its loop.
Return(m) ==
  /\ Idle /\ m \in handling
  /\ handling' = handling \ {m}
  /\ looping' = ~IsEmpty(req)
  /\ UNCHANGED <<native, down, req, dispatched, pushing, up, torn, exited>>

-----------------------------------------------------------------------------

Native == (\E m \in Sends : Send(m)) \/ Resume \/ TakeChunk \/ Write
          \/ Read \/ ReadTurn \/ Disconnect
JavaScript == (\E m \in Pushes : Push(m)) \/ Stop \/ Data \/ Turn
              \/ \E m \in Handled : Return(m)

\* The process is over, or has carried all there was to send: the only places
\* where the model stops.
Rest ==
  /\ \/ ~Running
     \/ /\ Len(sent) = Cardinality(Sends \cup {Reply[call.ctx] : call \in ToSet(served)})
        /\ rx = << >> /\ chunk = << >> /\ down = << >> /\ reading = "ended"
        /\ ~looping /\ handling = {}
  /\ UNCHANGED vars

Next == Native \/ JavaScript \/ Rest

Spec == Init /\ [][Next]_vars

-----------------------------------------------------------------------------
(* Safety *)

\* What the handler of m should be given.
CallOf(m) == [ctx |-> m, bytes |-> Binary(m)]
Frames(s) == FlattenSeq([i \in DOMAIN s |-> Frame(s[i])])

Bytes == Seq(Byte)

\* Every variable has its type.
TypeOK ==
  /\ {sent, pushed} \subseteq Seq(Message)
  /\ rx \in Seq(Bytes)
  /\ {chunk, down, up} \subseteq Bytes
  /\ {req, reader} \subseteq Req
  /\ {writing, looping, closed} \subseteq BOOLEAN
  /\ handling \subseteq Handled
  /\ torn \subseteq {"req", "reader"}
  /\ reading \in {"waiting", "looping", "ended"}
  /\ dispatched \in Seq([ctx : Handled, bytes : Bytes])
  /\ served \in Seq([ctx : Served, bytes : Bytes])
  /\ exited \in {"no", "Block read error.", "Invalid JSON.", "Invalid meta.",
                 "The maximum size of the meta has been exceeded."}

\* Of the messages, the first were handed out: those with a handler in their order,
\* each once and with the bytes it was sent with. The frame begun and the bytes on
\* their way are what was sent of the others.
Carried(messages, handlers, out, r, way) ==
  \E k \in 0 .. Len(messages) :
    LET called == {i \in 1 .. k : messages[i] \in handlers}
        rest == Frames(After(messages, k))
    IN  /\ \E f \in [DOMAIN out -> called] :
             /\ \A i \in called : \E j \in DOMAIN out : f[j] = i
             /\ \A i, j \in DOMAIN out : i < j => f[i] < f[j]
             /\ \A j \in DOMAIN out : out[j] = CallOf(messages[f[j]])
        /\ First(rest, Taken(r)) \o r.buff \o way = rest

DownIntact == Carried(sent, Handled, dispatched, req, down \o chunk \o FlattenSeq(rx))
UpIntact == Carried(pushed, Served, served, reader, up)

\* However the socket splits and joins, in both directions no byte is lost,
\* repeated or swapped, and handlers are called in the order of the sends, each
\* message once, with its own binary part; unless a reader took JSON for a
\* binary part.
StreamIntact ==
  Running => /\ "req" \in torn \/ DownIntact
             /\ "reader" \in torn \/ UpIntact

\* Read on the fly, block by block, a frame is handed out when it is whole, and none
\* is refused.
FramesWhole == Running /\ DownIntact /\ UpIntact

\* Bytes wait in a reader only for a data event or a read task that is looping or
\* suspended: no frame is left behind with nobody to read it.
NoStrandedFrame ==
  Running => /\ ~looping /\ handling = {} => IsEmpty(req)
             /\ reading # "looping" => IsEmpty(reader)

\* It exits over a well formed frame in two cases only: the reader had taken the
\* JSON of the frame in an earlier turn, and what it refused was the binary part; or
\* it had taken JSON for a binary part, and what it refused was the rest.
RefusesOnlyBinary ==
  ~Running => IF exited = "Block read error."
              THEN AwaitsBinary(reader) \/ "reader" \in torn
              ELSE AwaitsBinary(req) \/ "req" \in torn

-----------------------------------------------------------------------------
(* Liveness *)

\* tokio runs a task that can go on as long as a worker is spare, libuv the events
\* of the socket; a handler's promise is settled some time. The application calls
\* send(), push() and stop() when it likes.
Fairness ==
  /\ WF_vars(Resume) /\ WF_vars(TakeChunk) /\ WF_vars(Write)
  /\ WF_vars(Read) /\ WF_vars(ReadTurn) /\ WF_vars(Disconnect)
  /\ WF_vars(Data) /\ WF_vars(Turn)
  /\ \A m \in Handled : WF_vars(Return(m))

FairSpec == Spec /\ Fairness

\* A data event gives the JavaScript thread back.
LoopEnds == looping ~> ~looping \/ ~Running

\* The loops of both ends end, except at one place: in front of an incomplete
\* frame with the rest still to come, or of what a torn one has left.
LoopsOnlyOnPart ==
  /\ looping ~> ~looping \/ ~Running \/ Begun(req) \/ "req" \in torn
  /\ reading = "looping" ~>
       reading # "looping" \/ ~Running \/ Begun(reader) \/ "reader" \in torn

\* Every message that got into the channel reaches its JavaScript handler, also
\* when other handlers are slow, the socket is full or the JavaScript half has
\* been ended, unless a reader is stuck.
EveryFrameDispatched ==
  \A m \in Handled :
    (\E i \in DOMAIN rx : rx[i] = Frame(m)) ~>
      ~Running \/ Begun(req) \/ "req" \in torn
      \/ \E i \in DOMAIN dispatched : dispatched[i].ctx = m

\* Every message pushed by JavaScript reaches its native handler although the
\* write task keeps a worker, as long as there is another one.
EveryPushServed ==
  \A m \in Served :
    (\E i \in DOMAIN pushed : pushed[i] = m) ~>
      ~Running \/ Begun(reader) \/ "reader" \in torn
      \/ \E i \in DOMAIN served : served[i].ctx = m

=============================================================================
