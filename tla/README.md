# Verification of arnelify-broker-node

TLA+ models of the broker's message paths, the TLC runs that check them on small
instances, and TLAPS proofs for every size. Source paths are relative to the
repository, with the prefix `src/`: `umqt.rs` is `native/src/transport/umqt.rs`,
`uds.rs` is `native/src/ipc/uds.rs`, `lib.rs` is `native/src/lib.rs`, `index.ts`
is `src/ipc/uds/index.ts` unless another directory is named.

## 1. The system

An application in Node.js creates a `UMQT` object (`src/transport/umqt.ts`). Each
of its methods is one call of the Neon binding (`lib.rs`), which keeps two maps
from ids to objects: the transport `UMQT` (`umqt.rs`), which exchanges UDP datagrams
with other processes, and a `UnixDomainSocket` server (`uds.rs`). A message that
arrives by UDP is handed to a native consumer, which writes it as a frame to the
Unix socket; the JavaScript end of that socket, in the same process, reads frames
and calls the application's handlers. `RPC` (`src/rpc/index.ts`) makes requests and
responses of any message channel; without another producer it calls its own
consumers.

| Part | State | Operations | Status |
| - | - | - | - |
| UMQT transport, `umqt.rs` | `topic_servers`, `consumers`, `jobs`, `notify_discovery`, `notify_sent`, `notify_finish`, socket, resend tasks | new, add_server, on, send, start, stop, the acceptor's handlers of `i`, `v`, `x` and data | modelled: `Umqt` |
| Datagram framing, `UMQTReq` | none between datagrams | read_block | by its outcome, in `Umqt` |
| Unix socket, native side, `uds.rs` | `UDS_STREAMS`, per connection a channel, a write task, a read task and its reader; the workers of a runtime | send, acceptor, both tasks, start, stop | modelled: `Uds` (one connection, bytes), `Connections` (several, messages), `Lifecycle` (the listener) |
| Unix socket, JavaScript side, `index.ts` | the reader shared by all data events, `cb_handlers`, `client` | start, data events, push, stop | modelled: `Uds`, `FrameReader`, `Connections` |
| Neon binding, `lib.rs` | `UMQT_MAP`, `UMQT_UDS_MAP`, the JavaScript thread, one thread per listener and per transport | one function per method | `Lifecycle`; the consumers of `umqt_on` in `Connections`. Left out: the argument at 224 and `umqt_logger` |
| UMQT class, `umqt.ts` | `handlers` | constructor, start, stop, send, on, add_server | `Lifecycle`, the last two in `Umqt` |
| RPC, `src/rpc/index.ts` | `MAP`, `consumers`, hooks, streams | on, the sends and pushes, set_consumer, set_producer, the consumers of requests and responses | modelled: `Rpc` |
| `build/`, tests, docker, entry points | – | – | not modelled: generated, demonstrations, re-exports |

**How the transport works.** `send` asks every server of the topic with `i`, at once
and every 300 ms, until one answers `v`. The acceptor that receives the first `v`
takes the request out of `notify_discovery` and its bytes out of `jobs`, and sends
that server the data (prefix `_`): once for an unreliable message, whose `send` then
returns, or from a task that repeats it every 300 ms. The server acknowledges
reliable data with `x` and then calls its consumer. The first `x` wakes `send`
through `notify_finish` and ends the task through `notify_sent`.

**What is hard.** The network loses, reorders and repeats; several servers answer;
the acceptor awaits locks between two removals; `stop` can drop a handler at an
await; a process can end between acknowledging and handling; `send` blocks the
JavaScript thread with a lock held and has no timeout. On the Unix socket, data
events run concurrently on one reader, a byte stream has no frame boundaries, and a write
task keeps a worker thread while it has nothing to write. A `start` passes through three
threads and a path that all instances share; `stop` reaches only threads that wait.
`PROJECT.json` lists each hazard at its line, with the properties about it.

**What makes each part correct.**

- Transport: one receiver per request, the first to answer; an acknowledged message
  was received; no wakeup is lost; the resend task lasts until the acknowledgement
  and not for ever; the maps drain; reliable messages keep their order; unreliable
  ones arrive at most once; sends return.
- Unix socket: every frame reaches its handler once, whole, in order, in both directions;
  the threads are given back; well formed input is never refused; a restart loses nothing.
- Binding and class: a client meets the listener of its own start; a process does not end
  over its own files; `start` resolves and then the transport is ready; native calls return.
- RPC: a call returns once, with the first response to its own request; a call that
  reached a handler is not forgotten; `MAP` holds the open calls and nothing else; after a
  hook that answered nobody else is asked to.

## 2. Modules

| Module | What it is |
| - | - |
| `Anycast` | what `umqt.send` promises: submit, choose one receiver, take, run, return |
| `Umqt` | the transport in several processes on a network |
| `UmqtAnycast` | the refinement mapping from `Umqt` to `Anycast` |
| `UmqtProofs` | theorems about `Umqt`: types, one receiver, what acknowledgement means |
| `UmqtWakeups` | theorems about `Umqt`: maps, permits and resend tasks, order, at most once |
| `UmqtAnycastProofs` | theorem: `Umqt` implements `Anycast` |
| `MCUmqt`, `MCUmqt_*.cfg` | instances of `Umqt` |
| `FrameReader` | `UnixDomainSocketReq` as operators on a record, for both languages |
| `Uds` | one connection of the Unix socket, bytes in both directions; uses two readers of `FrameReader` |
| `Channel` | what one direction of a connection promises: a queue of whole messages, that may end |
| `UdsChannel` | the refinement mapping from `Uds` to `Channel`, once for each direction |
| `UdsProofs` | theorems about `Uds`: types, no frame is forgotten |
| `UdsStreamProofs` | theorems about `Uds`: the bytes and messages of both directions, the refinement, the loops |
| `MCUds`, `MCUds_*.cfg` | instances of `Uds` |
| `Lifecycle` | the instances of a process: class, binding, listener threads, transport threads, the path |
| `LifecycleProofs` | theorems about `Lifecycle` |
| `MCLifecycle`, `MCLifecycle_*.cfg` | instances of `Lifecycle` |
| `Connections` | the connections of one instance over its starts and stops, on the workers of one runtime |
| `Delivery` | what an instance promises a message it has received: receive, handle, destroy, lose |
| `ConnectionsDelivery` | the refinement mapping from `Connections` to `Delivery` |
| `ConnectionsProofs` | theorems about `Connections`, the refinement among them |
| `MCConnections`, `MCConnections_*.cfg` | instance of `Connections` |
| `RemoteCall` | what `rpc.send` promises: make, offer, settle, return |
| `Rpc` | calls, handlers and hooks in several processes, with their own consumers or a transport |
| `RpcRemoteCall` | the refinement mapping from `Rpc` to `RemoteCall`, and the inductive invariant |
| `RpcProofs` | theorems about `Rpc` |
| `MCRpc`, `MCRpc_*.cfg` | instances of `Rpc` |

The modules cover the system at three grains, and each takes over what another shows.
`Lifecycle` has the threads and the path, and its `OwnListener` is why `Connections` may
connect a client to the listener of its own start. `Connections` has whole messages on
several connections, and `Uds` the bytes of one: that it implements `Channel` is why a
connection may be taken for two queues of messages. `Umqt` has the datagrams of running
transports, and `Lifecycle` how one comes to run and to stop.

Definitions whose comment starts with `Bug` are plausible mistakes in the code; no
specification uses them. They document what each property would notice.

### Umqt

One process per element of `Node`, each with one transport. The maps keyed by request
id are sets of keys `<<process, id>>` (`notify_*`) or a function (`jobs`); a `Notify`
is a permit, because `notify_one` stores one and each has one waiter; the resend tasks
are the set of data datagrams they repeat. `send_pc` is where the code of `send` waits:
`discover` at line 594 or 625, `finish` at line 638.

| Action | Code (`umqt.rs` if not said) |
| - | - |
| `Create`, `AddServer`, `On`, `Start` | 300-326, 497-519, 527-531, 642-694 |
| `Stop` + `Unbind` | 702-704 with the loop 678-694, and 696-698 |
| `Send` | 533-622, up to the first tick |
| `SendBeforeStart` | 552-556, the exit |
| `DiscoverTick`, `Discovered`, `Finished` | 592-638 |
| `ReceiveI`, `ReceiveV`, `ReceiveX` + `Release` | 359-374, 375-443, 444-461 |
| `ReceiveUnreliable`, `ReceiveReliable` + `Handle`, `ReceiveTruncated` | 462-489, 492-493 |
| `ResendTick`, `ResendStop` | 430-442 |
| `Crash`, `Lose` | the operating system and the network |

What is atomic, and why:

- The four insertions of `Send`: nobody else can know the request id before the first
  `i` is sent.
- `ReceiveV`: after the removal under the lock of `notify_discovery` no other handler of
  the request finds it, `jobs` is read by nobody else, and `notify_sent` is only read.
- The handler of `x` is two steps, `ReceiveX` and `Release`: between them `send` may
  return, the resend task may tick, and `stop` may drop the handler at the second lock.
- Reliable data is two steps: `x` is on the network before the consumer is called.
- The acceptor handles one datagram at a time (`acceptor[n]`), since the loop of
  `start` awaits it.

`Blocked` is the guard on the application's calls: `umqt_send` (`lib.rs:220-237`) holds
the lock of `UMQT_MAP` and the JavaScript thread until `send` returns. `Vanish` is what
the end of a process takes with it: everything but the datagrams in flight. The clock
behind the request ids goes on across restarts; that it is never set back is an
assumption. Ids of two processes may be equal.

A stop is effective only if it finds the loop waiting: while a handler runs to its end
without an await, `notify_waiters` wakes nobody. Such a call changes nothing and is no
action. Until the thread of `start` has forgotten the socket (`Unbind`), a `send` still
finds it and waits for an answer no acceptor will read; `SendReturns` is therefore about
sends of a running transport. A send that waits keeps that socket, as every resend task does, so
no other `start` gets the port before they end (`PortFree`).

`handled`, `winner`, `lost` and `leaked` are history: how often a consumer ran for a
request, whose answer came first, what was acknowledged and never handled, and which
resend tasks a stop cut off from their `x`. No action reads them as a guard.

### FrameReader and Uds

A byte is the pair of the message it was written for and its place in the frame, so a
part is intact exactly if it equals the part that was written. Parsing succeeds on
exactly the bytes of one JSON text or one meta: binary parts are taken not to be JSON by accident,
and other text not to be a meta. Where else a frame has a ":", at which a reader that has lost its
place looks for a meta, is `BodyColons`. A frame without its JSON has the topic "", for which there
is no handler.
Every method of `UnixDomainSocketReq` is an operator from a reader to a reader, and
`ReadBlock` gives the result of `read_block` with it: `frame` for 1, `null`, or the
error text. `has_body` is left out: it is set only with the result 1, and the caller
resets the reader before it reads again. The two classes, in Rust and in TypeScript,
differ only in whether the buffer is emptied with an error, after which the process exits.

| Action | Code |
| - | - |
| `Send` | `uds.rs` 475-508, to a connection that is registered |
| `Resume`, `TakeChunk`, `Write` | `uds.rs` 337-344: a worker polls the write task, `recv` returns, `write_all` in as many steps as the socket makes of it |
| `Read` | `uds.rs` 352-362 |
| `Serve`, `Spin`, `Refuse` | one turn of the inner loop, `uds.rs` 364-412, by the result of `read_block` |
| `Disconnect` | `uds.rs` 355-359 |
| `Push`, `Stop` | `index.ts` 226-247, 307-311 |
| `Data` | `index.ts` 272-273 |
| `Dispatch`, `Incomplete`, `Reject` | one turn of the loop, `index.ts` 275-294, by the result of `read_block` |
| `Return` | `index.ts` 287 when the handler's promise is settled, and 294 |

`writing` and `reading` say whether the two tasks keep a worker: the write task in `recv`
and between two waits, the read task while it loops. `Spare` is the guard of every step
that needs another worker, the events of the socket included. With `thread_limit` 1 the
write task, once it waits in `recv`, leaves none for the read task.

`torn` is history: the readers that have handed out a frame without its JSON. No guard reads it.

`looping` says that a data event is in its loop, which is synchronous between two
awaits, so that no other JavaScript runs (`Idle`). A suspended event is known by the
message whose handler it awaits. `process.exit` follows the log line within the same
turn: the default logger does not wait, and nothing replaces it.

No code of the package calls `push` of the JavaScript side or `on` of the native side;
what they do for an application that does is `Pushes` and `Reply`.

`Rest` lets the model stop where it should, when the process has exited or everything
sent has been carried; any other state without a step would be reported as a deadlock.

### Lifecycle

An instance is its id, as in the maps of the binding; a start is one call of `start()`
of any instance, and its number also names the listener, the client and the transport
thread it makes. The JavaScript thread is `js`: idle, or in one native call that waits.

| Action | Code |
| - | - |
| `Create` | `lib.rs` 103-153, with the throw between the two maps |
| `StartIpc`, `Dial` | `lib.rs` 239-265 up to and after `rx.recv()`; `Dial` goes on to `index.ts` 250 |
| `Connected` | `index.ts` 253-254 with `umqt.ts` 96 and `lib.rs` 267-281 |
| `Look`, `Remove`, `Bind` | `uds.rs` 518, 519-530, 533-547 with `on_start()` |
| `Listen`, `Accept`, `Close` | the loop `uds.rs` 549-562 |
| `BindPort`, `Receive`, `Consume`, `Leave`, `Unbind` | `umqt.rs` 655-676, the loop 678-694, 696-698 |
| `Stop` | `lib.rs` 283-300 |
| `Destroy`, `DestroyReturns` | `lib.rs` 155-168 |
| `Send`, `SendReturns` | `lib.rs` 220-237 with `umqt.rs` 546-558 |
| `ForeignStart` | another process: it removes the file, or binds one |

`told` holds the threads that `notify_waiters` has woken and that did not run yet. `select!`
takes either branch when both are ready, and the notification is then gone: `Accept` and
`Consume` remove the thread from `told`. A thread that is not in its `select!` is not told.

A `start` finds the port taken by a thread of the instance that has its socket or by a `send`
that waits (`PortHeld`). Resend tasks are `Umqt`'s: that one may hold the port after a stop is a choice
of `BindPort` once a thread of the instance has ended (`PortLeft`).

`Consume` is here for one branch only: `UnixDomainSocket::send` exits if the table exists but
lacks the instance. The process of `ForeignStart` is not modelled, only what it does to the
path while this process looks at it. Unbinding a socket does not remove its file, so a file of
an earlier start, or of an earlier process, may lie there (`Init`). Connecting is synchronous
in Node.js for a path: whether somebody is bound is decided in `Dial`.

`native.umqt_destroy` and `native.umqt_logger` are exported but the class calls neither. The
first is modelled, as what it does; the second only swaps a callback.

### Connections

One instance. A start makes a listener and a client at once (`Connect`), which is what
`Lifecycle` shows; what follows is who registers, writes, reads and listens, over several
starts.

| Action | Code |
| - | - |
| `Connect`, `Connected` | `index.ts` 250, and 251-296 after the connect event |
| `Stop` | `umqt.ts` 99-102: `lib.rs` 283-300 and `index.ts` 307-311 |
| `HandleMessage` | `index.ts` 272-296, for a whole message |
| `Accept`, `Close` | `uds.rs` 315-346, 551-563 |
| `Poll`, `Write`, `WriteEnds` | the write task, `uds.rs` 337-344 |
| `ReadEnds` | `uds.rs` 355-359 |
| `Consume` | `lib.rs` 200-209 with `uds.rs` 488-507 |
| `Destroy`, `DestroyReturns` | `lib.rs` 155-168 |
| `DropRuntime` | the last owner of the socket drops its runtime |

`this.client` is one field (`Client`): the client of the last start, also for a `start()`
whose connect event comes later. The sender of a channel is kept by `UDS_STREAMS` and by the
read task, so the write task ends when a later start has taken the place in the table and the
client has been ended. Nothing removes an entry: after the last stop the write task waits on.
While it does, the runtime cannot be dropped, which waits for tasks in the middle of a poll.

### Rpc

A call is `<<process, number>>`, its request id. In the code the id is a clock reading, cut to 100 ns: that no
two processes read the same, nor two calls of one, is an assumption of the model. (Between the processes of
`Umqt` ids may be equal.) A run is one execution of `req_consumer`
with its `RPCStream`; an answer is the number of a run and of the push in it. What a phase
of a run does (the hook `_before`, the handler, the hook `_after`) is the application's
choice: it pushes any number of times and returns.

| Action | Code (`src/rpc/index.ts`) |
| - | - |
| `SetConsumer`, `SetProducer`, `On` | 522-528, 370-436 |
| `Call`, `Return` | `send`, `send_bytes`, `send_json` of `RPC` (438-520) and of `RPCStream` (241-323), before and after their await |
| `Push`, `Pushed` | `push`, `push_bytes`, `push_json` (197-239), before and after their await |
| `PhaseReturns` | 402-409: the next phase, by what `sent` is now |
| `Deliver`, `Lose` | a message of the transport reaches `umqt_on` (`umqt.ts` 77-87), or not |
| `Exit` | the operating system; the process starts again empty |

The default producer calls the consumer within the same turn of JavaScript, so `Call`
starts the run and `Push` settles the call in the same step. With a transport the message
goes into `channel`, addressed to one of the servers of its topic (`Route`), which is what
`Anycast` promises; a reliable one may be delivered again, another may be lost. `umqt.send`
blocks the JavaScript thread until the receiver has the message, so nothing of the sender
happens in between. A route is never empty: without a server `send` blocks for ever, which
is `Umqt`'s concern.

A whole message is read at once by a reader of its own, so of `RPCReq` the outcome counts:
a run, or a warning if JSON has left out the payload `undefined`. `is_reliable` of `send`
and `push` only becomes a field of the JSON that nobody reads; the producer decides.

`Discipline` says what a run takes for granted of the application: that it sets up before it
calls (`prepared`), awaits its pushes (`awaits`), answers in `_after` at the latest
(`answers`). The promise of `RemoteCall` needs none of them.

## 3. Runs

| Run | Instance | What it shows |
| - | - | - |
| `umqt_anycast` | client, two servers, 1 request, duplicates, 1 process end; servers symmetric | who gets a message, wakeups, resending, that every datagram speaks for a request that was made, refinement of `Anycast`, with what acknowledgement means |
| `umqt_sequence` | client, one server, 2 requests, payloads that fit and that do not | order; what does not fit arrives on no way |
| `umqt_liveness` | client, one server, 1 stop, 1 process end, fair | sends return, acknowledged messages are handled, tasks end and can be ended, maps drain, unreliable messages arrive at most once |
| `uds_frames` | 2 messages down, 2 up, 1 answered, socket of 11 bytes, reads of 4 or 20, 2 workers, fair | integrity and order in both directions, nothing stranded, every message dispatched and served; the process exits, loops spin and messages are dropped only where findings 1 and 2 say; each direction is a queue (`Channel`) |
| `uds_partial` | 1 message, reads of 3 bytes | **violated**: the loop over an incomplete frame never ends |
| `uds_binary` | 1 message, reads of 4 bytes, inside its JSON | **violated**: bytes of the JSON are handed out as a whole frame, and the message is lost |
| `lifecycle_starts` | 2 instances, 2 starts, 1 stop, 1 step of another process, fair | own listener, path errors, whom the JavaScript thread waits for, native calls return, `start` resolves |
| `lifecycle_early` | the same | **violated**: a `send` after `start` resolved ends the process |
| `connections_restarts` | 2 starts, 1 stop, 2 messages, 2 workers, fair | each message has somebody who moves it on, all are handled, `umqt_destroy` returns; refinement of `Delivery`, by which none is lost and each is handled once unless starts overlap |
| `rpc_calls` | client and server, 1 call handled twice, 2 pushes each, all disciplines, fair | one phase answers, the first answer counts, no call is forgotten, calls return |
| `rpc_free` | one process, its own consumers or a lossy transport, 2 calls, both payloads, no discipline, 1 process end | `MAP`, refinement of `RemoteCall` |
| `rpc_clients` | two clients of one server, fair | **violated**: a call may never return |

**Bounds of Umqt.** `MaxId` requests per process, `MaxExits` ends and `MaxStops` stops per
behaviour; `MaxHandled` is where the count of handler runs saturates: two runs tell once
from more than once in `umqt_liveness`, elsewhere it only matters whether there was one. One request to two servers already has every race of answers,
since requests share no entry of any map; the interplay of requests is that of order,
which two show. One process end reaches every crash point, on either side, followed by a
restart. The datagrams in flight are a set: `Duplicates` lets the network keep what it
delivers, so copies are covered, and a tick that repeats a datagram still in flight is a
stutter.

**Bounds of Uds.** `MetaLength` 2, JSON of 2 or 3 and binary parts of 0, 1 and 3 bytes are the
smallest lengths with parts that can be split, and with binary parts shorter and longer
than the JSON and than the beginning of it that a read brings, which the reader treats differently. Reads of 20 take all there is, reads of
4 and a socket of 11 bytes split and join frames at many places. Two workers are the least
with which the read task runs. In the code a data event has up to 64 KiB, so that a frame is
split when it is longer, when others before it fill the event, or when the socket is full.
`LoopsOnlyOnPart`, `EveryFrameDispatched` and `EveryPushServed` leave out a reader that stands
in front of a part of a frame (`Begun`), and `RefusesOnlyBinary` says that the process exits only
in the second case of finding 2. All of them and `StreamIntact` leave out a reader that has once taken
JSON for a binary part (`torn`), the first case. This is what remains of the properties the two
violated runs are about; `uds_frames` has reads that tear, in both directions, and reads that do not.

**Bounds of Lifecycle.** Two starts are two instances or one twice, and every pair of threads
that can meet at the path, at the port or in the maps is a pair of starts. One step of another
process, before a look, before a removal, before a bind or before a connect, is each error once.
The run ends where the application does nothing more, which is no deadlock: it does not check for
one (`CHECK_DEADLOCK FALSE`); that calls return is `CallsReturn`.

**Bounds of Connections.** Two starts make the old and the new connection, on two workers as
many as wait in `recv`; two messages are one on each, or two on one. A third start on two
workers would be `Crowded`, which `EveryMessageHandled` leaves out: quick restarts can leave
the new write task without a worker. No deadlock check for the same reason as above.

**Bounds of Rpc.** Two calls show whether a response settles another's (`rpc_free`); two
pushes and two runs, whether the first answer stays (`rpc_calls`). One process end reaches
every point of a call. `MaxRuns` bounds how often a repeated request is looked at. A process
that is its own client and server behind the transport takes every step a pair takes, and
more of them on one `MAP`.

**Fairness.** `Umqt`: weak for the steps of the runtime (ticks, waits that have a permit,
the second halves of handlers) and for `Create` and `Start`, which the operator repeats
after a crash; strong for the receipt of a datagram of each kind and request, which is
what a network that does not lose the same datagram for ever gives to one that is sent
every 300 ms. An acknowledgement is sent again for every repetition of the data, an
answer for every repetition of the question. `Send`, `Stop`, `Crash` and losses are not
fair. `Uds`: weak for both tasks as long as a worker is spare (tokio), the events of the
socket and the turns of the loop (libuv), and for the return of each handler, which is
the application's duty. A turn that changes nothing is not progress: under this fairness
`uds_partial` loops for ever. `Lifecycle`: weak for the threads, which the operating system
runs, and for the return of a `send` whose transport loops, which is `SendReturns` of `Umqt`;
strong for the connect event, because other calls of the application hold the JavaScript thread
in between, again and again. Accepting, consuming and whatever the application calls are not
fair. `Connections`: weak for the tasks, the events and the end of a runtime; not for accepting,
since a `stop` may come first. `Rpc`: weak for what JavaScript owes a settled promise, for
delivery (a transport that is reliable), and for handlers, which push or return; calls,
losses, process ends and setting up are not fair.

## 4. Findings

1. A data event that ends inside a frame makes the JavaScript end loop without end
   (`uds_partial`). The read task of `uds.rs` (364-412) has the same loop.
2. The reader decides by the number of bytes alone which part of a frame comes next. If a data event
   ends inside the JSON and has at least as many bytes of it as the binary part is long, the reader
   skips the JSON and hands out those bytes as the binary part of a whole frame without topic
   (`uds_binary`): the message is dropped without a word, and the rest of its JSON is read as the
   next meta. If the event ends between the JSON and a binary part at least as long as the JSON, the
   reader parses the binary part as JSON and the process exits: the same instance shows that with `c`
   in place of `b`, and `RefusesOnlyBinary` that nothing else is refused. The conditions are
   `index.ts:108` and 136; `uds.rs:175` and 213, `umqt.rs:201` and 238, `rpc/index.ts` have the same.
3. With two clients of one topic, the transport may give a response to the client that
   did not ask: both serve `res:topic`, and the first to answer gets it. It finds no entry in
   its `MAP` and drops it; the call never returns (`rpc_clients`).
4. `start` resolves when the thread of the transport has been spawned, not when it has its
   socket: a `send` of that moment ends the process with "producer called before start()"
   (`lifecycle_early`).

What else the models show is no finding, because the repository promises nothing about it.
A message whose datagram does not fit into the receiver's `block_size_kb` is cut,
unreadable and dropped at every repetition, and a reliable `send` of it never returns
(`OversizeUnheard`); `SendReturns` leaves such payloads out. A call made before its topic has a consumer never
returns, and its entry stays in `MAP`; `CallReturns` and `NoStrandedCall` speak of calls
that reached a handler. A message that arrives before the acceptor has registered the
connection is dropped, or ends the process if another instance was started (`Consume`). A second
`start` before the first has resolved makes both listen to the second client: messages are
handled twice, and the first client is never read (`overlap`). `umqt_destroy` does not return
while a write task waits for a message, nor `umqt_start_ipc` of an instance that was destroyed
(`Hung`), nor a `send` between the end of the transport's loop and the removal of its socket, which keeps the
port from every later `start` while it waits.
A `stop` that finds a handler running, or a connection being accepted, is lost. A `start` that
finds the port taken by the loop it follows resolves without a transport.

## 5. Proofs

`UmqtProofs` proves about `Umqt`, for every set of nodes, topics and payloads and every
bound:

| Theorem | Statement |
| - | - |
| `TypeCorrect` | `Spec => [](TypeOK /\ Issued)` |
| `Invariance` | `Spec => []Inductive` |
| `OneReceiver` | `Spec => []SingleReceiver` |
| `Reliability` | `Spec => []AckedWasReceived` |
| `Provenance` | `Spec => []Genuine` |
| `OversizeNeverReturns` | `Spec => []OversizeUnheard` |
| `FirstAnswerWins` | `Spec => WinnerIsFinal` |

No run checks `WinnerIsFinal` and `AckedWasReceived`: `ImplementsAnycast` includes them, as a receiver
is chosen once there and a reliable send returns after it has the message.

`UmqtWakeups` and `UmqtAnycastProofs` go on from its invariant:

| Theorem | Statement |
| - | - |
| `WakeupsInvariance` | `Spec => [](Inductive /\ Wakeups)` |
| `WakeupKept` | `Spec => []NoLostWakeup` |
| `RepeatedUntilAcked` | `Spec => []ResendWhileUnacked` |
| `RepetitionCanEnd` | `Spec => []ResendCanEnd` |
| `NothingLeftBehind` | `Spec => []MapsDrained` |
| `OneAtATime` | `Spec => []Blocking` |
| `InOrder` | `Spec => []ReceivedInOrder` |
| `ConsumedAlways` | `Spec => []Consumed` |
| `AtMostOnce` | `Spec => []UnreliableAtMostOnce` |
| `KeepsAnycast` | `Spec => ImplementsAnycast`, the refinement of `Anycast` |

`RpcProofs` proves about `Rpc`, for every set of processes and topics, every route,
discipline and bound:

| Theorem | Statement |
| - | - |
| `RpcInvariance` | `Spec => []Inductive` |
| `RpcTypeCorrect` | `Spec => []TypeOK` |
| `NoEntryLeaks` | `Spec => []MapHoldsOpenCalls` |
| `KeepsPromise` | `Spec => ImplementsRemoteCall`, the refinement of `RemoteCall` |
| `OnePhase` | if applications await their pushes (`"awaits" \in Discipline`), `Spec => []OnePhaseAnswers` |
| `NoCallForgotten` | under `OneClient`, `Spec => []NoStrandedCall` |

`OneClient` is what the run `rpc_calls` has: one client for each topic of responses, a reliable
transport, no process end, payloads that JSON keeps, applications of all three disciplines. Without
one of them the property fails, by finding 3 or for a reason named in section 4.

`LifecycleProofs` proves about `Lifecycle`, for any number of instances, starts and stops:

| Theorem | Statement |
| - | - |
| `TypeCorrect` | `Spec => []TypeOK` |
| `Invariance` | `Spec => []Inv` |
| `OwnListenerHolds` | `Spec => []OwnListener` |
| `PathErrorsForeign` | `Spec => []PathErrorsAreForeign` |
| `NoVainWait` | `Spec => []WaitsForSomebody` |

`ConnectionsProofs` proves about `Connections`, for any number of starts, stops, messages and workers:

| Theorem | Statement |
| - | - |
| `TypeCorrect` | `Spec => []TypeOK` |
| `Invariance` | `Spec => []Inv` |
| `NothingLost` | `Spec => []NoneLost` |
| `OnceUnlessOverlap` | `Spec => []HandledOnce` |
| `NobodyStranded` | `Spec => []NoStrandedMessage` |
| `KeepsDelivery` | `Spec => ImplementsDelivery`, the refinement of `Delivery` |

No run checks `NoneLost` and `HandledOnce`, which `ImplementsDelivery` includes.

`UdsProofs` and `UdsStreamProofs` prove about `Uds`, for any messages, sizes of parts, reads and sockets, and any
number of workers:

| Theorem | Statement |
| - | - |
| `TypeCorrect` | `Spec => [](TypeOK /\ Fits)`; `Fits`: the socket holds at most what it can |
| `NoFrameStranded` | `Spec => []NoStrandedFrame` |
| `Invariance` | `Spec => []Inv` |
| `StreamKept` | `Spec => []StreamIntact` |
| `RefusalsKnown` | `Spec => []RefusesOnlyBinary` |
| `KeepsChannels` | `Spec => ImplementsChannels`, the refinement of `Channel` in both directions |
| `LoopsGoOn` | `Spec => []LoopsAdvance` |

`LoopsAdvance` is the safety half of `LoopsOnlyOnPart`, which the run checks with its fairness: a loop that
has found no frame has nothing left, and ends, or stands in front of the beginning of a frame.

They rest on the assumptions named in the modules, which say of what kind the constants are:
`ConstantsAssumption` and `NoneAssumption` of `Umqt` (the absent value is not among the values),
`RpcAssumption` (routes lead to processes), `LifecycleAssumption` (the file of another process
is none of this one's), `ConnectionsAssumption`, `FrameAssumption` and `UdsAssumption` (sizes are
natural numbers, and a read takes at least a byte).

**Argument for Umqt.** None of the properties is inductive by itself. `SingleReceiver` speaks of
data datagrams, which the handler of `v` makes from `jobs` and the request; so one has
to know that a `v` in flight belongs to a request that was made (`Genuine`), that the
clock is ahead of everything that speaks of a request (`Issued`, so that a new `send`
finds its key unused), and that as long as the bytes are in `jobs` there is no winner and
so no data (`Held`, `Unclaimed`). `AckedWasReceived` needs the way back: an `x` in flight or
being handled comes from the winner, which has the message (`Acknowledged`).
`Inductive` is the conjunction. `OversizeUnheard` is inductive with it once it says of all who have a
message that it fits: a message is got only from a datagram that could be read (`Arriving`), and its
bytes are those of the request.

The wakeups need more than what is true of each map. `Books` says which entries and permits a
request may have at each place of its `send`, `Tokens` that a permit and the entry that would give it
never exist together, and `Resending` that only reliable data is repeated. There are ten things a
step can do to one request (`Effect`): nothing, submit it, wake it, take the acknowledgement, drop the
second half of that, and so on. One lemma per action says which of them it does to each request, and the
invariant follows from the effects alone, for all actions at once. Order rests on `Blocking`: a
`send` that waits is the last of its process, and a request beyond the clock was never sent. At most
once rests on `Consumed`: without copies on the network the data of an unreliable message is in
flight only until its handler has run.

For the refinement each action has a lemma that says which step of `Anycast` it is: the `send` is a
submit, the first `v` the choice, the receipt of reliable data the taking, the call of a consumer a
run, and a process end the cut of its calls; all others are stutters. The guards of `Anycast` are
where the three invariants are used.

The proof has a lemma for the types of each group of actions, then for each conjunct one
lemma with a step per action that can disturb it. `NewDatagram` and `NewAcceptor` say once
what an action may add to the network and to a half done handler, and carry the others.

**Argument for Rpc.** A step that settles a call must settle it with an answer offered to it:
so a response in flight must have been pushed by a run of its request (`WasPushed`), and a
run or a request in flight must be of a call that was made (`Asked`), or an answer would be
offered to a call that is new. The end of a process cuts the calls with an entry in `MAP`;
that these are its open calls is `MapHoldsOpenCalls`. One lemma per action then proves the
invariant and the step of `RemoteCall` together, with `Handled`, `Heard` and `Pushing` about
the consumers and the push.

`OnePhase` is an invariant of each run by itself (`RunOf`): who has awaited a push has `sent` set, and
only a phase that finds it unset goes on. `NoCallForgotten` is about the way of an answer
(`Tended`): consumers exist wherever a message is addressed (`Ready`, `Home`, `WellAddressed`), a run
that is over has pushed (`Answering`), and what was pushed for a call that waits is in the channel
until its own client has heard it (`AnswerOnItsWay`).

**Argument for Lifecycle.** Between the look at the path and the connection a start relies on
what it saw. That it may rests on the JavaScript thread: it waits in `umqt_start_ipc` from before
the look until after the bind, so of all listeners one at most is on its way (`Alone`), and what
it has seen is still so (`Established`): a file to remove, no file to bind, and its own file to
connect to. `Unmade` gives a new start a thread that does nothing yet. Every other step leaves
these variables alone (`Untouched`). All of it holds only as long as no other process has
touched the path (`PathKept`).

`WaitsForSomebody` needs of each wait who will end it (`Waits`). While the JavaScript thread is in
`umqt_start_ipc` nobody can call `stop`, and an earlier stop has reached only threads in their loop
(`Reached`), so the thread of that start is not closed (`Served`); it never comes only if the instance was not
in the map when the call asked for it. A `send` that waits found a socket,
and only a stop makes a thread leave its loop and give it back (`Sending`).

**Argument for Connections.** `NoneLost` counts places; the proof says which it is instead
(`InOne`), and needs that a message is new to all of them when it arrives (`OnTheWay`), and that
the channel in the table has its write task (`Written`), so that a message is never given to a
channel nobody reads. `HandledOnce` follows from `OneEach`: without overlap at most the last start
has not resolved, so a client is listened to by its own start only.
`Delivery` keeps what was taken until it is handled or the instance is destroyed, so the mapping
has to know which messages a released runtime has taken with it: `Single` says that a message
that was taken is in one place (`InOne`) or was lost so (`Lost`).

`NoStrandedMessage` asks who belongs to the place a message is in (`Joined`): where a connection has
messages it has a write task, which waits in `recv`, or finds a spare worker unless there are more such tasks
than workers (`SpareOrCrowded`); and what was written is read by the client of a start that has resolved, or
will be when it resolves, if it is the last one.

**Argument for Uds.** The types of a reader are those of the results of each of its methods, by a lemma
per method up to `ReadBlockType`. For `NoFrameStranded` no strengthening is needed: a turn
of a loop ends with the loop going on, with an empty buffer, with a suspended data event, or with the
exit of the process, and bytes are added to a reader only together with its loop.

`StreamIntact` needs to know where in the messages a reader is. `Stands(s, k, r, way)` says it: the
first `k` messages have been read, and the buffer of `r` with the bytes still on their way is the rest of
frame `k + 1` and all frames after it. `Handed` says which of the first `k` messages were given to
handlers, by a map from the calls to the messages that keeps their order. A direction that is not torn is
`Going`: both hold for some `k`. A turn of a reader then has one of four outcomes (`Outcome`): no whole
frame yet; a torn frame, which has no context; the next message, whole; or the refusal of a binary part
that was parsed as JSON. One lemma per method of `UnixDomainSocketReq` leads to `BlockTurn`, which is
the four cases, and one lemma per task (`StreamsWriter`, `StreamsReadTask`, `StreamsJavaScript`) carries
`Inv` over a step; `StreamIntact` and `RefusesOnlyBinary` follow. The frames of a sequence of messages are
the concatenation of a sequence of parts, a recursive function of the library; what it returns for an
appended and for a first part is proved by induction over a set of numbers (`Induction`, from `WFMin`).
`Cat` stands for `\o` there, so that the steps use its few laws and not its definition.

The queue of `Channel` is not a variable of `Uds`: the mapping counts by bytes which messages are wholly behind
a reader (`Place`). `PlaceIs` says that this is the `k` of `Stands`, since what is left of the frames grows
shorter with every message (`LeftShrinks`). Each step is then a put (a `Send` or a `Push`), a take (a
turn that hands out the next message), the break of the channel (a frame torn, or the end of either
side), a step of a broken one, or a stutter. `LoopsGoOn` rests on what `Outcome` says of a turn that finds
no frame: the reader is then short of some part of it (`Short`), and stands in front of its
beginning (`ShortBegun`).

**Only model-checked**: liveness, since fairness and `ENABLED` are beyond the prover, and the
properties of the runs that find a violation.

## 6. Plan

`Uds` has got an abstract specification of its own, `Channel`, where an implementation of `Delivery` was planned:
a connection promises the order of messages too, and nothing about restarts. What is left: the safety
halves of further liveness properties (`CallsReturn`, `DestroyEnds`) as theorems. Everything else that was
planned is in sections 2 to 5.

## 7. Not modelled

The argument of `umqt_send` that is read as `is_reliable` (`lib.rs:224` reads the id again, so only
instance 1 sends reliably): `Umqt` has both values. Contents of payloads beyond their identity; TLS and compression, which the code leaves
to do; logging; `add_server` with an address that does not resolve, which logs and
returns; a second `add_server` of the same address, which only doubles the questions;
errors of `send_to`, which the code ignores and which are losses here; poisoned locks; `umqt_logger`, `on` of
the native Unix socket and `UnixDomainSocketStream` in JavaScript, which nothing in the package uses;
a second process at the socket path beyond the files it makes and removes;
handlers that throw, which end the Node.js process; a clock that is set back.
