# Formal models of the nexus workbench

The workbench is a terminal application: an Electron front end, a Go server
behind it, and helper processes on remote hosts, joined by an RPC layer. This
directory holds TLA+ models of its core protocols, the TLC configurations that
check them on small instances, and TLAPS proofs about them. Paths below are
relative to the repository's root; line numbers refer to the commit the models
were written from. `PROJECT.json` maps every definition to the lines it models.

Contents: [inventory](#inventory) · [modules](#modules) · [runs](#runs) ·
[fairness and assumptions](#fairness-and-assumptions) ·
[disagreements found](#disagreements-found) · [proofs](#proofs) ·
[only model-checked, not modelled](#what-is-only-model-checked-and-what-is-not-modelled) ·
[plan](#plan)

## Inventory

The parts of the system that carry logic of their own, what each keeps, how it
is driven, and what would make it correct. Those in bold are modelled, wholly or in
part; `PROJECT.json` says what is left out of each.

| Component | State | Operations, and who calls them | What is hard | Correct when |
|---|---|---|---|---|
| **Job output ring buffer** `pkg/jobmanager/cirbuf.go` | ring, read and write position, count, bytes ever written, sync/async mode, effective window, a parked writer's channel | `WriteAvailable` from the PTY goroutine; `PeekDataAt`, `Consume`, `SetEffectiveWindow`, `HeadPos` from the stream manager, under another lock | wrap-around, truncation, waking the parked writer | holds the last bytes in order; never leaves the writer parked with room; implements a plain window of positions |
| **Stream client** `pkg/streamclient` | Writer (sequence number, bytes in flight, window, pending `Write`), Reader (next sequence number, buffer, packets held out of order, last window announced), Broker (maps of readers and writers, send queue) | `Write`, `Close`, `Read` from applications; packets and acks from the RPC router, in any order | reordering, duplicates, lost wake-ups, thinned-out acks, removal from both brokers' maps | order, flow control, complete at a clean end, no stuck `Write`, no leaked stream |
| **Stream manager** `pkg/jobmanager/streammanager.go` | connected client, stream id, bytes in flight, acked position, terminal event; two goroutines (PTY reader, sender) and two locks | `ClientConnected`, `ClientDisconnected`, `RecvAck`, `SetRwndSize` from the connection | the PTY writes without the manager's lock between any two buffer calls of a method; resending after a reconnect; the terminal event lost and sent again | window respected, what is in flight is buffered, sender never sleeps on work, end comes last |
| **Durable stream**: `pkg/jobmanager/jobmanager.go`, `mainserverconn.go`, and `restartStreaming`, `runOutputLoop` of `pkg/jobcontroller/jobcontroller.go` | job manager: attached and pending stream; main server: current stream of the job, its readers and output loops, the output file with its gap, `StreamDone` | `PrepareConnect`, `StartStream` by RPC; drop, reconnect, crash of the main server | resuming from the file's size while the old loop still appends; acks by readers that are gone; cached file lost in a crash | the file is the output in order; nothing is let go of unheld; the position to resume from is exact; the end is recorded, and then nothing is missing but what was lost |
| **Job lifecycle** (rest of `jobcontroller.go`, `jobmanager/jobcmd.go`) | job record (manager status, exit code, stream done, connection), per-connection reconcile state, reconnect groups | start, exit notification, termination, pruning, connection up/down reconciliation | exit and end of stream arriving on two goroutines; flapping connections; deletion between query and use | a job whose command exited and whose stream ended is terminated once; no job attached to a block is pruned; a connection that came up has its jobs reconnected |
| **Queues** `pkg/utilds/quickreorderqueue.go`, `workqueue.go` | next number per session, held items, timer | enqueue from many goroutines, a timeout | flush after a timeout, capacity of the out channel under the lock | each session in order, nothing dropped, the lock never held on a full channel |
| **RPC client/server** `pkg/wshutil/wshrpc.go` | pending responses, their channels and timeouts, handlers | request, response, cancel, timeout, finalize | three parties closing one channel; late answers | exactly one end per request, no send on a closed channel, no leaked entry |
| **Router** `pkg/wshutil/wshrouter.go`, `wshproxy.go` | links, routes, upstream, route info of pending requests, backlogs | register/unregister link, bind route, messages, backlog goroutine | route bound while its link is unregistered; backlog wake-ups | an answer goes back the way the request came; no route to a dead link; a backlog drains |
| **File store** `pkg/filestore` | cache entries (file, dirty parts, pins, locks), database | write, append, meta, delete, flush every 5 s | flush against writes, failed flushes, circular files | a read sees the last write; a successful flush makes it durable |
| **Connection controllers** `pkg/remote/conncontroller`, `pkg/wslconn` | status, SSH client, monitor, session with the connserver, health | connect, close, the goroutine that waits for a client's end, keep-alives, input | a client lost while the connection is made, closed or made again; a stall reported after the answer | no client is left open behind the connection; a loss is noticed; a connection that answers is reported as good |
| Event broker `pkg/wps` | subscriptions (all scopes, exact, glob), persisted events | subscribe, unsubscribe, publish | a route subscribed several ways, unsubscribed once | each subscriber gets an event once; history bounded and newest last |
| Object store, workspace core `pkg/wstore`, `pkg/wcore` | workspaces, tabs, blocks, layout | create, move, delete with cascades | several transactions per operation | no orphan, no dangling reference |
| Block controllers `pkg/blockcontroller` | registry of controllers, their status and process | resync, stop, replace, destroy | two resyncs of one block; a stop during a start | at most one running controller per block |
| AI chat, approvals `pkg/aiusechat`, `nexus/mcp` | pending approvals, chat in progress; approval files | request, answer, cancel on close | close between registration steps; an approval used twice | every wait ends; an approval is used once |
| Web server, configuration, builder, Electron, front end, CLI, start-up, telemetry | - | plumbing, I/O, rendering, generated code | - | - |

How the parts of a durable terminal interact: the PTY goroutine of the job manager on the remote
host writes into the **ring**. The **stream manager**'s sender takes packets from
it within the smaller of its own connected window and the client's, and sends them through
a broker over the RPC layer. On the main server the broker hands each packet to the
**Reader** of its stream, which acks what it received and sends window updates
as the output loop reads. The loop appends to the job's file. After a drop the
main server reconnects, reads the size of the file (plus the gaps it knows of),
makes a new Reader there, and calls `PrepareConnect` with that position; the
manager releases what the server has, answers the position it will really start
from, and waits corked (window 0) until `StartStream`. The **Writer** of the
stream client is the other, simpler end of the same packet protocol, used for
file and job-input streams.

Around that stream: keystrokes go the other way and pass the **reorder queue** of the
job manager, since every RPC is handled on its own goroutine. All calls are made by
**RPC clients** and travel through **routers**, one in the main server and one on each remote host. The
job's file is one of the **file store**, whose cache is what a crash loses. The **job
controller** of the main server decides when a job is reconnected, terminated or over,
from the events of the **connection controller**, of the router and of the block.

The hazards this code has are listed in `PROJECT.json`, each at its line with the
properties that would catch it. Where a model shows that the code does go wrong, or
where no property covers a hazard, its note says so.

## Modules

In the stream modules a byte is its position in the output: contents play no role, and
order, loss and repetition show directly; in the file store it is the number of its writing. All locks are modelled by
the atomicity they give: a method that holds one lock throughout is one step,
one that makes several calls under another lock is several.

| Module | Models | Correspondence |
|---|---|---|
| `OutputWindow` | what the ring promises | the interval `head .. total-1` of the output, the mode, the window, whether the writer is parked |
| `CirBuf` | `cirbuf.go` | one variable per field; `waiterChan`/`writer` stand for the channel and the goroutine parked on it; one action per method |
| `StreamBytes` | the packet types of `pkg/wshrpc` used by both ends | `Packet`, `DataPacket`, `Bytes(from, to)` |
| `StreamReader` | `streamreader.go` as operators on a Reader record | `RecvData` with the out-of-order packets, `Read`, `Close`, `UpdateNextSeq`, and when each acks (`AcksData`, `AcksRead`) |
| `StreamPipe` | one stream between Writer and Reader with both brokers, over a transport that loses nothing in the fair specification but reorders and repeats | `w`, `r` are the objects; `Write` is a call followed by a step per wake-up; `ackQueue` is the reader's broker queue, whose processing unregisters the reader |
| `StreamManager` | `streammanager.go` over `OutputWindow` | `sm` has the fields; `pty` and `sender` the two goroutines; `lockHeld` the place inside a method that holds `sm.lock` and makes several buffer calls, between which the PTY may write |
| `DurableStream` | composition: `StreamManager` (instance `SM`), one `StreamReader` per stream, `PrepareConnect`/`StartStream`, `restartStreaming`, the output loops, the file and its cache | `jm`, `attached`: the job manager; `rpc`, `restart`: where a restart is; `current`: `jobStreamIds`; `flushed`: what a crash leaves of the file; `Drop`, `Crash`: the environment |
| `ReorderQueue` | `quickreorderqueue.go`, with the goroutine that reads `outCh` (`processInputQueue`) and the numbers `getNextInputSeq` gives | one action per method, since each holds the lock throughout; `timer` and `forgotten` are the timer the queue knows and those it has forgotten but that still run; `late` stands for the clock |
| `RpcCalls` | both ends of one RPC connection: `wshrpc.go`, `wshadapter.go` and the stream helper of `wshclientutil.go` | `rpcMap`, `resCh`, `ctxDoneCh`, `outputCh`, `inputCh` are the map and the channels; `loop` is where the one goroutine of `runServer` is; `expiry` are the goroutines that report timeouts; `server` the handlers of the other side |
| `Router` | `wshrouter.go`, and the channel of a link's client (`wshproxy.go`) | `link`, `routeMap`, `rpcMap`, `inputCh`, `backlog` are the router's fields; `server` is `runServer` between sending a request and registering it, `pump` the backlog goroutine, `closing` how far `UnregisterLink` has come |
| `JobLifecycle` | the job's record between `StartJob` and its end: `jobcontroller.go`, with what the remote host does for it (`wshremote_job.go`) | `job` is the database row; `routeEvents`, `connEvents` what was published and not handled; `rc`, `tm` the singleflight reconnect and termination and where they are; `recon`, `signal` the reconciler; `session` the remote processes; the output is reduced to the state of its stream |
| `StoredFile` | what the file store promises of one file | `file` is what a reader sees, `stored` what a restart would find |
| `BlockStore` | `pkg/filestore`: the cache and the database of one file | `row`, `dbParts` are the tables; `entries` the cache entries, the ones no longer in `s.Cache` included; `call` where each goroutine is, and on which entry |
| `SshConnection` | one connection of `pkg/remote/conncontroller` with its monitor | `status`, `client`, `monitor`, `health` are the fields; `lifecycle` is who holds `lifecycleLock` and where; `waiter`, `watch` are the goroutines of each client; `ping` is `KeepAliveInFlight` and what became of the request |
| `StreamPipeProofs`, `StreamManagerProofs`, `DurableStreamProofs`, `RpcCallsProofs`, `RouterProofs`, `BlockStoreProofs` | proofs | see [Proofs](#proofs) |
| `BufferProofs`, `JobAndSshProofs` | proofs of `CirBuf` and `ReorderQueue`, of `JobLifecycle` and `SshConnection` | each extends two modules that share nothing; so that it can, `CirBuf` and `SshConnection` call their specifications `RingSpec` and `SshSpec` (`RingInit`, `sshVars` and so on) |
| `MC*` | TLC instances | give constants their values, nothing else |

`OutputWindow` is the abstract specification of `CirBuf`: `ImplementsWindow`
is `Window!Spec` under the mapping head = `HeadPos`, total = `totalSize`.
`StoredFile` is that of `BlockStore`: `ImplementsStoredFile` maps the file to the
cached one where there is one, with its cached parts over the rows, and the stored file to the rows alone.
`StreamManager` is built on the abstract one. `DurableStream` uses the actions
of `StreamManager` unchanged and replaces its "any client" (`ClientStep`) by the
main server's code. Definitions named `X_Something` before an `X` are plausible
wrong versions of `X` ("mutant of X"): no action uses them; each is put in the
place of `X` to see that the property named with it in `PROJECT.json` notices.

Abstractions worth knowing:

- Time is left out or reduced to an order: an RPC that times out is a step, an item of the
  queue grows old before its timer fires, a keep-alive is late only if the host is silent. The
  once-a-second limit on Cancels is a free choice.
- In `StreamManager` the client is arbitrary within the protocol: any position
  to resume from (one beyond the end of the output included), any window up to
  `MaxRwnd`, acks of any stream up to what was sent, repeated and reordered, a
  final ack only after the terminal packet. What the real client does is narrower, so what holds
  there holds in `DurableStream`.
- In `DurableStream` an ack goes straight to the network; the brokers' queues
  are in `StreamPipe`. A packet delivered twice is left to `StreamPipe` too. A
  reconnect makes one attempt, as `doReconnectJob` skips a job that is
  connected; reading and writing the file succeeds.
- `Close` of `StreamManager` is left out: only tests call it.
- `StreamForgotten` of `StreamPipe` is about the readers and writers of both brokers. Their `readerRoutes` and `writerRoutes` keep the
  entry of a stream that is over (`streambroker.go:230-245` deletes only from the other two maps); the model has no such maps.
- In `ReorderQueue` any item of any session may arrive at any time, repeated and
  unnumbered ones included; what a closed queue still holds is lost.
- `RpcCalls` has one connection that lasts. All commands without a response share the empty
  request id, as in the code, so one call's entry may be replaced by another's. A stream may be cancelled at any time after its
  request was sent, by any goroutine (`SendCancel`); of the Cancel message only its sending matters, since the handler may end its stream at any time anyway.
- A link of `Router` is a local client, a leaf router or the upstream; authentication is the one
  step after which a link is trusted. The routes announced upstream and the events about routes are left out.
- `JobLifecycle` has one job. A lost call may or may not have taken effect on the other side. That a
  reconnect's short steps are not overtaken by what takes seconds (`Handled`, `Settled`) is an
  assumption about time, written as guards; the cooldown of automatic attempts (half a minute) ends only when all is settled, for the
  same reason. The events of the route and those of the connection are handled in any order each, as every `EventRecv` is a goroutine of its own.
  The remote side may fail at what it is asked: `RemoteReconnectToJobManagerCommand` answers with an error though the job manager runs,
  with the old connection closed or not (`RcAskFails`), a termination cannot look the process up, or SIGTERM cannot be sent, which is only logged (`SendSigterm`).
  Four ghosts remember what the properties exclude: `missed`, `late`, `early` and `unkilled`.
- `BlockStore` has one file: the cache's map only separates files. A database statement fails, commits
  without its answer being seen, or succeeds; a crash leaves the tables. What `WriteMeta` writes is abstracted
  to the entry becoming dirty.
- In `SshConnection` wsh (its installation, whether it is enabled, the domain socket) appears only as the session of the
  connserver, whose messages are signs of life. A client counts as having any number of them.

## Runs

Deadlock is checked only where the system cannot simply stop: in `CirBuf` a
full window can always be changed or consumed, and the flusher of `BlockStore` always
comes again. In every other model stopping is
legitimate (the output ended, all is acknowledged, the calls are made), so the configurations
say `CHECK_DEADLOCK FALSE` and the liveness properties look for wrong stops.

| Run | Bounds | Shows |
|---|---|---|
| `cirbuf` | ring of 4, writes up to 3, 9 bytes | the ring holds the last bytes across two wraps; a parked writer is registered and the window full; no second waiter; peeks return the right bytes; it implements `OutputWindow` |
| `stream_pipe` | window 2, 3 bytes, writes and reads up to 2, 1 queued ack, 1 repeated delivery, `AckDivisor` 1 (the reader acks as rarely as the code's formula allows) | order, flow control, complete at a clean end, the window's edge never retreats; a `Write` returns; a stream that is over is reported to the reader and forgotten by both brokers |
| `stream_manager` | ring of 4, packets of 2, 5 bytes, both windows 2, 2 connections | in flight is buffered, no lost wake-up, terminal event last, each byte sent once per connection |
| `durable` | ring 3, packets of 2, 2 bytes, windows 2, 2 connections | nothing is released unheld; output reaches the file, the end is recorded, with any subset of packets and acks lost at the drop |
| `durable_crash` | ring 2, writes of 2, 3 bytes, windows 1, 2 connections, 1 crash at any step, flush at any time, an old output loop that only pauses | file in order, the position resumed from accounts for every byte, behind a clean end nothing is missing but what was lost (no gap counts a byte lost behind the position), the cork holds, with the ring overrun while a restart has disconnected the stream, and the old loop still running after it |
| `drop_blocks_pty` | a short trace suffices | what the documentation promises and the code does not keep, see [below](#disagreements-found) |
| `reorder_queue` | capacity 3, 2 sessions, numbers up to 3, 4 items | no send blocks under the lock, the queue never reorders, every accepted item is sent |
| `rpc_calls` | two calls, one of any kind and one command; every channel holds 1; streams of up to 2 responses, cancelled at any time or not | the loop survives but for a response of a cancelled stream, responses in order and none skipped, a call fails only for a reason, every call comes back |
| `router` | 2 leaves and an upstream, 2 requests, clients and input of 1, one leaf may leave | messages to a link in order, answers to the link that asked, no answer stuck |
| `job_lifecycle` | 1 job, 1 fault at any step (connection, route or job manager lost, the remote side fails, or the block is closed during the start), events in any order | recorded as ended only if ended; not terminated before exit and end of output; ends are recorded, sessions reattached, closed blocks cleaned up, once a connection lasts |
| `block_store` | 1 caller and the flusher, parts of 2, circular files of 2 parts, and ijson files; 5 bytes, chunks up to 3, 2 faults or crashes, 1 failed flush tolerated | one entry per file, implements `StoredFile`, everything is saved in the end |
| `ssh_connection` | 2 clients | no client lost, a loss is noticed, an answer ends a stall |

Configurations that no run uses are kept to be run by hand; each violates its property
([below](#disagreements-found)): `MCErrorLosesTail`, `MCCancelConsumes`, `MCUnknownCancel`, `MCLoopRace`,
`MCStaleStart` (with `MCDurableStream.tla`), `MCWriteBehind` (with `MCBlockStore.tla`), `MCTakesDownOwn` and
`MCDegradedIsCleared` (with `MCSshConnection.tla`), `MCCancelPanics` (with `MCRpcCalls.tla`), `MCLateRouteUp` (with `MCJobLifecycle.tla`).

Why these bounds are enough to be of use. The interesting cases are a position
that wraps or is overtaken, a packet that is split by a window, an ack that is
older than, equal to or ahead of another, and a stream id that is stale. Rings
of 3 or 4 with writes of 2 or 3 wrap unevenly; windows smaller than the output
split it; two connections make one id stale; more bytes than the ring holds
overrun it. In `stream_manager` the ring (4) is larger than twice the window,
so a packet that ignores the window can show. `MaxWrite` stands both
for the longest PTY read and the longest packet, as `MaxPacketSize` does in the
code. In `DurableStream` the last connection lasts (`MaxStreams` bounds the
drops), and the first state is the one `StartJob` leaves: stream 1 connected, uncorked,
with its window set, and the PTY not yet read.

In the other models: capacities of 1 make every channel and client full and empty in turn; two calls, two
requests and two sessions are the fewest that can be mistaken for each other; a third item of
a session is needed to be early behind an early one; a part of 2 and a chunk of 3
give writes that cover a part in whole, in part, and across two; a client of a connection that was
replaced once is stale as any.

`durable` has a ring larger than the output, so nothing is overrun there: with an overrun `OutputArrives` runs into the
stale start position of `MCStaleStart.cfg`. Overruns are the subject of `durable_crash`, whose properties hold in spite of them. Its old loop
goes on after the restart (`"pauses"`) and finds itself superseded. Its windows of 1 hide one thing: with windows of 3, what is in
flight can be released by the Cancel of `MCUnknownCancel.cfg`. All safety
properties of `DurableStream` were also checked once with those constants but windows of 2 and an old loop that `"settles"`
(1.9 million states), and `FileInOrder` and `CorkHolds`
with `"pauses"`, drops in the middle of a restart (`RestartsFinish` `FALSE`) and windows of 1.

The safety properties of `DurableStream` were also explored once on instances with
3 connections, larger than the configurations keep, with no violation found:
without crashes, ring 2, packets of 1, 3 bytes, windows 2 (4.6 million states)
and ring 3, packets of 3, 3 bytes, windows 2 (2 million); with a crash, ring,
packets and windows 1, 1 byte (1.5 million) and 2 bytes (about 11.7 million), all four to
the end; and some 15 million states of random behaviours of up to 90 steps at
ring 2, packets of 2, 4 bytes, windows 2 with a crash.

## Fairness and assumptions

`StreamPipe!FairSpec`: delivery in both directions, the brokers' queues, a woken goroutine and an
application that keeps calling `Read` do not all stop while one of them can go on. A stream takes finitely many
steps, so no more is needed. Go schedules every runnable goroutine, the RPC layer
retries nothing but drops nothing either while its link is up, and each side's
loops (`runOutputLoop`, the broker's work queue) have no exit but the end of the stream.
Nothing obliges the application to write or close.

`DurableStream!Fairness`: weak fairness of the PTY and sender goroutines, of the
handlers, of delivery while a packet is not lost, of the output loops, and of
`restartStreaming`. The user or the reconciler need not reconnect; only
`ReconnectingSpec`, used for `OutputArrives` and `EndIsRecorded`, adds that a
lost connection is made again, which is the hypothesis of the promise.

Three assumptions of `DurableStream` are constants, so that each can be lifted
and what then breaks be seen:

- `OldLoop`: what the previous connection's output loop does during a restart.
  The code puts no limit (`"races"`), and then the file can hold bytes twice
  (`MCLoopRace.cfg`). `"pauses"`: it appends nothing between the restart's reading of
  the file's size and its setting of `jobStreamIds`. `"settles"`: it has also
  appended all that arrived before. A reconnect takes seconds and an append
  microseconds, so this is the usual case. `FileInOrder` needs only
  `"pauses"`, `CorkHolds` nothing; `PositionIsExact` can fail under `"pauses"`
  when the window is larger than the 1 of `durable_crash`, see `MCUnknownCancel.cfg`. `durable` assumes `"settles"`, `durable_crash` only `"pauses"`.
- `RestartsFinish`: the connection does not drop in the middle of a restart.
  `TRUE` in `durable`; `FALSE` leads to what `MCCancelConsumes.cfg` shows.
  In `durable_crash` it is `TRUE` too, but a crash may come in the middle of a restart.
- `MaxCrashes`: 0 except in `durable_crash`.

The other models:

- `ReorderQueue`: time passes (what is held grows old, an armed timer fires) and a fired timer gets the
  lock. Nobody has to queue anything more, and the reader of `outCh` need not read: `Delivered`
  speaks of sending.
- `RpcCalls`: the loop runs, contexts expire, the goroutine that reports a timeout keeps trying,
  and callers read. Nothing is asked of the server, so a call may come back only by its timeout.
- `Router`: its two goroutines run and the other sides read what is in their client's channel. Nobody has to ask or
  to answer.
- `JobLifecycle`: handlers, reconciler, singleflight calls, loops and the start go on; a
  lost connection is noticed; a job manager told to exit does. One weak fairness for all of them is enough: some step is made while
  one can be, and nothing is asked of the order. Nobody has to reconnect a connection; the liveness properties
  assume that it is up from some time on (`ConnLasts`).
- `BlockStore`: the flusher comes again, calls finish and unpin, and clients keep calling; faults are finitely many.
- `SshConnection`: the goroutines that can run do, a lock that is given back again and again is got
  (Go's mutexes starve nobody), connecting ends in its timeouts. Starting a session has no
  timeout and may hang while the host is silent (`Hangs`). That a host that answers is asked again and
  again is strong fairness of a check that sends: the ticker fires every 5 seconds, and the
  threshold is passed at some of the checks as long as nothing else is heard.

## Disagreements found

One is a run, `drop_blocks_pty`, and a finding in `PROJECT.json`: while the
connection is down the PTY can stay blocked.
`handleJobDomainSocketClient` defers `disconnectFromStreamHelper`, but returns as soon as
it has started its goroutines; the drop itself calls nothing, and the ring
stays in sync mode. The documentation says output is buffered meanwhile. In the run the
connection drops with an empty window; the output that follows fills it, and the PTY writer waits.

The configurations named in brackets show others, by hand:

1. `Reader.Read` returns a stream's error before the bytes
   still buffered, so acknowledged output is thrown away when the PTY ends with
   an error other than EOF (`MCErrorLosesTail`).
2. A Cancel carries a sequence number, and `RecvAck` takes
   it for an acknowledgement: bytes are released that nobody received (`MCCancelConsumes`: the reader of a restart that failed;
   `MCUnknownCancel`: a packet for a reader that has been closed, where the broker copies the packet's number).
3. The old output loop appends after the restart has read the
   file's size; the bytes are requested again and appear twice (`MCLoopRace`).
4. `ClientConnected` computes the start position before it stops
   the PTY from overrunning the ring; the reader can be told a position whose
   bytes are gone and then waits for good (`MCStaleStart`).
5. `WriteAt` to a circular file at an offset before its window cuts the data rightly (`writeAt`), but tells which parts it fills
   from the offset and the length before the cut (`blockstore.go:253`). A part that the cut leaves partly unwritten is taken as
   complete and not loaded, so its other bytes become zeros (`MCWriteBehind`). Its callers append.
6. The goroutine that waits for the end of an SSH client takes down whatever
   client there is when it gets the lock, a newer one too (`MCTakesDownOwn`).
7. Without wsh nothing ever sets `LastActivityTime`, so no keep-alive is sent, and a connection
   that was reported as degraded after an input stays so (`MCDegradedIsCleared`).
8. `SendCancel`, which every caller of a stream is given (`StreamCancelFn`), closes the stream's response channel on the goroutine
   that calls it. If the loop is about to send on this channel, or is blocked on it because the caller reads too slowly, it panics, and with it the
   connection's only goroutine (`MCCancelPanics`). No caller in the repository uses it so far.
9. Events are handled on goroutines of their own. A routeUp that is handled after the routeDown that followed it
   leaves the job connected without a route (`MCLateRouteUp`), and `doReconnectJob` then skips it until the next routeDown. A routeDown that is
   handled after the next routeUp leaves it disconnected with a route, if the attempt it makes joins the reconnect that is under way.
10. A SIGTERM that cannot be sent is only logged (`wshremote_job.go:352`); the job is recorded as terminated while its session lives
   (excluded from `DoneMeansEnded`).

Seen while reading, not in a model: `EnsureConnection` fails for the second of two callers because
the first has connected; `persistWshInstalled` may say that wsh is enabled after the connserver has ended;
`JobInputCommand` drops input silently when the queue is full; the error for a request without a
route goes to the link that is bound to its source route; `ReadAt` of a plain file panics
for an offset beyond its end; the reorder queue ranks sessions by the millisecond they began in, with nothing to
separate two that began in the same one or after the clock was set back (the model counts sessions, so this does not show); `ListFiles` may return the size of a file before its last writes; a failed `StartJob` whose answer was
lost is recorded as a startup error while the session lives (excluded from `DoneMeansEnded`).

## Proofs

TLAPS proves the following for every value of the constants that the named
assumptions allow (for the ring and the stream manager `CirBufAssumption`, `StreamManagerAssumption`: sizes are
positive naturals, a packet fits the ring, windows fit the ring; the bounds
`MaxTotal` and `MaxStreams` are arbitrary naturals).

**`BufferProofs`, the ring.** `RingAndWriter` is `RingInv` (types; the count is within what was
ever written; in async mode it is within the window; `RingHoldsWindow`) and
`ParkInv` (`ParkedOnlyWhenFull`, `NoSecondWaiter`). The bound on the count in
async mode is what makes truncation and overwriting agree with dropping the
oldest bytes; `NoSecondWaiter` is what makes a woken channel free again. The
arithmetic modulo the ring's size is isolated in `WrapValue` and `AheadValue`,
the store loop in `StoreKeepsRing`. Proved: `RingTypeCorrect`, `RingCorrect`,
`NoLostWakeup` (a parked writer is registered and the window is full), `NoPanic`, `PeekCorrect`, and `Refinement`: every behaviour of
the ring is one of `OutputWindow`, so what is proved of `StreamManager`, which
uses the window, holds over the real ring.

**`StreamManagerProofs`.** The properties are not inductive alone. `IInv` adds:

- `Shapes`: what `lockHeld` and `sender` hold at each place;
- `Connection`: connected implies sync mode and a granted window of at most `MaxRwnd`;
  disconnected implies nothing in flight and, once any client was connected,
  async mode with the writer running; a method in the middle of
  `ClientConnected` implies disconnected, one in the middle of `RecvAck`
  connected. These make the PTY's interleaved writes harmless: it can overwrite
  only when nothing is in flight.
- `Terminal`: the terminal event is known exactly when the PTY goroutine is
  done, and then `eofPos` is the end of the output. So no byte follows it.

From `IInv`: `TypeCorrect`, `InFlightBuffered`, `InFlightInWindow`,
`TerminalLast`, `BlocksConnected`. `NoLostWakeup` has an invariant of its own,
`IdleSleep` (the same statement in terms of counts; `NextDataSize` shows them
equal): every step that makes work for a sleeping sender either wakes it or
leaves a goroutine at a place where it is about to. `SentOnce` is the action
property `SendsEveryByteOnce`: each step either leaves the next position to
send where it is (an ack moves it from in flight to the head) or prepares the packet that
starts there.

`StreamManagerProofs` and `StreamPipeProofs` begin with lemmas about `Bytes` (empty, concatenation,
sub-sequence), and that a nonempty set of naturals has a least element, and a
bounded one a greatest: what the reader's drain is defined by.

**`StreamPipeProofs`.** The loop with which the reader drains its sorted packets is modelled as an end: the last byte
that the held packets reach without a gap (`DrainEnd`). The proof shows what a data-dependent loop would need induction
for: `HeldByteIs`, every byte up to this end is the byte at its position, in one of the held packets. `IInv` is

- `Sending`: the writer's buffer starts where what it sent ends, and `sentNotAcked` is exact until it is closed;
- `PacketsFit`, `Disjoint`: a packet holds the bytes at its positions, all of them sent, and no two packets on their way
  or held out of order share a byte. So the order of draining cannot matter, and each byte is held once;
- `Reading`: what was delivered, the reader's buffer and `nextSeq` follow one another without a gap;
- `Granted`, `Window`: an ack's edge (sequence number and window) never lies beyond what was read plus the
  window, and of two acks the later one has the higher edge, wherever they are. Hence a reordered ack can be ignored by its sequence number,
  and `FlowControl` and `EdgeNeverRetreats` hold whatever their order.

Proved: `TypeCorrect`, `DeliveredInOrder`, `WindowRespected`, `EofIsTheEnd`, `WindowIsKept`, and of the parts `CountIsExact`,
`PacketsNeverOverlap`, `NoLostWakeUp` (a `Write` that waits has no window, so whoever opens one has woken it). Assumed: windows and packets are positive.

**`DurableStreamProofs`** composes. `ManagerStep`: every step of the composition is a step of `StreamManager` with *some* call of a
connection, or leaves it alone; so `IInv` of `StreamManagerProofs` (proved there for any calls, `AnyNext`) holds here, and the
job manager need not be looked into again. `IInv` adds to it and to the types:

- `Turns`, `Asked`: stream, pending and attached writers belong to the connection being served or an earlier one, and the job
  manager has not begun to serve the one that the main server is still reading the file for. Streams never share a number because of this;
- `Corked`: a pending stream is not attached, its window is 0, and no packet on its way carries bytes of it. An ack
  of an earlier stream cannot open the window, since `RecvAck` compares the stream;
- `Contents`: packets on their way or held out of order carry the bytes their numbers say, and nobody speaks of the end before it is there;
- `Service`, `Runs`: who uses a reader has one, and what a reader has in its buffer and its loop in hand is one run of bytes up to
  `nextSeq`. `RecvData` keeps this whatever arrives, repetitions of an earlier connection included, for it takes only what is next.

This holds without any assumption on the old loop. `CorkKept` follows. `FileOrdered` needs more, and `OldLoop`:
`Aligned`, the current stream's run begins at the file's position, and between `Stat` and the taking over the position does not move; `Below`,
no byte of the file, or of what is on disk of it, lies at or behind its position. Under `"settles"` the argument is that nothing can
arrive any more: no packet is on its way, and none can be sent, since the job manager does not yet serve this connection (`Asked`).
Assumed: `DurableAssumption` and `ReaderAssumption` (sizes and windows are positive, packets and the manager's window fit the ring).

`ReleasedOnlyWhenHeld`, `PositionIsExact` and `EofMeansComplete` are about the whole circle: the job manager lets go of what an ack
covers, a late Cancel or the next connection's start position says again what was received, and the next `Stat` must not lose any of it.
They share one invariant, `KeepInv`. `Kept` is the set of bytes that are in the file, on their way to it, or lost and recorded as such;
`Upto(pos)` says that every byte before `pos` is one of them.

- `Claims`: `Upto` of everything one side tells the other to have: the job manager's head, every reader's `nextSeq`,
  every ack on its way, `currentSeq`, the RPC's position, the client position a connection is made with, and the number of every packet that could still
  be answered by the Cancel for an unknown stream. For that last part `Served` and `Undisturbed` show that the stream in service
  stays known until its end: it is forgotten earlier only by a loop that was superseded or a restart that was refused, and then nothing of it can arrive;
- `Exact`: `PositionIsExact`, and the same of the file as it was last flushed, which is what a crash brings back;
- `Ended`: when the end is recorded, `EndReached` holds, and all that the position does not count is lost. That is all `EofMeansComplete`
  says: a byte lost behind the position is in no gap, and the main server cannot know of it.

`KeptGrows` and `LostGrows` say that no step takes a byte out of these sets: `Moves` follows the bytes of a reader into a hand, the file or the history.
`PositionStep` then has two cases of interest: an append moves the position over the hand it appends, and a gap moves it over bytes of which
`Claims` says that they are kept, while the reader and its loop hold none (`ContinuesIs`), so that they are in the file or lost (`KeptIs`).
All this assumes `OldLoop = "settles"` and `RestartsFinish`. Both are needed: under `"pauses"` `PositionIsExact` fails (`MCUnknownCancel.cfg`), and
`ReleasedOnlyWhenHeld` fails when a connection drops in the middle of a restart (`MCCancelConsumes.cfg`). Crashes may come at any time.

Proved: `TypeCorrect`, `CorkKept`, `FileOrdered` (for `OldLoop /= "races"`; `MCLoopRace.cfg` shows that it fails otherwise),
`HeldBeforeReleased` (`ReleasedOnlyWhenHeld`), `PositionExact` (`PositionIsExact`), `EndComplete` (`EofMeansComplete`).

**`BufferProofs`, the reorder queue.** `NoSendBlocks` needs more than the channel's length: the invariant is
`RoomForAll`, that what is held and what is in `outCh` together never exceed the capacity. `QueueItem` checks
exactly this sum before it accepts; flushes move items from one summand to the other, and only the reader
lowers it. That a held item is moved once, not copied, is why the cardinality of the buffer
falls by what is sent. `NeverReorders` compares any two items ever sent, so its invariant `OInv` says where an item can be:
`Ranked` (the current session is the newest, and sessions differ in rank), `Held` (what is held belongs to the current
session and its turn is still to come, or a copy of it was sent), `Past` (what was sent of the current session had its turn). Every method sends a
run of items at once; `NoInversion` is kept because such a run is sorted, everything
sent before it ranks below what is still held, and what arrives later arrives after it was sent. Assumed: the capacity is a natural number and the sessions are finitely many.

**`RpcCallsProofs`.** `IInv` adds to the types and the properties:

- `Registration`: an id is registered for a call made with it, and its channel is open;
- `Cancels`: a channel that is open belongs to a call that is registered, and a call that was cancelled is a stream and is not;
- `Requested`, `Transit`: a request is on its way once, and a response on its way is one that its server has sent; the loop has
  panicked only on one of a cancelled stream;
- `Numbered`: for a call that is registered, what its channel, the loop and the way to the loop hold are the next responses, in this order and without
  a gap. Commands share the empty id, whose channel is never given anything;
- `Contexts`: who may have expired and for whom an expiry is on its way;
- `Singles`: for a call that wants one response, at most one of its server, the way, the loop and its channel holds it. So a caller
  that has read its response can remove and close the channel: the loop has nothing left to send to it.

Proved: `TypeCorrect`, `PanicsOnlyOnCancel` (`LoopSurvives`), `ReadInOrder`, `CallFailsForAReason`. Assumed (`RpcCallsAssumption`): a response channel holds at least one, and
ids are told apart from `NoId`.

**`RouterProofs`.** `LinksInOrder` and `AnswersComeBack` share an invariant of four parts: `Shapes`
(the types); `Queues`, the client and the backlog of a link hold, in order, exactly the messages from the last one taken
to the last one routed, until the link is gone; `Registration`, whatever the router holds of a request, that
request was made, and what `rpcMap` has for it is who made it; `Sent`, an answer waits only for the link whose request it
answers. Assumed: `RouterAssumption` (the upstream, if any, is one of the links and does not leave).

**`JobAndSshProofs`, the connection.** `Place` says what status and client are at each place of the
goroutine that holds `lifecycleLock`, `OpenClients` that an open client is the
connection's own but for the moment between its closing and its forgetting. Every step of
the others leaves status, client and the lock alone (`OthersKeep`), which is the point of the lock. Proved:
`TypeCorrect`, `ClientKnown` (`NoClientLost`). Assumed: nothing but that the bound is a natural number.

**`JobAndSshProofs`, the job.** `DoneMeansEnded` and `OutputBeforeEnd` are about what is recorded; the calls that record it take several
steps, and on the way the truth is known only to them. `JobInv` adds, beside the types and `Unstarted` (nothing exists before `StartJob`):

- `Pids`: the job manager's process id is recorded once `StartJob` has returned; without one the job is not running and nobody reconnects it;
- `Ending`: whoever is about to record the end of the job has told its job manager to exit, or could not (`unkilled`), or found it gone;
- `EndOfStream`: the end of the output is recorded, or about to be, only after the job manager has sent it and had it acknowledged;
- `OnlyAtTheEnd`: while the block is open, a termination, by whomever it was begun and whether or not it failed since, was begun
  when the command had exited and the output had ended;
- `Exits`: an exit that is noted, on its way or recorded has happened.

The lemma `Sigterm` says what telling it to exit does. The order of the events plays no role here: what they change is only whether a
reconnect is tried. Each of the forty or so steps is checked against each part by `StepJobInv`. Proved: `JobTypeCorrect`, `NoSessionLeft`
(`DoneMeansEnded`), `NotBeforeTheEnd` (`OutputBeforeEnd`), and, of the parts, `ExitIsTrue`. Assumed: that the number of faults is a natural number.

**`BlockStoreProofs`** proves `OneEntry` and the refinement of `StoredFile`. `IInv` is `Types`, `Pinned` (who is in a call uses the current
entry, so that none is ever left without its users), `Counted` (its pins are those calls), and `Agrees` (the cached
file, if any, and the row are of the same kind). Most of the module is about operators:

- A byte's place is its part (`PartOf`) and its offset there; a circular file uses a part again after `MaxParts` of them. `OnePlace`: the last
  `WindowSize` positions have places of their own. This is all the arithmetic modulo there is.
- `WriteBytes` (from `LoadPut`): after the parts that a write touches are loaded and overwritten, a reader finds the new bytes where they were written
  and the old ones, or what the database has, elsewhere; `Overwrite` says so of the whole file as a sequence, `CompactLook` of the compaction of a list
  of JSON documents, `SavedLook` of the flush: saving the dirty parts alone makes the database what the cache was.
- `Looks`: what a reader sees depends only on the row, the stored parts and the entry. With it each step is shown to be a step of `StoredFile` or to
  change neither what is seen nor what is stored; `Steps` collects them.

Proved: `TypeCorrect`, `CallersShareOneEntry` (`OneEntry`), and `KeepsThePromise`:
`ASSUME ~BehindWindow PROVE Spec => ImplementsStoredFile`. The hypothesis says that no caller writes to a
circular file at an offset before the window of bytes it still keeps; `MCWriteBehind.cfg` is the counterexample without it. Assumed (`StoreAssumption`): part sizes and numbers are positive,
limits are natural numbers, the clients are finitely many and the flusher is none of them.

## What is only model-checked, and what is not modelled

Liveness (`WriteReturns`, `StreamForgotten`, `OutputArrives`, `EndIsRecorded`, `Delivered`, `CallsReturn`,
`AnswersArrive`, `JobEnds`, `Reattached`, `ClosedIsCleanedUp`, `EventuallySaved`, `LossIsNoticed`, `AnswersEndStall`)
is left to TLC: TLAPS does not reason about fairness and
`ENABLED` here. `durable_crash` checks `PositionIsExact` and `EofMeansComplete` of `DurableStream` under `"pauses"` with windows of 1;
the theorems about them assume `"settles"`, with any windows.

Not modelled in the parts that are modelled: contents of bytes, clocks,
logging, the terminal size, authentication of a job's socket and of links; of `RpcCalls`, the end of the
connection and events; of `Router`, announcing routes upstream; of the job
lifecycle, pruning and deleting jobs, moving a job to another block, a restart of the main server; of the
file store, listing, and several files at once; of the connections, wsh and WSL. `workqueue.go` is a FIFO goroutine, used as such
in the stream modules.

Not modelled at all: the event broker, object store, block controllers and approvals, which have
rules of their own worth modelling; and the web server, configuration, builder, Electron, front end,
command line client, start-up and telemetry, which are plain I/O, rendering,
wiring or generated code without a protocol of their own. `PROJECT.json` says for each what it is.

## Plan

Done: the ring, the stream client, the stream manager, the durable stream, the reorder queue,
RPC calls, the router, the job lifecycle, the file store, the SSH connection. Next, in this order:

1. `EventBroker`: subscriptions of several kinds by one route, and the history; abstract: the last events per scope.
2. `Approvals`: tool approvals and the approval files; an approval is used once, every wait ends.
3. Block controllers: at most one running controller per block through resync, stop and replace.
4. Pruning of jobs beside attaching them, then the deletion cascades of the object store.
5. The end of a connection in `RpcCalls` and the announcements of `Router`.

To run: `tlc -config MCX.cfg MCX.tla` for a run's module and configuration (`PROJECT.json` pairs them),
`tlapm M.tla` for a proof module. `stream_pipe`, `ssh_connection`, `job_lifecycle` and `durable_crash` take one to three minutes, the
others less.
