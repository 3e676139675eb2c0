# A TLA+ model of the Raspberry Pi VMS

The program under `src/` is one process, `rpi_vms`. It pulls up to four camera
streams, records them as MP4 segments that a SQLite index knows of, and serves
them live to RTSP and RTSPS clients. This directory models its threads, its
persistent state and its handling of failures, checks the models with TLC on
small instances, and proves invariants of two of them with TLAPS for all values
of their constants.

## The system

| Part | State | Operations that change it | Talks to |
|---|---|---|---|
| `main` | `g_running`, position in start and stop | start in order, signal, stop in reverse order, exits on failure | all parts |
| `StorageManager` | none (reads the disk) | `check` | `main` |
| `RecordingIndex` | tables `vms_channels`, `recording_segments`, one mutex | `upsert_channel_mapping`, `mark_segment_opened`, `mark_segment_closed` | `main`, the workers; survives the process |
| `ChannelManager` | one worker thread per channel, `failed` | `start` (with a delay in between), `stop` | `main`, `ChannelIngest` |
| `ChannelIngest` | attempt, counters, pipeline, bus | attempt, reconnect, shutdown with a final EOS; callbacks of the pipeline | index, live server |
| GStreamer pipeline (external) | open files, bus | first buffer, files opened and closed, EOS, error | its worker, the live server |
| `LiveRtspServer` | listeners, `session_threads_`, `clients_`, TLS context, statistics | `start`, `stop`, accept, a session's loop, `on_frame` | `main`, clients, ingest threads |
| RTSP control state of a session | phase, session id, channel | `process_rtsp_request` | its session |
| RTSP message parser | the input of a session | `extract_one_rtsp_message` | its session |
| `BoundedFrameQueue` | frames, bytes, drops, closed | `push`, `try_pop`, `close` | an ingest thread and a session thread |
| RTP packetization | sequence number, timestamps of a session | `send_frame` and what it calls | its session |
| proxy, digest, rewriter, TLS context | - | not compiled into any target | - |

What makes it hard: ingest threads push into the queues of sessions that end
meanwhile; `stop` races with a connection being accepted; the end of an attempt
is decided by a signal, a deadline, an error or an end of stream, whichever is
seen first; messages about files are still on the bus when a pipeline goes; the
process may be killed between any two steps while files and rows stay; the
peer's bytes come in pieces of any size; unsigned counters must not wrap.
`PROJECT.json` lists these hazards at their lines, with the properties that
cover them or the reason why none does.

## The modules

| Module | Models | Kind |
|---|---|---|
| `FrameQueue` | the methods of `BoundedFrameQueue` as operators on a queue value | operators |
| `FrameQueueLoop` | the same queue with `push`'s loop one iteration at a time, any number of threads | state machine |
| `FrameQueueSpec` | what the queue promises: the longest run of newest frames that fits | abstract specification |
| `FrameQueueLoopProofs` | proofs about `FrameQueueLoop` | TLAPS |
| `RtspControl` | `process_rtsp_request` and the control state | operators |
| `LiveServer` | `LiveRtspServer` with all its threads; uses `FrameQueue` and `RtspControl` | state machine |
| `RtspParser` | the input of a session and `extract_one_rtsp_message` | state machine |
| `RtpSender` | an access unit split into NAL units and sent as RTP packets | state machine |
| `ChannelIngest` | the workers, their pipelines, files and index rows, and restarts | state machine |
| `Startup` | `main` and `vms_channels` over many runs of the process | state machine |
| `StartupProofs` | proofs about `Startup` | TLAPS |
| `MC*` | constants of the instances that TLC checks | |

An operator without a `Mutant:` comment models the code that `PROJECT.json`
maps it to. The operators marked as mutants are changed forms of the operator
below them, which break one property each; no specification uses them.

### FrameQueue, FrameQueueLoop, FrameQueueSpec

Every method holds `mutex_` for its whole body, so that for other threads a
call is one step: that is `FrameQueue`, which `LiveServer` uses.
`FrameQueueLoop` justifies it: it takes an iteration of the loop as a step and
is shown to implement `FrameQueueSpec`, under a refinement mapping (`Seen`)
that applies the rest of a push that has begun. The abstract specification has
no loop and no byte counter. A frame remembers where it begins in the stream of
all accepted bytes; this identifies it, orders it, and lets the sum of the
queued sizes be stated without recursion.

### LiveServer

A step of a thread is what it does between two accesses to shared state.

* main: `Start` and its two failures, `JoinWorkers`, and `stop` as `StopBegin`,
  `StopJoinListeners`, `StopSwap`, `StopFinish`.
* a listener: check of the flags, `select`, `accept`, creation of the thread.
  `Accept` and `SpawnSession` are two steps, so that `stop` comes in between.
* a session: the constructor of `ClientConnection`, registration, counting, and
  the loop with a step for each read, request, store, pop and send, then the
  unwinding in the order of the code.
* an ingest thread: the frame arrives (with `update_parameter_sets`), the
  snapshot under `clients_mutex_`, and for each client the read of `drops()`,
  the push and the second read.

Abstractions. A frame is a channel, a number, a key flag and a size. The
snapshot is one step although it reads three atomics of each client: the stores
of a session go one way (channel before playing; connected is cleared before
playing and never set again), and those of different clients are independent.
`Disconnect` joins the stores to `connected` and `playing`, of which the first
decides. The counters of the statistics are counted with the step they belong
to. Parameter sets are found in every key frame: that `update_parameter_sets`
finds them with `split_access_unit`, which `rtp_length` is about, is left out. An
access unit without NAL units sends nothing in the code and is not modelled. A context that stays allocated when a listener cannot be opened is
not followed further: the process exits.

### RtspControl

A request is a record of what the handler looks at. `ProcessRequest` returns
the set of possible replies because `SETUP` draws a random session id.

### RtspParser

The input is a sequence of tokens: the halves of a method and of `RTSP/`, the
blank line, the `$` of an interleaved frame, a length, anything else. This keeps
every boundary that a read may cut through. The code has two lists of starts. The
parser knows eleven, in capitals, of which `RTSP/` occurs in the first line of
every request (`IsMessageStartAt`); a resynchronisation may therefore stop inside
the request that it is to skip. `run_session` looks for six methods, in capitals
or not (`BeginsWithMethod`), before it answers a rest with a blank line in it
with 400. The four kinds of first halves are told apart by these two lists: a
partial `PAUSE` or a partial interleaved frame whose payload has a blank line ends
the session, a partial `SETUP` does not.

`Found` says what is to be found in a message by itself: a request of a method
that the parser does not know is found from its `RTSP/` on, as the code does.
`Expected` is the sequence of what is to be found; it depends on the messages
only, and the properties compare with it what was taken out of any pieces.
`MessagesInOrder` has one exception, because the code does: of a header just
above the limit, the part from its `RTSP/` on is within the limit and is
extracted as a message. The unit test for oversized headers
(`tests/live_rtsp_server_test.cpp:148`) has one for which this part is beyond the
limit, too; the instance has both.

### RtpSender

`Split` is `split_access_unit` on bytes, with both formats. An iteration of the
loops of `packetize_access_unit` is a step; the code fills a vector first and
writes it afterwards, which makes no difference to a client unless a write
fails and the session ends. The client is external and follows the RFCs. The
NAL header inside a fragment is kept whole instead of spread over bits, so that
the masks and shifts of the code are not checked. A NAL
unit holds no start code and does not end in zero, as encoders guarantee. H.265
NAL units of less than three bytes are never fragmented, because `mtu` is
above 15, so that the code's `continue` for them has no step.

### ChannelIngest

The worker follows `run` and `run_attempt`; the pipeline is external and posts
on the bus what the code expects: with `async-finalize` the next file opens
before the previous one is closed, and EOS comes when all files are. A path is
channel, milliseconds and collision index; the clock takes any value at any
time. `Restart` is a kill or a stop of the process followed by a new start;
files and rows stay. A call of the index is one step under its mutex. The loss
of committed transactions at a power failure (WAL with `synchronous=NORMAL`) is
not modelled. `StartWorker` leaves the order of the workers open.

A statement of the index that fails ends the worker for good (`IndexFails`):
the handler in its thread sets `failed`, and the channel stays off until the
process is restarted. The repository's README says that a channel reconnects
after an error and also names `worker_failed` as a state to look for, so this
outcome is modelled and not counted as a disagreement.

### Startup

A run is `Boot` with some map, the storage check, the parsing, the upserts one
by one (each commits), the live server and the service; failures and kills can
end it anywhere, and the table stays. The order of opening the index and
parsing the map makes no difference to the table. Two history variables say what
was served last (`served`) and which rows were written since (`since`); a run
that is killed while it records its map leaves its rows in `since`.

## What TLC checks

| Run | Instance | Shows |
|---|---|---|
| `frame_queue` | 2 threads, limits 3 frames and 5 bytes, sizes below, at and above the limit | `WithinLimits`, `BytesExact`, `ClosedStaysEmpty`, `PopsInOrder`, `NoSilentLoss`, `PushReturns`, refinement `KeepsLongestFit` |
| `live_one` | 1 client, 1 channel, both listeners, all requests, 3 frames of 3 kinds | no frame kept by an ended session, order, key frame first with parameter sets not older, accounting of drops and sessions, socket closed once, TLS context outlives its users, stop leaves nothing running, at most one frame after TEARDOWN |
| `live_two` | 2 clients, 1 channel, 2 frames, queue of 1 | accounting of drops with two sessions in one fan-out |
| `live_progress` | 2 channels, 1 client that may play either and send requests for ever | `OnlyOwnChannel`, `ShutdownCompletes`, `HeadMovesOn` |
| `ingest` | 1 channel, 3 files, 2 clock values, 2 attempts with failures, 1 restart | `StatsAddUp`, `CompleteIsFinalised`, `EndOfStreamIndexesAll`, `RowsMatchMessages` |
| `ingest_progress` | 2 channels | `StopCompletes`, `ErrorLeadsToAttempt` |
| `startup` | 3 cameras, 3 channels, all maps of up to 2 entries | `ServedMapRecorded`, `OnlyNewerRowsInTheWay` |
| `parser` | 3 messages of 7 kinds, perhaps an oversized one behind them, reads of any size | `MessagesInOrder`, `NothingLeftBehind`, `RequestsNotRefused`, `ExtractReturns` |
| `rtp` | both codecs and formats, 2 access units of 1 or 2 NAL units, 6 bytes per packet, 4 sequence numbers | `Reassembled`, `FragmentsLegal` |

Three runs are expected to end in a counterexample; each states what a document
or a test says and the code does not do.

* `startup_remap`: a valid `--channel-map` that moves a camera to another
  channel fails on `UNIQUE camera_channel`, with the entries before it already
  committed; then even the map that was served before may not start, because of
  the rows written since (`OnlyNewerRowsInTheWay` says that nothing else can be
  the reason).
* `parser_limits`: a complete header with a Content-Length beyond the limit, and
  nothing behind it, keeps `extract_one_rtsp_message` in its loop, after one hop
  to the `RTSP/` of its own first line. The unit test covers only the case in
  which the buffer is cleared.
* `rtp_length`: in a length-prefixed access unit, the length field of a NAL unit
  of 256 to 511 bytes (`00 00 01 xx`) is taken for a start code. The unit test
  for this format has NAL units of two bytes. The caps of the pipeline do not
  fix the format, so the model does not say which one a camera's stream has.

### Bounds

Queue limits of 1 to 3 frames and 2 to 5 bytes make every push meet every case
of the loop: no eviction, one, several, refusal. Three frames are enough for a
key frame, a late push and a drop in one session; the clients interact only
through the fan-out of a frame, for which two are enough. Two clock values and
three files make paths collide within an attempt, across attempts and across a
restart. From attempt `MaxAttempts` on nothing fails; counters of attempts stay
finite this way. In both runs it is 2: the first attempt of a process may fail
in every way and the second may not, so that two failures in a row within one
process are not reached (after a restart, the first attempt may fail again).
With 3, `ingest` has 5 million states and holds as well; `ingest_progress` is
out of reach. One thread pushes to each queue, as in the code, where the channel
of a session does not change once it plays; two pushes to one queue at a time
are only in `frame_queue`. `live_two` leaves out TEARDOWN and failing
requests, which `live_one` has; `ingest_progress` writes no files, which do not
influence whether a worker goes on. In `rtp`,
NAL units of 6 to 13 bytes with 6 per packet give one packet and two or more
fragments, the last of them full or not, and length fields that look like start
codes are left to `rtp_length`. In `parser`, an oversized header occurs only
as the last message, and words without a start in them are together not longer
than the limit for headers: a resynchronisation that clears the buffer may drop
the first half of the request behind it, which is then found from its `RTSP/` on.

### Fairness

Weak fairness of each thread's next step: the threads are scheduled, and all
waits have timeouts (10 ms and 200 ms in `select`, socket timeouts, 500 ms on
the bus, 10 s for the final EOS, slices of 100 ms before a reconnect). A session
leaves the requests of one read (`NoMoreRequests`): a read returns finitely many
bytes. This takes for granted that the parser returns, which `RtspParser` checks
and which fails in the case of `parser_limits`. Nothing is assumed of clients,
cameras or the signal; a pipeline goes down when its worker stops.

## What is proved

`FrameQueueLoopProofs`, from `QueueLimits` (limits are positive: the constructor
throws otherwise), `SizesAssumption` (frames are not empty: `on_frame` returns
before), `ThreadsAssumption` and `BoundsAssumption`, for any threads, limits and
sizes: `TypeOK`, `WithinLimits`, `BytesExact`, `ClosedStaysEmpty`,
`PopsInOrder`, `NoSilentLoss`. They are proved together as one inductive
invariant `IInv`. That the byte counter cannot wrap needs that the frames are
contiguous pieces of the accepted stream; the limits need that a frame in the
middle of a push fits by itself and that `closed` excludes a push in progress.
There is one lemma per action.

`StartupProofs`, from `StartupAssumption`, for any cameras, channels and maps:
`TypeOK`, `ServedMapRecorded`, `OnlyNewerRowsInTheWay`. The invariant adds that
no camera has two rows, that from the parsing on the map is valid and that the
entries before `next` are in the table: a later entry of a valid map cannot undo
them. For the last theorem, `OlderRowsAgree` is kept by every step: on the
channels not written since, a camera of the served map has no row but its own.
It holds when main begins to serve, because the map is in the table and no
camera has two rows, and an upsert only changes a row that it adds to `since`.

Only model-checked: liveness (`PushReturns`, `ShutdownCompletes`,
`HeadMovesOn`, `StopCompletes`, `ErrorLeadsToAttempt`, `ExtractReturns`), which
needs fairness; the refinement `KeepsLongestFit`, whose abstract specification
folds over a sequence; the parser and `RtpSender`, which are about sequences
computed by recursion; and the invariants of `LiveServer` and `ChannelIngest`.

## Not modelled

* RTP timestamps and sender reports: see the plan.
* Text: SDP, base64, log lines, redaction, argument parsing.
* `live_frames_`, `live_drops_` and latency diagnostics of `ChannelIngest`.
* The proxy (`src/src/proxy`, digest, rewriter, TLS context): no target of
  `CMakeLists.txt` compiles it.
* Tools and tests.

## Plan

Done, in the order of importance: the queue; the live server with its control
state; the ingest workers with the index; the start over many runs; the parser;
RTP packets; the proofs about the queue and the start.

Next:

1. `ChannelIngestProofs`: `StatsAddUp`, with an invariant that relates the four
   counters at each place of the worker; then `CompleteIsFinalised` and
   `RowsMatchMessages`, which need that messages on the bus describe files.
2. `LiveServerProofs`: `SessionAccounting`, `SocketClosedOnce`,
   `TlsOutlivesSessions` and `StopLeavesNothingRunning` for any number of clients.
3. RTP: `frame_timestamp` with its widths, over reconnects of the camera.
4. The life of the process: one module that composes start, workers and server,
   as an abstract specification that the detailed modules implement.
5. The proxy session, as the repository keeps its source.
