--------------------------- MODULE ChannelIngest ---------------------------
(***************************************************************************)
(* The ingest workers of ChannelManager: each runs ChannelIngest::run for  *)
(* one camera, which builds a pipeline, follows its bus until an error, an *)
(* end of stream or the shutdown, and records in the SQLite index which    *)
(* files the pipeline has written.                                         *)
(*                                                                         *)
(* The pipeline is external: rtspsrc, the parser and splitmuxsink run in   *)
(* threads of their own and post messages on the bus.  splitmuxsink opens  *)
(* the next file before the previous one is finalised (async-finalize) and *)
(* the end of stream is posted when all files are.                         *)
(***************************************************************************)
EXTENDS Integers, Sequences, FiniteSets

CONSTANTS Channels,
          Times,        \* what system_clock may show, in milliseconds
          NoPath,
          MaxAttempts,  \* bound: nothing fails from this attempt on
          MaxFiles,     \* bound: files written over all runs of the process
          MaxRestarts   \* bound: kills and restarts of the process

ASSUME IngestAssumption ==
  /\ IsFiniteSet(Channels) /\ Times \subseteq Nat
  /\ MaxAttempts \in Nat /\ MaxFiles \in Nat /\ MaxRestarts \in Nat

VARIABLES
  running,    \* g_running
  manager,    \* where the main thread is in ChannelManager's start and stop
  worker,     \* the worker threads: pc, the result of the attempt, and
              \* (history) how the attempt's bus was left
  pipe,       \* the pipelines
  bus,        \* their messages, oldest first
  stats,      \* ChannelIngestStats and first_buffer_seen_
  files,      \* the paths of the files that exist
  finalised,  \* those of them that are complete MP4 files
  rows,       \* recording_segments: the file_path of its rows
  complete,   \* those of its rows with complete = 1
  restarts

vars == <<running, manager, worker, pipe, bus, stats,
          files, finalised, rows, complete, restarts>>
disk == <<files, finalised, rows, complete, restarts>>

NoPipe == [up |-> FALSE, seen |-> FALSE, mine |-> {}, open |-> {},
           current |-> NoPath, ending |-> "no", failed |-> FALSE]
NewWorker == [pc |-> "off", result |-> "stopped", left |-> "none"]
NoStats == [attempts |-> 0, reconnects |-> 0, firstBuffers |-> 0,
            errors |-> 0, eos |-> 0, firstSeen |-> FALSE]

(* A process that has just started.                                        *)
Fresh ==
  [running |-> TRUE, manager |-> "starting",
   worker |-> [ch \in Channels |-> NewWorker], pipe |-> [ch \in Channels |-> NoPipe],
   bus |-> [ch \in Channels |-> <<>>], stats |-> [ch \in Channels |-> NoStats]]

Init ==
  /\ running = Fresh.running /\ manager = Fresh.manager /\ worker = Fresh.worker
  /\ pipe = Fresh.pipe /\ bus = Fresh.bus /\ stats = Fresh.stats
  /\ files = {} /\ finalised = {} /\ rows = {} /\ complete = {} /\ restarts = 0

(* There is no further failure when the attempts have reached the bound.   *)
MayFail(ch) == stats[ch].attempts < MaxAttempts

Ended(ch) == worker[ch].pc \in {"off", "stopped", "failed"}

-----------------------------------------------------------------------------
(* The main thread.                                                        *)
ManagerGoes(from, to) ==
  /\ manager = from
  /\ manager' = to
  /\ UNCHANGED <<running, worker, pipe, bus, stats, disk>>

StartWorker(ch) ==
  /\ manager = "starting" /\ worker[ch].pc = "off"
  /\ worker' = [worker EXCEPT ![ch].pc = "top"]
  /\ UNCHANGED <<running, manager, pipe, bus, stats, disk>>

StartDone ==
  /\ \A ch \in Channels : worker[ch].pc # "off"
  /\ ManagerGoes("starting", "serving")

(* The signal arrives in the delay between two workers.                    *)
StartBreaks ==
  /\ ~running
  /\ \E ch \in Channels : worker[ch].pc # "off"
  /\ \E ch \in Channels : worker[ch].pc = "off"
  /\ ManagerGoes("starting", "serving")

(* main's loop ends, and stop joins the threads that were started.         *)
StopJoins ==
  /\ ~running
  /\ \A ch \in Channels : Ended(ch)
  /\ ManagerGoes("serving", "done")

Signal ==
  /\ running
  /\ running' = FALSE
  /\ UNCHANGED <<manager, worker, pipe, bus, stats, disk>>

(* The process is killed, or has stopped, and starts again.  What is on    *)
(* the disk stays.                                                         *)
Restart ==
  /\ restarts < MaxRestarts
  /\ restarts' = restarts + 1
  /\ running' = Fresh.running /\ manager' = Fresh.manager /\ worker' = Fresh.worker
  /\ pipe' = Fresh.pipe /\ bus' = Fresh.bus /\ stats' = Fresh.stats
  /\ UNCHANGED <<files, finalised, rows, complete>>

-----------------------------------------------------------------------------
(* RecordingIndex: a call is one step, under mutex_.                       *)

(* mark_segment_opened fails on a path that has a row: file_path is UNIQUE.*)
CanInsert(path) == path \notin rows

(* Mutant: the row is taken for complete when the next file opens.         *)
MarkOpenedCompletes(path) == rows' = rows \cup {path} /\ complete' = rows
MarkOpened(path) == rows' = rows \cup {path} /\ UNCHANGED complete

MarkClosed(path) == complete' = complete \cup ({path} \cap rows) /\ UNCHANGED rows

(* handle_element_message, when the statement succeeds.                    *)
HandleElement(m) ==
  \/ m.type = "opened" /\ CanInsert(m.path) /\ MarkOpened(m.path)
  \/ m.type = "closed" /\ MarkClosed(m.path)

-----------------------------------------------------------------------------
(* A worker thread: run and run_attempt.                                   *)

(* A step that only moves the worker to another place of its code.         *)
Jump(ch, from, to) ==
  /\ worker[ch].pc = from
  /\ worker' = [worker EXCEPT ![ch].pc = to]
  /\ UNCHANGED <<running, manager, pipe, bus, stats, disk>>

LoopEnds(ch) == ~running /\ Jump(ch, "top", "stopped")

(* Mutant: the result of an attempt is not initialised.                    *)
BeginAttemptNoResult(ch) ==
  /\ worker[ch].pc = "top" /\ running
  /\ worker' = [worker EXCEPT ![ch] = [pc |-> "build", result |-> "none", left |-> "none"]]
  /\ stats' = [stats EXCEPT ![ch].attempts = @ + 1, ![ch].firstSeen = FALSE]
  /\ UNCHANGED <<running, manager, pipe, bus, disk>>

BeginAttempt(ch) ==
  /\ worker[ch].pc = "top" /\ running
  /\ worker' = [worker EXCEPT ![ch] = [pc |-> "build", result |-> "stopped", left |-> "none"]]
  /\ stats' = [stats EXCEPT ![ch].attempts = @ + 1, ![ch].firstSeen = FALSE]
  /\ UNCHANGED <<running, manager, pipe, bus, disk>>

(* An exception ends the thread; its handler in ChannelManager::start sets *)
(* failed.  Here the pipeline cannot be built or the output directory not  *)
(* created.                                                                *)
BuildFails(ch) == MayFail(ch) /\ Jump(ch, "build", "failed")

SetPlaying(ch) ==
  /\ worker[ch].pc = "build"
  /\ worker' = [worker EXCEPT ![ch].pc = "check"]
  /\ pipe' = [pipe EXCEPT ![ch] = [NoPipe EXCEPT !.up = TRUE]]
  /\ UNCHANGED <<running, manager, bus, stats, disk>>

(* The attempt ends with an error, counted in pipeline_errors_.            *)
Fail(ch) ==
  /\ worker' = [worker EXCEPT ![ch].pc = "teardown", ![ch].result = "error",
                              ![ch].left = "error"]
  /\ stats' = [stats EXCEPT ![ch].errors = @ + 1]

SetPlayingFails(ch) ==
  /\ worker[ch].pc = "build" /\ MayFail(ch)
  /\ Fail(ch)
  /\ UNCHANGED <<running, manager, pipe, bus, disk>>

(* Mutant: the loop does not look at running_.                             *)
CheckBusAlways(ch) == Jump(ch, "check", "pop")

(* The loop over the bus: running_, then the deadline of the first buffer, *)
(* then a message.                                                         *)
CheckBus(ch) == running /\ Jump(ch, "check", "pop")

FirstBufferTimeout(ch) ==
  /\ worker[ch].pc = "check" /\ running /\ ~pipe[ch].seen /\ MayFail(ch)
  /\ Fail(ch)
  /\ UNCHANGED <<running, manager, pipe, bus, disk>>

PopNothing(ch) == bus[ch] = <<>> /\ Jump(ch, "pop", "check")

Popped(ch, pc, types) ==
  /\ worker[ch].pc = pc /\ bus[ch] # <<>>
  /\ Head(bus[ch]).type \in types
  /\ bus' = [bus EXCEPT ![ch] = Tail(@)]

PopElement(ch) ==
  /\ Popped(ch, "pop", {"opened", "closed"})
  /\ HandleElement(Head(bus[ch]))
  /\ worker' = [worker EXCEPT ![ch].pc = "check"]
  /\ UNCHANGED <<running, manager, pipe, stats, files, finalised, restarts>>

(* Mutant: an error that the bus reports is not counted.                   *)
PopErrorUncounted(ch) ==
  /\ Popped(ch, "pop", {"error"})
  /\ worker' = [worker EXCEPT ![ch].pc = "teardown", ![ch].result = "error",
                              ![ch].left = "error"]
  /\ UNCHANGED <<running, manager, pipe, stats, disk>>

PopError(ch) ==
  /\ Popped(ch, "pop", {"error"})
  /\ Fail(ch)
  /\ UNCHANGED <<running, manager, pipe, disk>>

PopEos(ch) ==
  /\ Popped(ch, "pop", {"eos"})
  /\ worker' = [worker EXCEPT ![ch].pc = "teardown", ![ch].result = "eos", ![ch].left = "eos"]
  /\ stats' = [stats EXCEPT ![ch].eos = @ + 1]
  /\ UNCHANGED <<running, manager, pipe, disk>>

(* The statement fails: the file has a row already, or the database is     *)
(* locked beyond the busy timeout or cannot be written.  The exception     *)
(* takes the pipeline down and ends the thread.                            *)
IndexFails(ch) ==
  /\ worker[ch].pc \in {"pop", "drain"} /\ bus[ch] # <<>>
  /\ Head(bus[ch]).type \in {"opened", "closed"}
  /\ \/ MayFail(ch)
     \/ Head(bus[ch]).type = "opened" /\ ~CanInsert(Head(bus[ch]).path)
  /\ worker' = [worker EXCEPT ![ch].pc = "failed", ![ch].left = "index"]
  /\ pipe' = [pipe EXCEPT ![ch] = NoPipe]
  /\ bus' = [bus EXCEPT ![ch] = <<>>]
  /\ UNCHANGED <<running, manager, stats, disk>>

(* The shutdown sends an end of stream through the pipeline and waits up   *)
(* to 10 seconds for it.                                                   *)
SendEos(ch) ==
  /\ worker[ch].pc = "check" /\ ~running
  /\ worker' = [worker EXCEPT ![ch].pc = "drain"]
  /\ pipe' = [pipe EXCEPT ![ch].ending = IF @ = "no" THEN "sent" ELSE @]
  /\ UNCHANGED <<running, manager, bus, stats, disk>>

SendEosFails(ch) == ~running /\ Jump(ch, "check", "teardown")

(* Mutant: the shutdown waits for the end of stream only.                  *)
DrainElementDiscarded(ch) ==
  /\ Popped(ch, "drain", {"opened", "closed"})
  /\ UNCHANGED <<running, manager, worker, pipe, stats, disk>>

DrainElement(ch) ==
  /\ Popped(ch, "drain", {"opened", "closed"})
  /\ HandleElement(Head(bus[ch]))
  /\ UNCHANGED <<running, manager, worker, pipe, stats, files, finalised, restarts>>

DrainEnds(ch) ==
  /\ Popped(ch, "drain", {"eos", "error"})
  /\ worker' = [worker EXCEPT ![ch].pc = "teardown", ![ch].left = Head(bus[ch]).type]
  /\ UNCHANGED <<running, manager, pipe, stats, disk>>

DrainDeadline(ch) == Jump(ch, "drain", "teardown")

(* The state NULL: the pipeline's threads end, what is left on the bus is  *)
(* gone and open files stay as they are.                                   *)
Teardown(ch) ==
  /\ worker[ch].pc = "teardown"
  /\ worker' = [worker EXCEPT ![ch].pc = "decide",
                              ![ch].result = IF running THEN @ ELSE "stopped"]
  /\ pipe' = [pipe EXCEPT ![ch] = [NoPipe EXCEPT !.mine = pipe[ch].mine]]
  /\ bus' = [bus EXCEPT ![ch] = <<>>]
  /\ UNCHANGED <<running, manager, stats, disk>>

(* Mutant: only an end of stream leads to another attempt.                 *)
StopsOnError(ch) == ~running \/ worker[ch].result # "eos"

Stops(ch) == ~running \/ worker[ch].result = "stopped"

StopWorker(ch) == Stops(ch) /\ Jump(ch, "decide", "stopped")

Reconnect(ch) ==
  /\ worker[ch].pc = "decide" /\ ~Stops(ch)
  /\ worker' = [worker EXCEPT ![ch].pc = "wait"]
  /\ stats' = [stats EXCEPT ![ch].reconnects = @ + 1]
  /\ UNCHANGED <<running, manager, pipe, bus, disk>>

WaitOver(ch) == Jump(ch, "wait", IF running THEN "top" ELSE "stopped")

WorkerStep(ch) ==
  \/ LoopEnds(ch) \/ BeginAttempt(ch) \/ BuildFails(ch) \/ SetPlaying(ch) \/ SetPlayingFails(ch)
  \/ CheckBus(ch) \/ FirstBufferTimeout(ch) \/ PopNothing(ch)
  \/ PopElement(ch) \/ PopError(ch) \/ PopEos(ch) \/ IndexFails(ch)
  \/ SendEos(ch) \/ SendEosFails(ch) \/ DrainElement(ch) \/ DrainEnds(ch) \/ DrainDeadline(ch)
  \/ Teardown(ch) \/ StopWorker(ch) \/ Reconnect(ch) \/ WaitOver(ch)

-----------------------------------------------------------------------------
(* The pipeline's threads and their callbacks.                             *)
Post(ch, type, path) ==
  bus' = [bus EXCEPT ![ch] = Append(@, [type |-> type, path |-> path])]

(* on_ingest_buffer for the first buffer of an attempt.                    *)
FirstBuffer(ch) ==
  /\ pipe[ch].up /\ ~pipe[ch].seen
  /\ pipe' = [pipe EXCEPT ![ch].seen = TRUE]
  /\ stats' = [stats EXCEPT ![ch].firstSeen = TRUE,
                            ![ch].firstBuffers = IF stats[ch].firstSeen THEN @ ELSE @ + 1]
  /\ UNCHANGED <<running, manager, worker, bus, disk>>

(* Mutant: the path carries no collision index.                            *)
SegmentPathNoIndex(ch, ms) == [ch |-> ch, ms |-> ms, index |-> 0]

(* on_format_segment_location: the first index whose path does not exist.  *)
SegmentPath(ch, ms) ==
  [ch |-> ch, ms |-> ms,
   index |-> CHOOSE i \in 0 .. Cardinality(files) :
               /\ [ch |-> ch, ms |-> ms, index |-> i] \notin files
               /\ \A j \in 0 .. i - 1 : [ch |-> ch, ms |-> ms, index |-> j] \in files]

OpenFragment(ch, ms) ==
  LET path == SegmentPath(ch, ms)
  IN
  /\ pipe[ch].up /\ pipe[ch].seen /\ pipe[ch].ending \in {"no", "sent"}
  /\ Cardinality(files) < MaxFiles
  /\ files' = files \cup {path}
  /\ pipe' = [pipe EXCEPT ![ch].mine = @ \cup {path}, ![ch].open = @ \cup {path},
                          ![ch].current = path]
  /\ Post(ch, "opened", path)
  /\ UNCHANGED <<running, manager, worker, stats, finalised, rows, complete, restarts>>

FinaliseFragment(ch, path) ==
  /\ path \in pipe[ch].open /\ path # pipe[ch].current
  /\ finalised' = finalised \cup {path}
  /\ pipe' = [pipe EXCEPT ![ch].open = @ \ {path}]
  /\ Post(ch, "closed", path)
  /\ UNCHANGED <<running, manager, worker, stats, files, rows, complete, restarts>>

(* The end of stream, from the camera or from SendEos, reaches the sink.   *)
StreamEnds(ch) ==
  /\ pipe[ch].up
  /\ \/ pipe[ch].ending = "sent"
     \/ pipe[ch].ending = "no" /\ MayFail(ch)
  /\ pipe' = [pipe EXCEPT ![ch].ending = "reached", ![ch].current = NoPath]
  /\ UNCHANGED <<running, manager, worker, bus, stats, disk>>

PostEos(ch) ==
  /\ pipe[ch].ending = "reached" /\ pipe[ch].open = {}
  /\ pipe' = [pipe EXCEPT ![ch].ending = "posted"]
  /\ Post(ch, "eos", NoPath)
  /\ UNCHANGED <<running, manager, worker, stats, disk>>

PostError(ch) ==
  /\ pipe[ch].up /\ ~pipe[ch].failed /\ MayFail(ch)
  /\ pipe' = [pipe EXCEPT ![ch].failed = TRUE]
  /\ Post(ch, "error", NoPath)
  /\ UNCHANGED <<running, manager, worker, stats, disk>>

PipeStep(ch) ==
  \/ FirstBuffer(ch) \/ StreamEnds(ch) \/ PostEos(ch) \/ PostError(ch)
  \/ \E ms \in Times : OpenFragment(ch, ms)
  \/ \E path \in pipe[ch].open : FinaliseFragment(ch, path)

-----------------------------------------------------------------------------
Exited == manager = "done" /\ UNCHANGED vars

ManagerStep == StartDone \/ StartBreaks \/ StopJoins \/ \E ch \in Channels : StartWorker(ch)

Next ==
  \/ ManagerStep \/ Signal \/ Restart \/ Exited
  \/ \E ch \in Channels : WorkerStep(ch) \/ PipeStep(ch)

(* The threads of the process are scheduled; the waits of a worker (on the *)
(* bus, for the end of stream, before a reconnect) have timeouts.          *)
Fairness == WF_vars(ManagerStep) /\ \A ch \in Channels : WF_vars(WorkerStep(ch))

Spec == Init /\ [][Next]_vars /\ Fairness

-----------------------------------------------------------------------------
Path == [ch : Channels, ms : Times, index : Nat]
Message == [type : {"opened", "closed"}, path : Path] \cup
           [type : {"error", "eos"}, path : {NoPath}]

(* Types; the result of an attempt is one of AttemptResult at all times.   *)
TypeOK ==
  /\ running \in BOOLEAN
  /\ manager \in {"starting", "serving", "done"}
  /\ worker \in [Channels ->
       [pc : {"off", "top", "build", "check", "pop", "drain", "teardown",
              "decide", "wait", "stopped", "failed"},
        result : {"stopped", "error", "eos"}, left : {"none", "error", "eos", "index"}]]
  /\ pipe \in [Channels ->
       [up : BOOLEAN, seen : BOOLEAN, mine : SUBSET Path, open : SUBSET Path,
        current : Path \cup {NoPath}, ending : {"no", "sent", "reached", "posted"},
        failed : BOOLEAN]]
  /\ bus \in [Channels -> Seq(Message)]
  /\ stats \in [Channels ->
       [attempts : Nat, reconnects : Nat, firstBuffers : Nat,
        errors : Nat, eos : Nat, firstSeen : BOOLEAN]]
  /\ files \subseteq Path /\ finalised \subseteq Path
  /\ rows \subseteq Path /\ complete \subseteq Path
  /\ restarts \in 0 .. MaxRestarts

(* The statistics add up whatever happens: every reconnect follows an      *)
(* error or an end of stream, an attempt has at most one of these and at   *)
(* most one first buffer, and all attempts but the last were followed by a *)
(* reconnect.                                                              *)
StatsAddUp ==
  \A ch \in Channels :
    LET s == stats[ch]
    IN  /\ s.reconnects <= s.errors + s.eos
        /\ s.errors + s.eos <= s.attempts
        /\ s.attempts <= s.reconnects + 1
        /\ s.firstBuffers <= s.attempts

(* A row says complete = 1 only if its file was finalised, also after any  *)
(* number of failures and restarts.                                        *)
CompleteIsFinalised == complete \subseteq finalised

(* After an attempt whose end of stream was seen, in operation or in the   *)
(* shutdown, the index has every file of the attempt as complete: nothing  *)
(* that the pipeline reported was left on the bus.                         *)
EndOfStreamIndexesAll ==
  \A ch \in Channels :
    worker[ch].left = "eos" /\ worker[ch].pc \in {"teardown", "decide", "wait", "stopped"}
      => pipe[ch].mine \subseteq complete

(* An INSERT never meets the row of another file, and an UPDATE finds the  *)
(* row of its file: paths are not used twice, even if the clock stands     *)
(* still or goes back and across restarts, and messages come in order.     *)
RowsMatchMessages ==
  \A ch \in Channels : \A i \in DOMAIN bus[ch] :
    LET m == bus[ch][i]
        openedBefore == \E j \in 1 .. i - 1 : bus[ch][j] = [type |-> "opened", path |-> m.path]
    IN  /\ m.type = "opened" => m.path \notin rows /\ ~openedBefore
        /\ m.type = "closed" => m.path \in rows \/ openedBefore

(* A signal stops the workers, wherever they are, and then main.           *)
StopCompletes == ~running ~> (manager = "done" \/ running)

(* A worker whose attempt ended with an error or an end of stream makes    *)
(* another attempt unless the process stops.                               *)
ErrorLeadsToAttempt ==
  \A ch \in Channels :
    (worker[ch].pc = "teardown" /\ worker[ch].result # "stopped" /\ running)
      ~> (worker[ch].pc = "build" \/ ~running \/ worker[ch].pc = "off")

=============================================================================
