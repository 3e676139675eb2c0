--------------------------- MODULE FrameQueueLoop ---------------------------
(***************************************************************************)
(* BoundedFrameQueue with the loop of push taken one iteration at a time   *)
(* under mutex_, called by any number of threads.  In the server one       *)
(* thread pushes (the ingest thread of the client's channel) and one pops  *)
(* and closes (the client's session thread); the class promises its        *)
(* callers the same for any number of them.                                *)
(***************************************************************************)
EXTENDS FrameQueue

CONSTANTS Threads,
          NoThread,      \* mutex_ is free
          Sizes,         \* sizes of the frames that are pushed
          MaxAccepted,   \* bound: bytes queued over the run
          MaxRefused     \* bound: frames refused for their size over the run

(* on_frame rejects empty frames before it pushes.                         *)
ASSUME ThreadsAssumption == NoThread \notin Threads
ASSUME SizesAssumption == Sizes \subseteq Nat \ {0}
ASSUME BoundsAssumption == MaxAccepted \in Nat /\ MaxRefused \in Nat

VARIABLES frames,    \* frames_
          bytes,     \* bytes_
          drops,     \* drops_
          closed,    \* closed_
          mutex,     \* the thread that holds mutex_
          pushing,   \* the size of the frame that the holder of mutex_ pushes
          accepted,  \* history: total size of the frames ever queued
          refused,   \* history: frames refused because they exceed max_bytes_
          queued,    \* history: number of frames ever queued
          taken,     \* history: number of frames returned by try_pop
          cleared,   \* history: number of frames discarded by close
          popped     \* history: where the last frame returned by try_pop ends

vars == <<frames, bytes, drops, closed, mutex, pushing,
          accepted, refused, queued, taken, cleared, popped>>

history == <<accepted, refused, queued, taken, cleared, popped>>

(* A frame remembers where it starts in the stream of the bytes ever       *)
(* queued; this identifies it and orders it.                               *)
Frame == [at : Nat, size : Sizes]

Init ==
  /\ frames = <<>> /\ bytes = 0 /\ drops = 0 /\ closed = FALSE
  /\ mutex = NoThread /\ pushing = 0
  /\ accepted = 0 /\ refused = 0 /\ queued = 0
  /\ taken = 0 /\ cleared = 0 /\ popped = 0

-----------------------------------------------------------------------------
(* A push on a closed queue returns at once: it changes nothing.           *)

(* push counts and refuses a frame that exceeds the byte limit by itself.  *)
PushTooLarge(t, size) ==
  /\ mutex = NoThread /\ ~closed
  /\ size > MaxBytes
  /\ refused < MaxRefused
  /\ drops' = drops + 1
  /\ refused' = refused + 1
  /\ UNCHANGED <<frames, bytes, closed, mutex, pushing,
                 accepted, queued, taken, cleared, popped>>

(* Mutant: push does not look at closed_.                                  *)
PushEnterClosed(t, size) ==
  /\ mutex = NoThread /\ size <= MaxBytes /\ accepted + size <= MaxAccepted
  /\ mutex' = t /\ pushing' = size
  /\ UNCHANGED <<frames, bytes, drops, closed, history>>

(* push takes the lock and reaches its loop.                               *)
PushEnter(t, size) ==
  /\ mutex = NoThread /\ ~closed
  /\ size <= MaxBytes
  /\ accepted + size <= MaxAccepted
  /\ mutex' = t
  /\ pushing' = size
  /\ UNCHANGED <<frames, bytes, drops, closed, history>>

(* Mutants: the frame limit is off by one; the loop empties the queue.     *)
LoopConditionOneMore ==
  frames # <<>> /\ (Len(frames) > MaxFrames \/ bytes + pushing > MaxBytes)
LoopConditionGreedy == frames # <<>>

(* The condition of push's loop.                                           *)
LoopCondition ==
  /\ frames # <<>>
  /\ Len(frames) >= MaxFrames \/ bytes + pushing > MaxBytes

(* Mutants: an iteration subtracts the size of the new frame; it does not  *)
(* count the drop; it pops nothing.                                        *)
PushEvictNewSize(t) ==
  /\ mutex = t /\ LoopCondition
  /\ bytes' = bytes - pushing /\ frames' = Tail(frames) /\ drops' = drops + 1
  /\ UNCHANGED <<closed, mutex, pushing, history>>
PushEvictUncounted(t) ==
  /\ mutex = t /\ LoopCondition
  /\ bytes' = bytes - Head(frames).size /\ frames' = Tail(frames)
  /\ UNCHANGED <<drops, closed, mutex, pushing, history>>
PushEvictNothing(t) == mutex = t /\ LoopCondition /\ UNCHANGED vars

(* One iteration of push's loop.                                           *)
PushEvict(t) ==
  /\ mutex = t
  /\ LoopCondition
  /\ bytes' = bytes - Head(frames).size
  /\ frames' = Tail(frames)
  /\ drops' = drops + 1
  /\ UNCHANGED <<closed, mutex, pushing, history>>

(* push leaves its loop, appends the frame and releases the lock.          *)
PushInsert(t) ==
  /\ mutex = t
  /\ ~LoopCondition
  /\ bytes' = bytes + pushing
  /\ frames' = Append(frames, [at |-> accepted, size |-> pushing])
  /\ mutex' = NoThread
  /\ pushing' = 0
  /\ accepted' = accepted + pushing
  /\ queued' = queued + 1
  /\ UNCHANGED <<drops, closed, refused, taken, cleared, popped>>

(* Mutants: try_pop leaves the frame's size in bytes_; it leaves the frame *)
(* in the queue.                                                           *)
TryPopKeepsBytes(t) ==
  /\ mutex = NoThread /\ frames # <<>>
  /\ frames' = Tail(frames) /\ taken' = taken + 1
  /\ popped' = Head(frames).at + Head(frames).size
  /\ UNCHANGED <<bytes, drops, closed, mutex, pushing,
                 accepted, refused, queued, cleared>>
TryPopKeepsFrame(t) ==
  /\ mutex = NoThread /\ frames # <<>> /\ taken < queued
  /\ taken' = taken + 1
  /\ popped' = Head(frames).at + Head(frames).size
  /\ UNCHANGED <<frames, bytes, drops, closed, mutex, pushing,
                 accepted, refused, queued, cleared>>

(* try_pop on a queue that is not empty; on an empty one it changes        *)
(* nothing.                                                                *)
TryPopFrame(t) ==
  /\ mutex = NoThread
  /\ frames # <<>>
  /\ frames' = Tail(frames)
  /\ bytes' = bytes - Head(frames).size
  /\ taken' = taken + 1
  /\ popped' = Head(frames).at + Head(frames).size
  /\ UNCHANGED <<drops, closed, mutex, pushing,
                 accepted, refused, queued, cleared>>

CloseQueue(t) ==
  /\ mutex = NoThread
  /\ closed' = TRUE
  /\ frames' = <<>>
  /\ bytes' = 0
  /\ cleared' = cleared + Len(frames)
  /\ UNCHANGED <<drops, mutex, pushing, accepted, refused, queued, taken, popped>>

Step(t) ==
  \/ \E size \in Sizes : PushTooLarge(t, size) \/ PushEnter(t, size)
  \/ PushEvict(t)
  \/ PushInsert(t)
  \/ TryPopFrame(t)
  \/ CloseQueue(t)

Next == \E t \in Threads : Step(t)

(* A thread inside push keeps running: its loop waits for nothing.         *)
Fairness == \A t \in Threads : WF_vars(PushEvict(t) \/ PushInsert(t))

Spec == Init /\ [][Next]_vars /\ Fairness

-----------------------------------------------------------------------------
(* Types; bytes_, which is unsigned, never wraps below zero.               *)
TypeOK ==
  /\ frames \in Seq(Frame)
  /\ bytes \in Nat /\ drops \in Nat /\ closed \in BOOLEAN
  /\ mutex \in Threads \cup {NoThread}
  /\ pushing \in Sizes \cup {0}
  /\ accepted \in Nat /\ refused \in Nat /\ queued \in Nat
  /\ taken \in Nat /\ cleared \in Nat /\ popped \in Nat

(* The queue is within both limits at every moment, in the middle of a     *)
(* push too: push makes room before it appends.                            *)
WithinLimits == Len(frames) <= MaxFrames /\ bytes <= MaxBytes

(* The queued frames are consecutive pieces of the stream of accepted      *)
(* bytes that end where the stream ends: only the oldest frames are ever   *)
(* dropped, and nothing is reordered or duplicated.                        *)
Contiguous ==
  /\ \A i \in 1 .. Len(frames) - 1 :
        frames[i + 1].at = frames[i].at + frames[i].size
  /\ frames # <<>> =>
        frames[Len(frames)].at + frames[Len(frames)].size = accepted

(* bytes_ is exactly the size of what is queued (the frames are            *)
(* contiguous, so the sum of their sizes telescopes): the subtractions of  *)
(* push's loop and of try_pop never wrap around below zero.                *)
BytesExact ==
  /\ Contiguous
  /\ bytes = IF frames = <<>> THEN 0 ELSE accepted - frames[1].at

(* After close, a push that was already on its way to the queue leaves     *)
(* nothing in it: a finished session keeps no frame memory.                *)
ClosedStaysEmpty == closed => frames = <<>> /\ bytes = 0 /\ mutex = NoThread

(* try_pop hands the frames out in the order of the pushes and none twice. *)
PopsInOrder == frames # <<>> => popped <= frames[1].at

(* Every frame accepted by push is still queued, was returned by try_pop,  *)
(* is counted in drops_ or was discarded by close: no silent loss.         *)
NoSilentLoss ==
  queued = Len(frames) + taken + (drops - refused) + cleared

(* A push that entered its loop returns the lock: the loop terminates.     *)
PushReturns == \A t \in Threads : mutex = t ~> mutex = NoThread

-----------------------------------------------------------------------------
(* The value of the queue as its callers see it.  The effect of a push     *)
(* that has reached its loop is determined by the state the loop is in.    *)
Seen ==
  LET q == [frames |-> frames, bytes |-> bytes, drops |-> drops, closed |-> closed]
  IN  IF mutex = NoThread THEN q
      ELSE Push(q, [at |-> accepted, size |-> pushing])

Promise == INSTANCE FrameQueueSpec
  WITH frames <- Seen.frames, drops <- Seen.drops, closed <- Seen.closed,
       Frames <- [at : 0 .. MaxAccepted, size : Sizes]

(* The queue keeps the longest run of the newest frames that fits; push's  *)
(* loop takes effect at once for its callers, as the operator Push says.   *)
KeepsLongestFit == Promise!Spec

=============================================================================
