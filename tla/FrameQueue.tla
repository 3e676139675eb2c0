----------------------------- MODULE FrameQueue -----------------------------
(***************************************************************************)
(* The methods of BoundedFrameQueue, the queue between a channel's ingest  *)
(* thread and one live client's session thread, as operators on the value  *)
(* of the queue.  Every method holds mutex_ for its whole body, so that a  *)
(* call is one step for the other threads; FrameQueueLoop models the       *)
(* statements of push one by one and is shown to amount to the same.       *)
(*                                                                         *)
(* A frame is any record with a field size, the number of its bytes.       *)
(***************************************************************************)
EXTENDS Integers, Sequences

CONSTANTS MaxFrames,  \* max_frames_
          MaxBytes    \* max_bytes_

(* The constructor throws when a limit is zero.                            *)
ASSUME QueueLimits == MaxFrames \in Nat \ {0} /\ MaxBytes \in Nat \ {0}

NewQueue == [frames |-> <<>>, bytes |-> 0, drops |-> 0, closed |-> FALSE]

(* bytes_ after k iterations of push's loop, each of which subtracts the   *)
(* size of the frame it pops.                                              *)
BytesAfter(q) ==
  LET b[k \in 0 .. Len(q.frames)] ==
        IF k = 0 THEN q.bytes ELSE b[k - 1] - q.frames[k].size
  IN  b

(* The condition of push's loop after k iterations.                        *)
MustEvict(q, f, k) ==
  /\ k < Len(q.frames)
  /\ \/ Len(q.frames) - k >= MaxFrames
     \/ BytesAfter(q)[k] + f.size > MaxBytes

(* The number of iterations of push's loop.                                *)
Evictions(q, f) ==
  CHOOSE k \in 0 .. Len(q.frames) :
    /\ ~ MustEvict(q, f, k)
    /\ \A j \in 0 .. k - 1 : MustEvict(q, f, j)

(* push: the result (no caller reads it) is left out.                      *)
Push(q, f) ==
  IF q.closed THEN q
  ELSE IF f.size > MaxBytes THEN [q EXCEPT !.drops = @ + 1]
  ELSE LET n == Evictions(q, f)
       IN  [q EXCEPT !.frames = Append(SubSeq(@, n + 1, Len(@)), f),
                     !.bytes = BytesAfter(q)[n] + f.size,
                     !.drops = @ + n]

(* Mutant: try_pop returns the front and leaves it queued.                 *)
TryPopPeeks(q) == q

(* try_pop on a queue that is not empty: the caller gets Head(q.frames).   *)
TryPop(q) ==
  [q EXCEPT !.frames = Tail(@), !.bytes = @ - Head(q.frames).size]

(* Mutant: close does not refuse later pushes.                             *)
CloseOnlyClears(q) == [q EXCEPT !.frames = <<>>, !.bytes = 0]

(* close: what is still queued is discarded and not counted in drops_.     *)
Close(q) == [q EXCEPT !.closed = TRUE, !.frames = <<>>, !.bytes = 0]

=============================================================================
