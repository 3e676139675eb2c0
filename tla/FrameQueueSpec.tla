--------------------------- MODULE FrameQueueSpec ---------------------------
(***************************************************************************)
(* What BoundedFrameQueue promises its callers, without its loop and its   *)
(* byte counter: the queue holds the longest run of the most recent frames *)
(* that fits both limits, so a slow reader loses the oldest frames and     *)
(* never the newest one, and a closed queue stays empty.                   *)
(***************************************************************************)
EXTENDS Integers, Sequences, SequencesExt, FiniteSetsExt

CONSTANTS MaxFrames, MaxBytes, Frames

VARIABLES frames, drops, closed

vars == <<frames, drops, closed>>

TotalSize(s) == FoldLeft(LAMBDA sum, f : sum + f.size, 0, s)

Fits(s) == Len(s) <= MaxFrames /\ TotalSize(s) <= MaxBytes

(* The longest suffix of s that fits.                                      *)
LongestFit(s) ==
  LET n == Max({ k \in 0 .. Len(s) : Fits(SubSeq(s, Len(s) - k + 1, Len(s))) })
  IN  SubSeq(s, Len(s) - n + 1, Len(s))

Init == frames = <<>> /\ drops = 0 /\ closed = FALSE

(* A frame that alone exceeds the byte limit is refused and leaves the     *)
(* queue as it is; any other frame is queued.                              *)
Put(f) ==
  /\ ~closed
  /\ frames' = IF Fits(<<f>>) THEN LongestFit(Append(frames, f)) ELSE frames
  /\ drops' = drops + Len(frames) + 1 - Len(frames')
  /\ UNCHANGED closed

Take ==
  /\ frames # <<>>
  /\ frames' = Tail(frames)
  /\ UNCHANGED <<drops, closed>>

Shut ==
  /\ closed' = TRUE
  /\ frames' = <<>>
  /\ UNCHANGED drops

Next == (\E f \in Frames : Put(f)) \/ Take \/ Shut

Spec == Init /\ [][Next]_vars

=============================================================================
