------------------------ MODULE FrameQueueLoopProofs ------------------------
(***************************************************************************)
(* The safety properties of BoundedFrameQueue for every number of threads, *)
(* every pair of limits and all frame sizes.                               *)
(***************************************************************************)
EXTENDS FrameQueueLoop, TLAPS, SequenceTheorems

(* The thread inside push pushes a frame that fits an empty queue.         *)
PusherState ==
  mutex # NoThread => /\ pushing \in Sizes
                      /\ pushing <= MaxBytes
                      /\ ~closed

(* No queued frame reaches beyond the stream of accepted bytes, and        *)
(* neither does what was popped.                                           *)
WithinStream ==
  /\ \A i \in 1 .. Len(frames) : frames[i].at + frames[i].size <= accepted
  /\ popped <= accepted

(* The inductive invariant.  WithinLimits needs BytesExact for the push    *)
(* that empties the queue (its byte counter must then be zero), BytesExact *)
(* needs WithinStream (the counter covers the frame that is subtracted).   *)
IInv ==
  /\ TypeOK
  /\ PusherState
  /\ WithinStream
  /\ WithinLimits
  /\ BytesExact
  /\ ClosedStaysEmpty
  /\ PopsInOrder
  /\ NoSilentLoss

(* A sequence is empty exactly if its length is zero.                      *)
LEMMA EmptyIffLenZero ==
  ASSUME NEW S, NEW s \in Seq(S)
  PROVE  Len(s) \in Nat /\ (s = <<>> <=> Len(s) = 0)
BY EmptySeq, SMT

(* The frames of the queue have their types.                               *)
LEMMA FrameTypes ==
  ASSUME IInv
  PROVE  /\ frames \in Seq(Frame) /\ accepted \in Nat /\ bytes \in Nat
         /\ Len(frames) \in Nat
         /\ (frames = <<>> <=> Len(frames) = 0)
         /\ \A i \in 1 .. Len(frames) : /\ frames[i] \in Frame
                                        /\ frames[i].at \in Nat
                                        /\ frames[i].size \in Nat
<1>1. frames \in Seq(Frame) /\ accepted \in Nat /\ bytes \in Nat
  BY DEF IInv, TypeOK
<1>2. \A x \in Frame : x.at \in Nat /\ x.size \in Nat
  BY SizesAssumption DEF Frame
<1>3. \A i \in 1 .. Len(frames) : frames[i] \in Frame
  BY <1>1, LenProperties
<1> QED BY <1>1, <1>2, <1>3, EmptyIffLenZero

(* The start of the oldest frame, in terms of the frame behind it.         *)
LEMMA Telescope ==
  ASSUME NEW a \in Nat, NEW x \in Nat, NEW y \in Nat, x + y <= a
  PROVE  /\ a - x - y = a - (x + y)
         /\ a - x - y \in Nat /\ a - x - y <= a - x
OBVIOUS

(* Removing the oldest frame, as push's loop and try_pop do, keeps the     *)
(* queue a run of the stream and makes bytes_ the size of the rest.        *)
LEMMA DropOldest ==
  ASSUME IInv, frames # <<>>,
         frames' = Tail(frames), bytes' = bytes - Head(frames).size,
         accepted' = accepted
  PROVE  /\ frames' \in Seq(Frame)
         /\ Len(frames') = Len(frames) - 1
         /\ bytes' \in Nat /\ bytes' <= bytes
         /\ BytesExact'
         /\ \A i \in 1 .. Len(frames') : frames'[i].at + frames'[i].size <= accepted'
         /\ frames' # <<>> => frames'[1].at = Head(frames).at + Head(frames).size
<1>1. /\ frames \in Seq(Frame) /\ accepted \in Nat /\ bytes \in Nat
      /\ Len(frames) \in Nat \ {0}
      /\ \A i \in 1 .. Len(frames) : frames[i].at \in Nat /\ frames[i].size \in Nat
  BY FrameTypes
<1>2. /\ Head(frames) = frames[1]
      /\ frames' \in Seq(Frame)
      /\ Len(frames') = Len(frames) - 1
      /\ \A i \in 1 .. Len(frames') : frames'[i] = frames[i + 1]
  BY <1>1, HeadTailProperties
<1>3. frames' = <<>> <=> Len(frames') = 0
  BY <1>2, EmptyIffLenZero
<1>4. /\ \A i \in 1 .. Len(frames) - 1 :
             frames[i + 1].at = frames[i].at + frames[i].size
      /\ frames[Len(frames)].at + frames[Len(frames)].size = accepted
      /\ bytes = accepted - frames[1].at
      /\ \A i \in 1 .. Len(frames) : frames[i].at + frames[i].size <= accepted
  BY DEF IInv, BytesExact, Contiguous, WithinStream
<1>5. Contiguous'
  BY <1>1, <1>2, <1>3, <1>4 DEF Contiguous
<1>6. \A i \in 1 .. Len(frames') : frames'[i].at + frames'[i].size <= accepted'
  BY <1>1, <1>2, <1>4
<1>7. frames' # <<>> => frames'[1].at = frames[1].at + frames[1].size
  BY <1>1, <1>2, <1>3, <1>4
<1>8. /\ frames[1].at \in Nat /\ frames[1].size \in Nat
      /\ bytes' = accepted - frames[1].at - frames[1].size
      /\ frames[1].at + frames[1].size <= accepted
  BY <1>1, <1>2, <1>4
<1>9. /\ accepted - frames[1].at - frames[1].size
            = accepted - (frames[1].at + frames[1].size)
      /\ accepted - frames[1].at - frames[1].size \in Nat
      /\ accepted - frames[1].at - frames[1].size <= accepted - frames[1].at
  BY <1>1, <1>8, Telescope
<1>10. bytes' = IF frames' = <<>> THEN 0 ELSE accepted' - frames'[1].at
  <2>1. CASE frames' = <<>>
    <3>1. Len(frames) = 1
      BY <2>1, <1>1, <1>2, <1>3
    <3> QED BY <2>1, <3>1, <1>1, <1>4, <1>8
  <2>2. CASE frames' # <<>>
    BY <2>2, <1>7, <1>8, <1>9
  <2> QED BY <2>1, <2>2
<1>11. bytes' \in Nat /\ bytes' <= bytes
  BY <1>4, <1>8, <1>9
<1> QED BY <1>2, <1>5, <1>6, <1>7, <1>10, <1>11 DEF BytesExact

(* The constructor establishes the invariant.                              *)
LEMMA InitIInv == Init => IInv
<1> SUFFICES ASSUME Init PROVE IInv
  OBVIOUS
<1>1. frames \in Seq(Frame) /\ Len(frames) = 0 /\ frames = <<>>
  BY EmptySeq DEF Init
<1>2. TypeOK
  BY <1>1 DEF Init, TypeOK
<1>3. PusherState /\ WithinStream /\ ClosedStaysEmpty
  BY <1>1 DEF Init, PusherState, WithinStream, ClosedStaysEmpty
<1>4. WithinLimits /\ PopsInOrder /\ NoSilentLoss
  BY <1>1, QueueLimits DEF Init, WithinLimits, PopsInOrder, NoSilentLoss
<1>5. BytesExact
  BY <1>1 DEF Init, BytesExact, Contiguous
<1> QED BY <1>2, <1>3, <1>4, <1>5 DEF IInv

(* Every step of push, try_pop and close keeps the invariant.              *)
LEMMA NextIInv == IInv /\ [Next]_vars => IInv'
<1> SUFFICES ASSUME IInv, [Next]_vars PROVE IInv'
  OBVIOUS
<1> USE QueueLimits, ThreadsAssumption, SizesAssumption
<1>0. /\ frames \in Seq(Frame) /\ Len(frames) \in Nat
      /\ (frames = <<>> <=> Len(frames) = 0)
      /\ \A i \in 1 .. Len(frames) : /\ frames[i] \in Frame
                                     /\ frames[i].at \in Nat
                                     /\ frames[i].size \in Nat
  BY FrameTypes
<1>1. ASSUME NEW t \in Threads, NEW size \in Sizes, PushTooLarge(t, size)
      PROVE  IInv'
  BY <1>1
  DEF PushTooLarge, IInv, TypeOK, PusherState, WithinStream, WithinLimits,
      BytesExact, Contiguous, ClosedStaysEmpty, PopsInOrder, NoSilentLoss
<1>2. ASSUME NEW t \in Threads, NEW size \in Sizes, PushEnter(t, size)
      PROVE  IInv'
  BY <1>2
  DEF PushEnter, history, IInv, TypeOK, PusherState, WithinStream,
      WithinLimits, BytesExact, Contiguous, ClosedStaysEmpty, PopsInOrder,
      NoSilentLoss
<1>3. ASSUME NEW t \in Threads, PushEvict(t)
      PROVE  IInv'
  <2>1. /\ frames # <<>> /\ mutex = t /\ ~closed
        /\ UNCHANGED <<closed, mutex, pushing, accepted, refused, queued,
                       taken, cleared, popped>>
        /\ drops' = drops + 1
    BY <1>3 DEF PushEvict, LoopCondition, history, IInv, PusherState
  <2>2. /\ frames' \in Seq(Frame) /\ Len(frames') = Len(frames) - 1
        /\ bytes' \in Nat /\ bytes' <= bytes
        /\ BytesExact'
        /\ \A i \in 1 .. Len(frames') : frames'[i].at + frames'[i].size <= accepted'
        /\ frames' # <<>> => frames'[1].at = Head(frames).at + Head(frames).size
    BY <1>3, <2>1, DropOldest DEF PushEvict
  <2>3. TypeOK' /\ PusherState' /\ WithinStream' /\ ClosedStaysEmpty'
    BY <2>1, <2>2 DEF IInv, TypeOK, PusherState, WithinStream, ClosedStaysEmpty
  <2>4. WithinLimits'
    BY <2>2, <1>0 DEF IInv, WithinLimits, TypeOK
  <2>5. PopsInOrder'
    BY <2>1, <2>2, <1>0 DEF IInv, PopsInOrder, TypeOK
  <2>6. NoSilentLoss'
    BY <2>1, <2>2, <1>0 DEF IInv, NoSilentLoss, TypeOK
  <2> QED BY <2>2, <2>3, <2>4, <2>5, <2>6 DEF IInv
<1>4. ASSUME NEW t \in Threads, PushInsert(t)
      PROVE  IInv'
  <2> DEFINE f == [at |-> accepted, size |-> pushing]
  <2>1. /\ mutex = t /\ ~closed /\ pushing \in Sizes /\ pushing <= MaxBytes
        /\ pushing \in Nat /\ accepted \in Nat /\ bytes \in Nat
        /\ f \in Frame
    BY <1>4 DEF PushInsert, IInv, PusherState, TypeOK, Frame
  <2>2. /\ frames' = Append(frames, f) /\ frames' \in Seq(Frame)
        /\ Len(frames') = Len(frames) + 1
        /\ \A i \in 1 .. Len(frames) : frames'[i] = frames[i]
        /\ frames'[Len(frames) + 1] = f
        /\ accepted' = accepted + pushing /\ bytes' = bytes + pushing
    BY <1>4, <1>0, <2>1 DEF PushInsert
  <2>3. TypeOK' /\ PusherState' /\ ClosedStaysEmpty'
    BY <1>4, <2>1, <2>2 DEF PushInsert, IInv, TypeOK, PusherState, ClosedStaysEmpty
  <2>4. WithinStream'
    BY <1>4, <1>0, <2>1, <2>2 DEF PushInsert, IInv, WithinStream, TypeOK
  <2>5. WithinLimits'
    <3>1. Len(frames) < MaxFrames
      BY <1>4, <1>0 DEF PushInsert, LoopCondition
    <3>2. bytes + pushing <= MaxBytes
      BY <1>4, <1>0, <2>1 DEF PushInsert, LoopCondition, IInv, BytesExact
    <3> QED BY <3>1, <3>2, <2>2, <1>0 DEF WithinLimits
  <2>6. Contiguous'
    <3>1. ASSUME NEW i \in 1 .. Len(frames') - 1
          PROVE  frames'[i + 1].at = frames'[i].at + frames'[i].size
      <4>1. CASE i = Len(frames)
        BY <4>1, <1>0, <2>1, <2>2 DEF IInv, BytesExact, Contiguous
      <4>2. CASE i < Len(frames)
        BY <4>2, <1>0, <2>2 DEF IInv, BytesExact, Contiguous
      <4> QED BY <4>1, <4>2, <1>0, <2>2
    <3>2. frames'[Len(frames')].at + frames'[Len(frames')].size = accepted'
      BY <1>0, <2>1, <2>2
    <3> QED BY <3>1, <3>2 DEF Contiguous
  <2>7. BytesExact'
    BY <1>0, <2>1, <2>2, <2>6 DEF IInv, BytesExact
  <2>8. PopsInOrder'
    BY <1>4, <1>0, <2>1, <2>2 DEF PushInsert, IInv, PopsInOrder, WithinStream
  <2>9. NoSilentLoss'
    BY <1>4, <1>0, <2>2 DEF PushInsert, IInv, NoSilentLoss, TypeOK
  <2> QED BY <2>3, <2>4, <2>5, <2>7, <2>8, <2>9 DEF IInv
<1>5. ASSUME NEW t \in Threads, TryPopFrame(t)
      PROVE  IInv'
  <2>1. /\ frames # <<>> /\ mutex = NoThread
        /\ UNCHANGED <<drops, closed, mutex, pushing, accepted, refused,
                       queued, cleared>>
        /\ taken' = taken + 1
        /\ popped' = Head(frames).at + Head(frames).size
    BY <1>5 DEF TryPopFrame
  <2>2. /\ frames' \in Seq(Frame) /\ Len(frames') = Len(frames) - 1
        /\ bytes' \in Nat /\ bytes' <= bytes
        /\ BytesExact'
        /\ \A i \in 1 .. Len(frames') : frames'[i].at + frames'[i].size <= accepted'
        /\ frames' # <<>> => frames'[1].at = Head(frames).at + Head(frames).size
    BY <1>5, <2>1, DropOldest DEF TryPopFrame
  <2>3. Head(frames) = frames[1] /\ popped' \in Nat /\ popped' <= accepted
    BY <2>1, <1>0 DEF IInv, WithinStream
  <2>4. TypeOK' /\ PusherState' /\ WithinStream' /\ ClosedStaysEmpty'
    BY <2>1, <2>2, <2>3 DEF IInv, TypeOK, PusherState, WithinStream, ClosedStaysEmpty
  <2>5. WithinLimits'
    BY <2>2, <1>0 DEF IInv, WithinLimits, TypeOK
  <2>6. PopsInOrder'
    BY <2>1, <2>2, <2>3, <1>0 DEF PopsInOrder
  <2>7. NoSilentLoss'
    BY <2>1, <2>2, <1>0 DEF IInv, NoSilentLoss, TypeOK
  <2> QED BY <2>2, <2>4, <2>5, <2>6, <2>7 DEF IInv
<1>6. ASSUME NEW t \in Threads, CloseQueue(t)
      PROVE  IInv'
  BY <1>6, <1>0
  DEF CloseQueue, IInv, TypeOK, PusherState, WithinStream, WithinLimits,
      BytesExact, Contiguous, ClosedStaysEmpty, PopsInOrder, NoSilentLoss
<1>7. CASE UNCHANGED vars
  BY <1>7
  DEF vars, IInv, TypeOK, PusherState, WithinStream, WithinLimits,
      BytesExact, Contiguous, ClosedStaysEmpty, PopsInOrder, NoSilentLoss
<1> QED BY <1>1, <1>2, <1>3, <1>4, <1>5, <1>6, <1>7 DEF Next, Step

(* The invariant holds throughout.                                         *)
LEMMA SpecIInv == Spec => []IInv
BY InitIInv, NextIInv, PTL DEF Spec

(* The members of the queue have their types: no counter is negative.      *)
THEOREM QueueTypeOK == Spec => []TypeOK
BY SpecIInv, PTL DEF IInv

(* The queue never exceeds max_frames_ or max_bytes_, whatever the sizes   *)
(* of the frames and the interleaving of push, try_pop and close.          *)
THEOREM QueueWithinLimits == Spec => []WithinLimits
BY SpecIInv, PTL DEF IInv

(* bytes_ is always the size of the queued frames, which are the newest    *)
(* accepted ones in order: the unsigned counter cannot wrap around.        *)
THEOREM QueueBytesExact == Spec => []BytesExact
BY SpecIInv, PTL DEF IInv

(* A closed queue stays empty under late pushes.                           *)
THEOREM QueueClosedStaysEmpty == Spec => []ClosedStaysEmpty
BY SpecIInv, PTL DEF IInv

(* try_pop returns the frames in the order of the pushes, none twice.      *)
THEOREM QueuePopsInOrder == Spec => []PopsInOrder
BY SpecIInv, PTL DEF IInv

(* Every accepted frame is queued, popped, counted in drops_ or discarded  *)
(* by close.                                                               *)
THEOREM QueueNoSilentLoss == Spec => []NoSilentLoss
BY SpecIInv, PTL DEF IInv

=============================================================================
