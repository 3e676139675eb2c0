---------------------------- MODULE MCFrameQueue ----------------------------
(* FrameQueueLoop for TLC: two threads, frames of sizes below, at and      *)
(* above the byte limit, and enough bytes to fill the queue several times. *)
EXTENDS FrameQueueLoop

=============================================================================
