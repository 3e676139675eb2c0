---------------------------- MODULE MCRtpSender ----------------------------
(***************************************************************************)
(* Instances of RtpSender for TLC.  A NAL unit is a header and bytes that  *)
(* do not look like a start code: the encoder escapes those.               *)
(***************************************************************************)
EXTENDS RtpSender

Nals(lengths) ==
  { [i \in 1 .. n |-> IF i = 1 THEN 2 ELSE IF i = 3 /\ n > 3 THEN 0 ELSE 1 + (i % 250)] :
      n \in lengths }

UnitsOf(lengths, prefixes) ==
  { [nals |-> s, prefix |-> p] :
      s \in UNION { [1 .. k -> Nals(lengths)] : k \in 1 .. 2 }, p \in prefixes }

ParameterSets == <<<<103, 1>>, <<104>>>>

(* Lengths below, at and above what a packet and two fragments hold.       *)
SmallUnits ==
  UnitsOf({2, 6, 7, 9, 10, 13}, {"start", "length"}) \cup UnitsOf({1, 6}, {"start"})

(* A NAL unit of 256 to 511 bytes has the length field 0, 0, 1, n.         *)
LargeUnits == UnitsOf({2, 300}, {"length"})

=============================================================================
