----------------------------- MODULE RtpSender -----------------------------
(***************************************************************************)
(* From an access unit to RTP packets: split_access_unit finds its NAL     *)
(* units, packetize_access_unit sends each in a packet of its own or in    *)
(* fragments.  The client is external: it puts NAL units and access units  *)
(* together again as RFC 6184 and RFC 7798 say.                            *)
(*                                                                         *)
(* The NAL header of a fragment, which the code spreads over the bits of   *)
(* the fragment's own header bytes, is kept whole.                         *)
(***************************************************************************)
EXTENDS Integers, Sequences, SequencesExt, FiniteSetsExt

CONSTANTS Units,       \* records [nals, prefix]: "start" codes or "length"s
          Sets,        \* the parameter sets sent before the first unit
          MaxPayload,  \* mtu - 12
          SeqModulus,  \* 2^16, the width of the sequence number
          MaxUnits     \* bound: access units sent over the run

Byte == 0 .. 255

(* packetize_access_unit throws when the mtu is 15 or less.                *)
ASSUME SenderAssumption ==
  /\ MaxPayload \in Nat /\ MaxPayload > 3
  /\ SeqModulus \in Nat \ {0} /\ MaxUnits \in Nat
  /\ Sets \in Seq(Seq(Byte))
  /\ Units \subseteq [nals : Seq(Seq(Byte)), prefix : {"start", "length"}]

VARIABLES codec,      \* config_.codec
          sequence,   \* media.sequence
          count,      \* access units begun
          nals,       \* nal_units; empty between two calls
          index,      \* nal_index, from 1
          offset,     \* offset in a NAL unit that is sent in fragments, or 0
          unit,       \* history: the NAL units that the client is to get
          packet,     \* history: the last packet
          expected,   \* client: the next sequence number
          part,       \* client: the fragments of a NAL unit so far
          got,        \* client: the NAL units of an access unit so far
          delivered   \* client: the last access unit

client == <<packet, expected, part, got, delivered>>
vars == <<codec, sequence, count, nals, index, offset, unit, client>>

NoPacket == [seq |-> 0, fragment |-> FALSE, header |-> <<>>, first |-> FALSE,
             end |-> FALSE, data |-> <<>>, marker |-> FALSE]

Init ==
  /\ codec \in {"H264", "H265"} /\ sequence \in 0 .. SeqModulus - 1
  /\ count = 0 /\ nals = <<>> /\ index = 1 /\ offset = 0 /\ unit = <<>>
  /\ packet = NoPacket /\ expected = sequence
  /\ part = <<>> /\ got = <<>> /\ delivered = <<>>

-----------------------------------------------------------------------------
(* split_access_unit; positions count from 1.                              *)

At(b, pos, bytes) ==
  pos + Len(bytes) - 1 <= Len(b) /\ SubSeq(b, pos, pos + Len(bytes) - 1) = bytes

StartCodeSize(b, pos) ==
  IF At(b, pos, <<0, 0, 1>>) THEN 3 ELSE IF At(b, pos, <<0, 0, 0, 1>>) THEN 4 ELSE 0

(* The first start code at pos or behind it, or the end.                   *)
NextStart(b, pos) ==
  Min({ i \in pos .. Len(b) : StartCodeSize(b, i) # 0 } \cup {Len(b) + 1})

(* The NAL units between start codes, from the first start code on.        *)
AnnexB(b) ==
  LET from[pos \in 1 .. Len(b) + 1] ==
        IF pos > Len(b) THEN <<>>
        ELSE LET start == pos + StartCodeSize(b, pos)
                 next  == NextStart(b, start)
             IN  (IF next > start THEN <<SubSeq(b, start, next - 1)>> ELSE <<>>) \o from[next]
  IN  from[NextStart(b, 1)]

ReadU32(b, pos) ==
  ((b[pos] * 256 + b[pos + 1]) * 256 + b[pos + 2]) * 256 + b[pos + 3]

(* The NAL units behind length fields and where they end; an impossible    *)
(* length discards all of them (end is 0).                                 *)
LengthPrefixed(b) ==
  LET from[pos \in 1 .. Len(b) + 1] ==
        IF pos + 3 > Len(b) THEN [nals |-> <<>>, end |-> pos]
        ELSE LET length == ReadU32(b, pos)
             IN  IF length = 0 \/ length > Len(b) - pos - 3 THEN [nals |-> <<>>, end |-> 0]
                 ELSE LET rest == from[pos + 4 + length]
                      IN  IF rest.end = 0 THEN rest
                          ELSE [rest EXCEPT !.nals = <<SubSeq(b, pos + 4, pos + 3 + length)>> \o @]
  IN  from[1]

Split(b) ==
  LET found == LengthPrefixed(b)
  IN  IF NextStart(b, 1) <= Len(b) THEN AnnexB(b)
      ELSE IF found.nals # <<>> /\ found.end = Len(b) + 1 THEN found.nals
      ELSE IF b # <<>> THEN Append(found.nals, b) ELSE found.nals

(* The bytes of an access unit, as the parser of the pipeline delivers     *)
(* them.                                                                   *)
U32(n) == <<n \div 2^24, (n \div 2^16) % 256, (n \div 256) % 256, n % 256>>
Bytes(u) ==
  FlattenSeq([i \in DOMAIN u.nals |->
    (IF u.prefix = "start" THEN <<0, 0, 0, 1>> ELSE U32(Len(u.nals[i]))) \o u.nals[i]])

-----------------------------------------------------------------------------
(* The client gets packet p.                                               *)
Receive(p) ==
  LET begun == IF p.first THEN p.header ELSE part
      all   == IF ~p.fragment THEN Append(got, p.data)
               ELSE IF p.end THEN Append(got, begun \o p.data) ELSE got
  IN
  /\ packet' = p
  /\ expected' = (p.seq + 1) % SeqModulus
  /\ part' = IF p.fragment /\ ~p.end THEN begun \o p.data ELSE <<>>
  /\ got' = IF p.marker THEN <<>> ELSE all
  /\ delivered' = IF p.marker THEN all ELSE delivered

-----------------------------------------------------------------------------
(* send_frame: the parameter sets go in front of the first access unit.    *)
SendFrame(u) ==
  LET before == IF count = 0 THEN Sets ELSE <<>>
  IN
  /\ nals = <<>> /\ count < MaxUnits
  /\ count' = count + 1
  /\ nals' = before \o Split(Bytes(u))
  /\ unit' = before \o u.nals
  /\ index' = 1 /\ offset' = 0
  /\ UNCHANGED <<codec, sequence, client>>

(* packetize_access_unit: an iteration of one of its loops.                *)
Nal == nals[index]
Fits == Len(Nal) <= MaxPayload

(* Mutant: the marker ends every NAL unit.                                 *)
LastNalAlways == TRUE

LastNal == index = Len(nals)

HeaderLength == IF codec = "H264" THEN 1 ELSE 2

(* Mutant: the fragment header is taken for one byte.                      *)
ChunkLimitOneHeader == MaxPayload - 1

(* A fragment has one header byte more than a NAL unit.                    *)
ChunkLimit == MaxPayload - (HeaderLength + 1)

Emit(p) ==
  /\ sequence' = (sequence + 1) % SeqModulus
  /\ Receive([p EXCEPT !.seq = sequence])
  /\ UNCHANGED <<codec, count, nals, unit>>

SendNal ==
  /\ index <= Len(nals) /\ Fits
  /\ Emit([NoPacket EXCEPT !.data = Nal, !.marker = LastNal])
  /\ index' = index + 1
  /\ UNCHANGED offset

SendFragment ==
  LET from == IF offset = 0 THEN HeaderLength ELSE offset
      to   == from + Min({ChunkLimit, Len(Nal) - from})
      end  == to = Len(Nal)
  IN
  /\ index <= Len(nals) /\ ~Fits
  /\ Emit([NoPacket EXCEPT !.fragment = TRUE, !.header = SubSeq(Nal, 1, HeaderLength),
                           !.first = (offset = 0), !.end = end,
                           !.data = SubSeq(Nal, from + 1, to),
                           !.marker = end /\ LastNal])
  /\ offset' = IF end THEN 0 ELSE to
  /\ index' = IF end THEN index + 1 ELSE index

Return ==
  /\ nals # <<>> /\ index > Len(nals)
  /\ nals' = <<>> /\ index' = 1
  /\ UNCHANGED <<codec, sequence, count, offset, unit, client>>

Idle == nals = <<>> /\ count = MaxUnits /\ UNCHANGED vars

Next == (\E u \in Units : SendFrame(u)) \/ SendNal \/ SendFragment \/ Return \/ Idle

Spec == Init /\ [][Next]_vars

-----------------------------------------------------------------------------
(* A client that follows the RFCs has, after every packet, exactly the NAL *)
(* units and the piece of a NAL unit that were sent, sees no gap in the    *)
(* sequence numbers, and gets an access unit with its last packet, not     *)
(* before and not together with a part of the next one.                    *)
Reassembled ==
  /\ expected = sequence
  /\ nals # <<>> =>
       IF index <= Len(nals)
       THEN got = SubSeq(unit, 1, index - 1) /\ part = SubSeq(unit[index], 1, offset)
       ELSE got = <<>> /\ part = <<>> /\ delivered = unit

(* A packet is within the MTU, has data, and is not the first and the last *)
(* fragment of a NAL unit at the same time.                                *)
FragmentsLegal ==
  packet # NoPacket =>
    /\ Len(packet.data) > 0
    /\ (IF packet.fragment THEN Len(packet.header) + 1 ELSE 0) + Len(packet.data) <= MaxPayload
    /\ ~(packet.first /\ packet.end)

(* tests/live_rtsp_server_test.cpp:126-127: split_access_unit finds as     *)
(* many NAL units as there are length fields.                              *)
LengthPrefixedSplits == Len(nals) > 0 => Len(nals) = Len(unit)

=============================================================================
