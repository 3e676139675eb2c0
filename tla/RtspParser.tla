----------------------------- MODULE RtspParser -----------------------------
(***************************************************************************)
(* The input of a live session: the bytes that run_session reads, appends  *)
(* to input and takes apart with extract_one_rtsp_message, whatever pieces *)
(* the peer's messages arrive in.                                          *)
(*                                                                         *)
(* The input is a sequence of tokens, records with a kind t and a number n:*)
(*   "method"   the first half of a method that the session handles, such  *)
(*              as "OPTIONS "                                              *)
(*   "other"    that of a method only the parser knows, such as "PAUSE "   *)
(*   "lower"    that of a method of the session, not in capitals           *)
(*   "version"  that of "RTSP/"                                            *)
(*   "/"        the second half of any of these                            *)
(*   "e"        the blank line that ends a header                          *)
(*   "$"        the first byte of an interleaved frame                     *)
(*   "n"        n is a Content-Length (-1: not a number) in a header, or   *)
(*              the length of an interleaved frame behind "$"              *)
(*   "x"        anything else                                              *)
(***************************************************************************)
EXTENDS Integers, Sequences, SequencesExt, FiniteSetsExt

CONSTANTS Lengths,     \* the numbers that may occur
          Inputs,      \* what peers send: sequences of messages
          MaxHeader,   \* max_header_bytes
          MaxBody      \* max_body_bytes

Tokens ==
  [t : {"method", "other", "lower", "version", "/", "e", "$", "n", "x"}, n : Lengths]

ASSUME ParserAssumption ==
  /\ Lengths \subseteq Int /\ 0 \in Lengths /\ Inputs \subseteq Seq(Seq(Tokens))
  /\ MaxHeader \in Nat /\ MaxBody \in Nat

VARIABLES messages,   \* what the peer sends
          received,   \* how many of its tokens have been read
          input,      \* input of run_session
          extracted,  \* history: the messages taken from it
          pc          \* "idle", "extract", "rest", "closed"

vars == <<messages, received, input, extracted, pc>>

Wire == FlattenSeq(messages)

Init ==
  /\ messages \in Inputs
  /\ received = 0 /\ input = <<>> /\ extracted = <<>> /\ pc = "idle"

-----------------------------------------------------------------------------
(* The helpers of the parser; positions count from 1 and 0 is npos.        *)
PrefixAt(b, i, kinds) == i < Len(b) /\ b[i].t \in kinds /\ b[i + 1].t = "/"

(* is_rtsp_message_start_at: in capitals, "RTSP/" included.                *)
IsMessageStartAt(b, i) == PrefixAt(b, i, {"method", "other", "version"})

(* The six methods that run_session looks for, in capitals or not.         *)
BeginsWithMethod(b) == PrefixAt(b, 1, {"method", "lower"})

(* Mutant: the search begins one position late.                            *)
FindNextMessageStartLate(b) ==
  LET starts == { i \in 3 .. Len(b) : b[i].t = "$" \/ IsMessageStartAt(b, i) }
  IN  IF starts = {} THEN 0 ELSE Min(starts)

(* find_next_message_start(buffer, 1): behind the first byte.              *)
FindNextMessageStart(b) ==
  LET starts == { i \in 2 .. Len(b) : b[i].t = "$" \/ IsMessageStartAt(b, i) }
  IN  IF starts = {} THEN 0 ELSE Min(starts)

(* resync_message_buffer: the buffer after it.                             *)
Resync(b) ==
  LET next == FindNextMessageStart(b)
  IN  IF next # 0 THEN SubSeq(b, next, Len(b))
      ELSE IF Len(b) > MaxHeader THEN <<>> ELSE b

HeaderBytes(b) ==
  LET ends == { i \in 1 .. Len(b) : b[i].t = "e" }
  IN  IF ends = {} THEN 0 ELSE Min(ends)

(* Mutant: bodies are ignored.                                             *)
ContentLengthIgnored(header) == 0

(* content_length_from_header: the first Content-Length, 0 without one.    *)
ContentLength(header) ==
  LET lengths == SelectSeq(header, LAMBDA token : token.t = "n")
  IN  IF lengths = <<>> THEN 0 ELSE Head(lengths).n

BodyLength(b) == ContentLength(SubSeq(b, 1, HeaderBytes(b)))

FrameLength(b) == b[2].n

-----------------------------------------------------------------------------
(* run_session.                                                            *)

(* Mutant: the size of the input is not looked at.                         *)
TooMuchNever(b) == FALSE

TooMuch(b) == Len(b) > MaxHeader + MaxBody

(* A read returns the next n tokens; too much input ends the session.      *)
Read(n) ==
  /\ pc = "idle" /\ received + n <= Len(Wire)
  /\ received' = received + n
  /\ input' = input \o SubSeq(Wire, received + 1, received + n)
  /\ pc' = IF TooMuch(input') THEN "closed" ELSE "extract"
  /\ UNCHANGED <<messages, extracted>>

(* Mutant: whatever is left with a blank line in it is given up.           *)
RestWithBlankLine ==
  /\ pc = "rest"
  /\ pc' = IF HeaderBytes(input) # 0 THEN "closed" ELSE "idle"
  /\ UNCHANGED <<messages, received, input, extracted>>

(* What is left is given up if it holds a blank line and does not begin    *)
(* with a method of the session.                                           *)
Rest ==
  /\ pc = "rest"
  /\ pc' = IF HeaderBytes(input) # 0 /\ ~BeginsWithMethod(input) THEN "closed" ELSE "idle"
  /\ UNCHANGED <<messages, received, input, extracted>>

-----------------------------------------------------------------------------
(* extract_one_rtsp_message: an iteration of its loop.                     *)

(* It returns false: b stays for the next read.                            *)
ReturnFalse(b) ==
  /\ input' = b /\ pc' = "rest"
  /\ UNCHANGED <<messages, received, extracted>>

(* It goes on with b.                                                      *)
Continue(b) ==
  /\ input' = b
  /\ UNCHANGED <<messages, received, extracted, pc>>

(* It returns the first total tokens, if all of them are there; then       *)
(* run_session calls it again.                                             *)
TakeMessage(total) ==
  IF Len(input) < total THEN ReturnFalse(input)
  ELSE /\ extracted' = Append(extracted, SubSeq(input, 1, total))
       /\ input' = SubSeq(input, total + 1, Len(input))
       /\ UNCHANGED <<messages, received, pc>>

NoInput == pc = "extract" /\ input = <<>> /\ ReturnFalse(input)

Interleaved ==
  /\ pc = "extract" /\ input # <<>> /\ input[1].t = "$"
  /\ IF Len(input) < 2 THEN ReturnFalse(input) ELSE TakeMessage(2 + FrameLength(input))

(* Mutant: the loop goes on although nothing was found.                    *)
SkipToStartAlways ==
  /\ pc = "extract" /\ input # <<>> /\ input[1].t # "$" /\ ~IsMessageStartAt(input, 1)
  /\ Continue(Resync(input))

SkipToStart ==
  /\ pc = "extract" /\ input # <<>> /\ input[1].t # "$" /\ ~IsMessageStartAt(input, 1)
  /\ IF FindNextMessageStart(input) # 0 THEN Continue(Resync(input))
     ELSE ReturnFalse(Resync(input))

HeaderIncomplete ==
  /\ pc = "extract" /\ IsMessageStartAt(input, 1) /\ HeaderBytes(input) = 0
  /\ ReturnFalse(IF Len(input) > MaxHeader THEN Resync(input) ELSE input)

WithinLimits(b) == HeaderBytes(b) <= MaxHeader /\ BodyLength(b) \in 0 .. MaxBody

(* The result of resync_message_buffer is not looked at.                   *)
BeyondLimits ==
  /\ pc = "extract" /\ IsMessageStartAt(input, 1) /\ HeaderBytes(input) # 0
  /\ ~WithinLimits(input)
  /\ Continue(Resync(input))

HeaderComplete ==
  /\ pc = "extract" /\ IsMessageStartAt(input, 1) /\ HeaderBytes(input) # 0
  /\ WithinLimits(input)
  /\ TakeMessage(HeaderBytes(input) + BodyLength(input))

SessionStep ==
  \/ Rest \/ NoInput \/ Interleaved \/ SkipToStart
  \/ HeaderIncomplete \/ BeyondLimits \/ HeaderComplete

-----------------------------------------------------------------------------
Ended == (pc = "closed" \/ (pc = "idle" /\ received = Len(Wire))) /\ UNCHANGED vars

Next == SessionStep \/ Ended \/ \E n \in 1 .. Len(Wire) : Read(n)

(* The thread runs; the peer need not send.                                *)
Spec == Init /\ [][Next]_vars /\ WF_vars(SessionStep)

-----------------------------------------------------------------------------
(* What the session holds never exceeds the limits it was given.           *)
TypeOK ==
  /\ messages \in Inputs /\ received \in 0 .. Len(Wire)
  /\ input \in Seq(Tokens) /\ extracted \in Seq(Seq(Tokens))
  /\ pc \in {"idle", "extract", "rest", "closed"}
  /\ pc # "closed" => Len(input) <= MaxHeader + MaxBody

(* What is to be found in m by itself: m, without what stands before the   *)
(* first start in it.                                                      *)
Found(m) ==
  LET starts == { i \in 1 .. Len(m) : m[i].t = "$" \/ IsMessageStartAt(m, i) }
  IN  IF starts = {} THEN <<>> ELSE SubSeq(m, Min(starts), Len(m))

Proper(m) == m # <<>> /\ (m[1].t = "$" \/ WithinLimits(m))

(* The messages of the peer that the parser is to find.                    *)
Expected == SelectSeq([i \in DOMAIN messages |-> Found(messages[i])], Proper)

(* Messages come out whole and in the order they were sent, each at most   *)
(* once, however the bytes were split into reads, and nothing else does,   *)
(* but that of a last message beyond the limits the parser may take the    *)
(* part from its "RTSP/" on for another one.                               *)
MessagesInOrder ==
  \/ IsPrefix(extracted, Expected)
  \/ ~Proper(Last(messages)) /\ extracted = Append(Expected, Found(Tail(Last(messages))))

(* When everything sent has been read and looked at, and the session goes  *)
(* on, no message is left behind in the input: none waits for a later read.*)
NothingLeftBehind ==
  pc = "idle" /\ received = Len(Wire) => IsPrefix(Expected, extracted)

(* A peer that sends nothing but requests that the session handles, within *)
(* the limits, is never answered with 400 and closed because of the pieces *)
(* they come in, unless a read brings more than the session holds.         *)
RequestsNotRefused ==
  (\A i \in DOMAIN messages : PrefixAt(messages[i], 1, {"method"}) /\ WithinLimits(messages[i]))
    => pc # "closed" \/ TooMuch(input)

(* extract_one_rtsp_message returns: the session gets back to its loop.    *)
ExtractReturns == pc = "extract" ~> pc # "extract"

(* tests/live_rtsp_server_test.cpp:148: for a message beyond the limits,   *)
(* extract_one_rtsp_message returns false.                                 *)
BeyondLimitsReturns == (pc = "extract" /\ ~WithinLimits(input)) ~> pc # "extract"

=============================================================================
