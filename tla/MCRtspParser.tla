---------------------------- MODULE MCRtspParser ----------------------------
(***************************************************************************)
(* Instances of RtspParser for TLC.                                        *)
(***************************************************************************)
EXTENDS RtspParser

T(kind) == [t |-> kind, n |-> 0]
N(number) == [t |-> "n", n |-> number]

Line(method) == <<T(method), T("/"), T("version"), T("/")>>
End == <<T("e")>>
Fill(n) == [i \in 1 .. n |-> T("x")]

(* Requests, with bodies that look like starts of messages, one that only  *)
(* the parser knows and one that it does not know.                         *)
Plain == Line("method") \o End
WithBody == Line("method") \o <<N(2)>> \o End \o <<T("method"), T("/")>>
Other == Line("other") \o <<N(1)>> \o End \o Fill(1)
Lower == Line("lower") \o End

(* A frame whose payload has a start and a blank line; words without any.  *)
Frame == <<T("$"), N(3), T("$"), T("e"), T("method")>>
Junk == Fill(1)
LowerLine == <<T("lower"), T("/"), T("e")>>

(* Requests beyond the limits: what follows "RTSP/" in the first is within *)
(* the limit for headers.                                                  *)
LongHeader == Line("method") \o Fill(5) \o End
LongerHeader == Line("method") \o Fill(7) \o End
LongBody == Line("method") \o <<N(3)>> \o End
NoLength == Line("method") \o <<N(-1)>> \o End

GoodLengths == {0, 1, 2, 3}
GoodInputs ==
  { good \o bad : good \in [1 .. 3 -> {Plain, WithBody, Other, Lower, Frame, Junk, LowerLine}],
                 bad \in {<<>>, <<LongHeader>>, <<LongerHeader>>} }

AnyLengths == {-1, 0, 2, 3}
AnyInputs == [1 .. 2 -> {Plain, LongHeader, LongBody, NoLength}]

=============================================================================
