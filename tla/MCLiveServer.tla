---------------------------- MODULE MCLiveServer ----------------------------
(***************************************************************************)
(* Instances of LiveServer for TLC.                                        *)
(***************************************************************************)
EXTENDS LiveServer, TLC

Tcp == [tcp |-> TRUE, ids |-> <<>>]
Udp == [tcp |-> FALSE, ids |-> <<>>]

Request(method, channel, transport, id) ==
  [method |-> method, cseq |-> TRUE, channel |-> channel,
   transport |-> transport, session |-> id]

(* What a player sends to watch a channel, and to stop.                    *)
Viewer ==
  { Request("SETUP", ch, Tcp, NoSession) : ch \in Channels } \cup
  { Request("PLAY", ch, Udp, id) : ch \in Channels, id \in SessionIds }

Player ==
  Viewer \cup { Request("TEARDOWN", ch, Udp, id) : ch \in Channels, id \in SessionIds }

(* And what it should not send, or what changes nothing.                   *)
Others ==
  { [Request("OPTIONS", NoChannel, Udp, NoSession) EXCEPT !.cseq = FALSE],
    Request("SETUP", NoChannel, Tcp, NoSession) } \cup
  UNION { { Request("SETUP", ch, Udp, NoSession), Request("PLAY", ch, Udp, NoSession),
            Request("GET_PARAMETER", ch, Udp, NoSession) } : ch \in Channels }

AllRequests == Player \cup Others

Key == [key |-> TRUE, size |-> 2]
Delta == [key |-> FALSE, size |-> 1]
Huge == [key |-> TRUE, size |-> 4]

KeyAndDelta == {Key, Delta}
AllKinds == {Key, Delta, Huge}
JustKeys == {Key}

ClientSymmetry == Permutations(Clients)

=============================================================================
