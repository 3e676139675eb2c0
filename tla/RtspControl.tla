---------------------------- MODULE RtspControl ----------------------------
(***************************************************************************)
(* The RTSP control state of one live client connection and                *)
(* process_rtsp_request, the handler of its requests.                      *)
(*                                                                         *)
(* A request is a record                                                   *)
(*   method     the method name                                            *)
(*   cseq       whether it has a CSeq header                               *)
(*   channel    what parse_public_channel_id makes of its target           *)
(*   transport  its Transport header: is it RTP over TCP, and the pair of  *)
(*              interleaved= (<<>> if there is none)                       *)
(*   session    its Session header without parameters (NoSession if none)  *)
(***************************************************************************)
EXTENDS Integers, Sequences

CONSTANTS Channels,    \* the registered channels
          SessionIds,  \* what random_session_id may return
          NoSession,   \* the empty session id
          NoChannel    \* -1

ASSUME ControlAssumption == NoSession \notin SessionIds /\ NoChannel \notin Channels

Phases == {"Initial", "Ready", "Playing", "Closed"}

NewControl ==
  [phase |-> "Initial", session |-> NoSession, channel |-> NoChannel, ids |-> <<0, 1>>]

(* parse_interleaved_channels: the accepted pairs, none when it fails.     *)
InterleavedChannels(transport) ==
  IF ~transport.tcp THEN {}
  ELSE IF transport.ids = <<>> THEN {<<0, 1>>}
  ELSE { p \in {transport.ids} : p[1] \in 0 .. 255 /\ p[2] \in 0 .. 255 /\ p[1] # p[2] }

ValidSessionHeader(request, control) ==
  control.session # NoSession /\ request.session = control.session

Reply(status, control) ==
  [status |-> status, control |-> control, startPlay |-> FALSE, closeSession |-> FALSE]

Setup(request, control) ==
  LET pairs == InterleavedChannels(request.transport)
  IN  IF control.phase # "Initial" THEN {Reply(455, control)}
      ELSE IF pairs = {} THEN {Reply(461, control)}
      ELSE { Reply(200, [phase |-> "Ready", session |-> id,
                         channel |-> request.channel, ids |-> pair])
               : id \in SessionIds, pair \in pairs }

Play(request, control) ==
  IF control.phase # "Ready" \/ control.channel # request.channel
  THEN Reply(455, control)
  ELSE IF ~ValidSessionHeader(request, control) THEN Reply(454, control)
  ELSE [Reply(200, [control EXCEPT !.phase = "Playing"]) EXCEPT !.startPlay = TRUE]

Teardown(request, control) ==
  IF ~ValidSessionHeader(request, control) THEN Reply(454, control)
  ELSE [Reply(200, [control EXCEPT !.phase = "Closed"]) EXCEPT !.closeSession = TRUE]

GetParameter(request, control) ==
  Reply(IF ValidSessionHeader(request, control) THEN 200 ELSE 454, control)

(* process_rtsp_request: the possible replies (the session id that SETUP   *)
(* hands out is random), each with the control state after the request.    *)
ProcessRequest(request, control) ==
  IF ~request.cseq THEN {[Reply(400, control) EXCEPT !.closeSession = TRUE]}
  ELSE IF request.method = "OPTIONS" THEN {Reply(200, control)}
  ELSE IF request.channel \notin Channels THEN {Reply(404, control)}
  ELSE CASE request.method = "DESCRIBE"      -> {Reply(200, control)}
         [] request.method = "SETUP"         -> Setup(request, control)
         [] request.method = "PLAY"          -> {Play(request, control)}
         [] request.method = "GET_PARAMETER" -> {GetParameter(request, control)}
         [] request.method = "TEARDOWN"      -> {Teardown(request, control)}
         [] OTHER                            -> {Reply(405, control)}

=============================================================================
