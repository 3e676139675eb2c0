----------------------------- MODULE LiveServer -----------------------------
(***************************************************************************)
(* LiveRtspServer: the listener threads, one session thread per accepted   *)
(* connection, the ingest threads of the channels that call on_frame, and  *)
(* the main thread that starts and stops the server.                       *)
(*                                                                         *)
(* A step of a thread is what it does between two accesses to state that   *)
(* other threads see: atomics, data under a mutex, sockets, joins.  The    *)
(* counters of the statistics, which nobody reads while threads run, are   *)
(* counted with the step they belong to.                                   *)
(***************************************************************************)
EXTENDS FrameQueue, RtspControl, FiniteSets, FiniteSetsExt, Functions

CONSTANTS Listeners,     \* subset of {"rtsp", "rtsps"}: the enabled ports
          Clients,       \* the connections that clients may open
          NoClient,
          Requests,      \* the requests that clients may send
          FrameKinds,    \* records [key, size] of the frames that may arrive
          NoFrame,
          MaxProduced    \* bound: frames that a channel delivers over the run

ASSUME ListenersAssumption == Listeners \in SUBSET {"rtsp", "rtsps"}
ASSUME ClientsAssumption == IsFiniteSet(Clients) /\ NoClient \notin Clients
ASSUME FrameKindsAssumption == FrameKinds \subseteq [key : BOOLEAN, size : Nat \ {0}]
ASSUME ProducedAssumption == MaxProduced \in Nat

VARIABLES
  running,    \* g_running, cleared by the signal handler
  started,    \* started_
  main,       \* where the main thread is
  tls,        \* tls_context_: "none", "live" or "freed"
  listening,  \* the listener sockets that are open
  lpc,        \* where each listener thread is
  threads,    \* session_threads_
  joining,    \* stop's local vector of the session threads
  registry,   \* clients_
  session,    \* the session threads: pc and the locals of run_session
  media,      \* the ClientMediaState of each session
  fan,        \* the ingest threads: pc, the locals of on_frame, and the
              \* frame that the channel's parameter sets come from
  stats,      \* LiveRtspServerStats
  sent        \* history: what each client got, how often its socket closed

serverVars == <<running, started, main, tls, listening, lpc, threads, joining>>
vars == <<serverVars, registry, session, media, fan, stats, sent>>

Frame == [ch : Channels, seq : 1 .. MaxProduced, key : BOOLEAN, size : Nat \ {0}]

Init ==
  /\ running = TRUE /\ started = FALSE /\ main = "init" /\ tls = "none"
  /\ listening = {} /\ lpc = [l \in Listeners |-> "off"]
  /\ threads = {} /\ joining = {} /\ registry = {}
  /\ session = [c \in Clients |->
       [pc |-> "new", via |-> "none", alive |-> TRUE, counted |-> FALSE,
        control |-> NewControl, inHand |-> NoFrame]]
  /\ media = [c \in Clients |->
       [connected |-> TRUE, playing |-> FALSE, channel |-> NoChannel,
        queue |-> NewQueue, waiting |-> TRUE]]
  /\ fan = [ch \in Channels |->
       [pc |-> "off", produced |-> 0, frame |-> NoFrame, targets |-> {},
        current |-> NoClient, before |-> 0, params |-> 0]]
  /\ stats = [active |-> 0, created |-> 0, ended |-> 0,
              drops |-> 0, firstRtp |-> 0, writeFailures |-> 0]
  /\ sent = [c \in Clients |->
       [first |-> NoFrame, params |-> 0, last |-> 0, afterTeardown |-> 0, closes |-> 0]]

-----------------------------------------------------------------------------
(* The main thread: start, the wait for the signal, ChannelManager::stop,  *)
(* then stop.                                                              *)
TlsIfEnabled == IF "rtsps" \in Listeners THEN "live" ELSE "none"

(* start opens the sockets and creates the listener threads.               *)
Start ==
  /\ main = "init"
  /\ main' = "serve"
  /\ started' = TRUE
  /\ tls' = TlsIfEnabled
  /\ listening' = Listeners
  /\ lpc' = [l \in Listeners |-> "check"]
  /\ UNCHANGED <<running, threads, joining, registry, session, media, fan, stats, sent>>

(* initialize_tls throws: started_ stays set, and the exception unwinds    *)
(* main, whose destructors call stop.                                      *)
StartTlsFails ==
  /\ main = "init" /\ "rtsps" \in Listeners
  /\ main' = "stop"
  /\ started' = TRUE
  /\ UNCHANGED <<running, tls, listening, lpc, threads, joining,
                 registry, session, media, fan, stats, sent>>

(* open_listener throws: the sockets opened before it are closed again.    *)
StartListenFails ==
  /\ main = "init"
  /\ main' = "stop"
  /\ tls' = TlsIfEnabled
  /\ UNCHANGED <<running, started, listening, lpc, threads, joining,
                 registry, session, media, fan, stats, sent>>

Signal ==
  /\ running
  /\ running' = FALSE
  /\ UNCHANGED <<started, main, tls, listening, lpc, threads, joining,
                 registry, session, media, fan, stats, sent>>

(* A step of main that changes at most the locals of stop.                 *)
MainGoes(from, to) ==
  /\ main = from
  /\ main' = to
  /\ UNCHANGED <<running, lpc, registry, session, media, fan, stats, sent>>

(* main leaves its loop and joins the ingest workers, whose pipelines are  *)
(* then gone: on_frame is not called any more.                             *)
JoinWorkers ==
  /\ ~running
  /\ \A ch \in Channels : fan[ch].pc = "off"
  /\ MainGoes("serve", "stop")
  /\ UNCHANGED <<started, tls, listening, threads, joining>>

(* stop: started_.exchange(false), then close_listeners.                   *)
StopBegin ==
  /\ MainGoes("stop", IF started THEN "joinListeners" ELSE "stopped")
  /\ started' = FALSE
  /\ listening' = {}
  /\ UNCHANGED <<tls, threads, joining>>

(* Mutant: stop does not wait for the listener threads.                    *)
ListenersDetached == TRUE

ListenersJoined == \A l \in Listeners : lpc[l] \in {"off", "done"}

StopJoinListeners ==
  /\ ListenersJoined
  /\ MainGoes("joinListeners", "swap")
  /\ UNCHANGED <<started, tls, listening, threads, joining>>

StopSwap ==
  /\ MainGoes("swap", "joinSessions")
  /\ joining' = threads
  /\ threads' = {}
  /\ UNCHANGED <<started, tls, listening>>

(* Mutant: stop does not wait for the session threads.                     *)
SessionsDetached == TRUE

SessionsJoined == \A c \in joining : session[c].pc = "done"

(* The last join returns and the TLS context is freed.                     *)
StopFinish ==
  /\ SessionsJoined
  /\ MainGoes("joinSessions", "stopped")
  /\ joining' = {}
  /\ tls' = IF tls = "live" THEN "freed" ELSE tls
  /\ UNCHANGED <<started, listening, threads>>

MainStep ==
  \/ Start \/ StartTlsFails \/ StartListenFails
  \/ JoinWorkers \/ StopBegin \/ StopJoinListeners \/ StopSwap \/ StopFinish

-----------------------------------------------------------------------------
(* A listener thread: accept_loop.                                         *)
ListenerCheck(l) ==
  /\ lpc[l] = "check"
  /\ lpc' = [lpc EXCEPT ![l] = IF running /\ started THEN "select" ELSE "done"]
  /\ UNCHANGED <<running, started, main, tls, listening, threads, joining,
                 registry, session, media, fan, stats, sent>>

(* select times out, or fails because stop has closed the socket.          *)
ListenerIdle(l) ==
  /\ lpc[l] = "select"
  /\ lpc' = [lpc EXCEPT ![l] = "check"]
  /\ UNCHANGED <<running, started, main, tls, listening, threads, joining,
                 registry, session, media, fan, stats, sent>>

(* accept returns a connection; stop may come before its thread exists.    *)
Accept(l, c) ==
  /\ lpc[l] = "select" /\ l \in listening
  /\ session[c].pc = "new"
  /\ lpc' = [lpc EXCEPT ![l] = "spawn"]
  /\ session' = [session EXCEPT ![c].pc = "accepted", ![c].via = l]
  /\ UNCHANGED <<running, started, main, tls, listening, threads, joining,
                 registry, media, fan, stats, sent>>

SpawnSession(l, c) ==
  /\ lpc[l] = "spawn"
  /\ session[c].pc = "accepted" /\ session[c].via = l
  /\ lpc' = [lpc EXCEPT ![l] = "check"]
  /\ session' = [session EXCEPT ![c].pc = "connect"]
  /\ threads' = threads \cup {c}
  /\ UNCHANGED <<running, started, main, tls, listening, joining,
                 registry, media, fan, stats, sent>>

ListenerStep(l) ==
  \/ ListenerCheck(l) \/ ListenerIdle(l)
  \/ \E c \in Clients : Accept(l, c) \/ SpawnSession(l, c)

-----------------------------------------------------------------------------
(* A session thread: run_session.                                          *)

(* A step that only moves the session to another place of its code.        *)
Jump(c, from, to) ==
  /\ session[c].pc = from
  /\ session' = [session EXCEPT ![c].pc = to]
  /\ UNCHANGED <<serverVars, registry, media, fan, stats, sent>>

(* ClientConnection, with the TLS handshake on rtsps.                      *)
Connect(c) == Jump(c, "connect", "register")

(* Mutant: nobody closes the socket of a failed handshake.                 *)
HandshakeFailsLeaks(c) == session[c].via = "rtsps" /\ Jump(c, "connect", "disconnect")

(* The constructor throws; the handler closes the socket itself because    *)
(* no ClientConnection owns it.                                            *)
HandshakeFails(c) ==
  /\ session[c].pc = "connect" /\ session[c].via = "rtsps"
  /\ session' = [session EXCEPT ![c].pc = "disconnect"]
  /\ sent' = [sent EXCEPT ![c].closes = @ + 1]
  /\ UNCHANGED <<serverVars, registry, media, fan, stats>>

Register(c) ==
  /\ session[c].pc = "register"
  /\ session' = [session EXCEPT ![c].pc = "count"]
  /\ registry' = registry \cup {c}
  /\ UNCHANGED <<serverVars, media, fan, stats, sent>>

CountSession(c) ==
  /\ session[c].pc = "count"
  /\ session' = [session EXCEPT ![c].pc = "loop", ![c].counted = TRUE]
  /\ stats' = [stats EXCEPT !.active = @ + 1, !.created = @ + 1]
  /\ UNCHANGED <<serverVars, registry, media, fan, sent>>

(* Mutant: the session only ends when its client leaves.                   *)
KeepsServingClient(c) == session[c].alive

KeepsServing(c) == session[c].alive /\ running /\ started

LoopCheck(c) == Jump(c, "loop", IF KeepsServing(c) THEN "poll" ELSE "unwind")

(* select reports nothing to read within its 10 ms.                        *)
NothingToRead(c) == Jump(c, "poll", "media")

(* The peer closed or timed out, or sent more than the limits allow and    *)
(* gets a 400.                                                             *)
ReadEnds(c) == Jump(c, "poll", "unwind")

BytesRead(c) == Jump(c, "poll", "requests")

(* Mutant: close_session only leaves the loop over the requests.           *)
ConnectedAfterClose(reply, written) == written

ConnectedAfter(reply, written) == written /\ ~reply.closeSession

(* A complete request: the handler and the write of its reply.  A write    *)
(* that fails ends the session after the control state has changed.        *)
HandleRequest(c, request) ==
  /\ session[c].pc = "requests"
  /\ \E reply \in ProcessRequest(request, session[c].control), written \in BOOLEAN :
       session' = [session EXCEPT
         ![c].control = reply.control,
         ![c].alive = ConnectedAfter(reply, written),
         ![c].pc = IF ~written \/ reply.closeSession THEN "rest"
                   ELSE IF reply.startPlay THEN "storeChannel"
                   ELSE "requests"]
  /\ UNCHANGED <<serverVars, registry, media, fan, stats, sent>>

StoreChannel(c) ==
  /\ session[c].pc = "storeChannel"
  /\ session' = [session EXCEPT ![c].pc = "storePlaying"]
  /\ media' = [media EXCEPT ![c].channel = session[c].control.channel]
  /\ UNCHANGED <<serverVars, registry, fan, stats, sent>>

StorePlaying(c) ==
  /\ session[c].pc = "storePlaying"
  /\ session' = [session EXCEPT ![c].pc = "requests"]
  /\ media' = [media EXCEPT ![c].playing = TRUE]
  /\ UNCHANGED <<serverVars, registry, fan, stats, sent>>

(* The bytes read so far hold no (further) complete request.               *)
NoMoreRequests(c) == Jump(c, "requests", "rest")

(* What is left of the input is not the start of a request: 400 and out.   *)
RejectInput(c) == Jump(c, "rest", "unwind")

(* Mutant: an iteration that read something sends nothing.                 *)
KeepInputContinues(c) == Jump(c, "rest", "loop")

(* The iteration goes on to the media, also when alive is FALSE by now.    *)
KeepInput(c) == Jump(c, "rest", "media")

NoFrameToSend(c) ==
  /\ ~media[c].playing \/ media[c].queue.frames = <<>>
  /\ Jump(c, "media", "loop")

PopFrame(c) ==
  /\ session[c].pc = "media"
  /\ media[c].playing /\ media[c].queue.frames # <<>>
  /\ session' = [session EXCEPT ![c].pc = "send",
                                ![c].inHand = Head(media[c].queue.frames)]
  /\ media' = [media EXCEPT ![c].queue = TryPop(@)]
  /\ UNCHANGED <<serverVars, registry, fan, stats, sent>>

(* Mutant: a client starts with whatever frame comes first.                *)
SkipsNothing(c) == FALSE

(* send_frame skips the frames before the first key frame.                 *)
Skips(c) == media[c].waiting /\ ~session[c].inHand.key

SkipFrame(c) ==
  /\ session[c].pc = "send" /\ Skips(c)
  /\ session' = [session EXCEPT ![c].pc = "loop", ![c].inHand = NoFrame]
  /\ UNCHANGED <<serverVars, registry, media, fan, stats, sent>>

(* What the client has after frame f, which goes out behind the parameter  *)
(* sets that its channel has now if it is the first one.                   *)
AfterSending(c, f) ==
  LET first == sent[c].first = NoFrame
  IN  [sent[c] EXCEPT !.first = IF first THEN f ELSE @,
                      !.params = IF first THEN fan[f.ch].params ELSE @,
                      !.last = f.seq,
                      !.afterTeardown = IF session[c].control.phase = "Closed"
                                        THEN @ + 1 ELSE @]

(* send_frame: the frame, and maybe a sender report.  A write may fail, in *)
(* the frame ("none" is complete) or in the report ("frame" is); this ends *)
(* the session.                                                            *)
SendFrame(c) ==
  /\ session[c].pc = "send" /\ ~Skips(c)
  /\ \E written \in {"none", "frame", "all"} :
       /\ session' = [session EXCEPT
            ![c].pc = IF written = "all" THEN "loop" ELSE "unwind",
            ![c].inHand = NoFrame]
       /\ stats' = [stats EXCEPT
            !.writeFailures = IF written = "all" THEN @ ELSE @ + 1,
            !.firstRtp = IF written # "none" /\ sent[c].first = NoFrame THEN @ + 1 ELSE @]
       /\ sent' = IF written = "none" THEN sent
                  ELSE [sent EXCEPT ![c] = AfterSending(c, session[c].inHand)]
  /\ media' = [media EXCEPT ![c].waiting = FALSE]
  /\ UNCHANGED <<serverVars, registry, fan>>

(* The loop is left: ClientConnection's destructor closes the socket.      *)
Unwind(c) ==
  /\ session[c].pc = "unwind"
  /\ session' = [session EXCEPT ![c].pc = "disconnect"]
  /\ sent' = [sent EXCEPT ![c].closes = @ + 1]
  /\ UNCHANGED <<serverVars, registry, media, fan, stats>>

Disconnect(c) ==
  /\ session[c].pc = "disconnect"
  /\ session' = [session EXCEPT ![c].pc = "closeQueue"]
  /\ media' = [media EXCEPT ![c].connected = FALSE, ![c].playing = FALSE]
  /\ UNCHANGED <<serverVars, registry, fan, stats, sent>>

CloseQueue(c) ==
  /\ session[c].pc = "closeQueue"
  /\ session' = [session EXCEPT ![c].pc = "uncount"]
  /\ media' = [media EXCEPT ![c].queue = Close(@)]
  /\ UNCHANGED <<serverVars, registry, fan, stats, sent>>

(* Mutants: a failed handshake is uncounted too; a session that ends       *)
(* because of the signal is not.                                           *)
CountedAlways(c) == TRUE
CountedIfRunning(c) == session[c].counted /\ running

Counted(c) == session[c].counted

Uncount(c) ==
  /\ session[c].pc = "uncount"
  /\ session' = [session EXCEPT ![c].pc = "done"]
  /\ stats' = IF Counted(c)
              THEN [stats EXCEPT !.active = @ - 1, !.ended = @ + 1] ELSE stats
  /\ UNCHANGED <<serverVars, registry, media, fan, sent>>

SessionStep(c) ==
  \/ Connect(c) \/ HandshakeFails(c) \/ Register(c) \/ CountSession(c)
  \/ LoopCheck(c) \/ NothingToRead(c) \/ ReadEnds(c) \/ BytesRead(c)
  \/ \E request \in Requests : HandleRequest(c, request)
  \/ StoreChannel(c) \/ StorePlaying(c) \/ NoMoreRequests(c)
  \/ RejectInput(c) \/ KeepInput(c)
  \/ NoFrameToSend(c) \/ PopFrame(c) \/ SkipFrame(c) \/ SendFrame(c)
  \/ Unwind(c) \/ Disconnect(c) \/ CloseQueue(c) \/ Uncount(c)

-----------------------------------------------------------------------------
(* The ingest thread of a channel: its pipeline comes up and goes down     *)
(* with the connection to the camera and calls on_frame in between.        *)

(* The worker finds g_running set and makes its next attempt.              *)
PipelineUp(ch) ==
  /\ fan[ch].pc = "off" /\ main = "serve" /\ running
  /\ fan' = [fan EXCEPT ![ch].pc = "idle"]
  /\ UNCHANGED <<serverVars, registry, session, media, stats, sent>>

(* Setting the pipeline to NULL waits for a call of on_frame to return.    *)
PipelineDown(ch) ==
  /\ fan[ch].pc = "idle"
  /\ fan' = [fan EXCEPT ![ch].pc = "off"]
  /\ UNCHANGED <<serverVars, registry, session, media, stats, sent>>

(* on_frame copies the frame and runs update_parameter_sets.  The parser   *)
(* in the ingest pipeline puts the parameter sets in front of every key    *)
(* frame.                                                                  *)
FrameArrives(ch, kind) ==
  LET seq == fan[ch].produced + 1
  IN
  /\ fan[ch].pc = "idle" /\ seq <= MaxProduced
  /\ fan' = [fan EXCEPT
       ![ch].pc = "snapshot",
       ![ch].produced = seq,
       ![ch].frame = [ch |-> ch, seq |-> seq, key |-> kind.key, size |-> kind.size],
       ![ch].params = IF kind.key THEN seq ELSE @]
  /\ UNCHANGED <<serverVars, registry, session, media, stats, sent>>

(* Mutant: every player gets the frames of every channel.                  *)
WantingAny(ch) == { c \in registry : media[c].connected /\ media[c].playing }

Wanting(ch) ==
  { c \in registry : media[c].connected /\ media[c].playing /\ media[c].channel = ch }

(* Under clients_mutex_: expired entries go, the players of the channel    *)
(* are collected.  The flags of a client change only one way and those of  *)
(* different clients are independent, so that reading them one after the   *)
(* other finds what reading them at once would.                            *)
Snapshot(ch) ==
  /\ fan[ch].pc = "snapshot"
  /\ fan' = [fan EXCEPT ![ch].targets = Wanting(ch),
                        ![ch].pc = IF Wanting(ch) = {} THEN "idle" ELSE "before"]
  /\ registry' = { c \in registry : session[c].pc # "done" }
  /\ UNCHANGED <<serverVars, session, media, stats, sent>>

DropsBefore(ch, c) ==
  /\ fan[ch].pc = "before" /\ c \in fan[ch].targets
  /\ fan' = [fan EXCEPT ![ch].pc = "push", ![ch].current = c,
                        ![ch].before = media[c].queue.drops]
  /\ UNCHANGED <<serverVars, registry, session, media, stats, sent>>

PushFrame(ch) ==
  /\ fan[ch].pc = "push"
  /\ fan' = [fan EXCEPT ![ch].pc = "after"]
  /\ media' = [media EXCEPT ![fan[ch].current].queue = Push(@, fan[ch].frame)]
  /\ UNCHANGED <<serverVars, registry, session, stats, sent>>

(* Mutants: a push counts as one drop at most; only the last client counts.*)
NewDropsOne(ch) == IF media[fan[ch].current].queue.drops > fan[ch].before THEN 1 ELSE 0
NewDropsLast(ch) ==
  IF fan[ch].targets = {fan[ch].current}
  THEN media[fan[ch].current].queue.drops - fan[ch].before ELSE 0

NewDrops(ch) == media[fan[ch].current].queue.drops - fan[ch].before

DropsAfter(ch) ==
  LET rest == fan[ch].targets \ {fan[ch].current} IN
  /\ fan[ch].pc = "after"
  /\ fan' = [fan EXCEPT ![ch].targets = rest, ![ch].current = NoClient,
                        ![ch].pc = IF rest = {} THEN "idle" ELSE "before"]
  /\ stats' = [stats EXCEPT !.drops = @ + NewDrops(ch)]
  /\ UNCHANGED <<serverVars, registry, session, media, sent>>

FanStep(ch) ==
  Snapshot(ch) \/ PushFrame(ch) \/ DropsAfter(ch) \/ \E c \in Clients : DropsBefore(ch, c)

-----------------------------------------------------------------------------
(* The process exits once stop has returned.                               *)
Exited == main = "stopped" /\ UNCHANGED vars

Next ==
  \/ MainStep
  \/ Signal
  \/ Exited
  \/ \E l \in Listeners : ListenerStep(l)
  \/ \E c \in Clients : SessionStep(c)
  \/ \E ch \in Channels :
       \/ PipelineUp(ch) \/ PipelineDown(ch) \/ FanStep(ch)
       \/ \E kind \in FrameKinds : FrameArrives(ch, kind)

(* The threads are scheduled and none of their calls blocks for ever:      *)
(* select has a timeout, the sockets have send and receive timeouts, the   *)
(* bytes of one read hold finitely many requests, and a stopping worker    *)
(* takes its pipeline down.  That a session leaves the requests of a read  *)
(* takes for granted that the parser returns; RtspParser has the case in   *)
(* which it does not (BeyondLimitsReturns).                                *)
Fairness ==
  /\ WF_vars(MainStep)
  /\ \A l \in Listeners : WF_vars(ListenerStep(l))
  /\ \A c \in Clients : WF_vars(SessionStep(c)) /\ WF_vars(NoMoreRequests(c))
  /\ \A ch \in Channels : WF_vars(FanStep(ch)) /\ WF_vars(~running /\ PipelineDown(ch))

Spec == Init /\ [][Next]_vars /\ Fairness

-----------------------------------------------------------------------------
SessionPcs ==
  {"new", "accepted", "connect", "register", "count", "loop", "poll", "requests",
   "storeChannel", "storePlaying", "rest", "media", "send", "unwind",
   "disconnect", "closeQueue", "uncount", "done"}

Control == [phase : Phases, session : SessionIds \cup {NoSession},
            channel : Channels \cup {NoChannel}, ids : (0 .. 255) \X (0 .. 255)]

(* Types; active_clients_, which is unsigned, never wraps below zero.      *)
TypeOK ==
  /\ running \in BOOLEAN /\ started \in BOOLEAN
  /\ main \in {"init", "serve", "stop", "joinListeners", "swap", "joinSessions", "stopped"}
  /\ tls \in {"none", "live", "freed"}
  /\ listening \subseteq Listeners
  /\ lpc \in [Listeners -> {"off", "check", "select", "spawn", "done"}]
  /\ threads \subseteq Clients /\ joining \subseteq Clients /\ registry \subseteq Clients
  /\ session \in [Clients ->
       [pc : SessionPcs, via : Listeners \cup {"none"}, alive : BOOLEAN,
        counted : BOOLEAN, control : Control, inHand : Frame \cup {NoFrame}]]
  /\ media \in [Clients ->
       [connected : BOOLEAN, playing : BOOLEAN, channel : Channels \cup {NoChannel},
        queue : [frames : Seq(Frame), bytes : Nat, drops : Nat, closed : BOOLEAN],
        waiting : BOOLEAN]]
  /\ fan \in [Channels ->
       [pc : {"off", "idle", "snapshot", "before", "push", "after"},
        produced : 0 .. MaxProduced, frame : Frame \cup {NoFrame},
        targets : SUBSET Clients, current : Clients \cup {NoClient},
        before : Nat, params : 0 .. MaxProduced]]
  /\ stats \in [active : Nat, created : Nat, ended : Nat,
                drops : Nat, firstRtp : Nat, writeFailures : Nat]
  /\ sent \in [Clients -> [first : Frame \cup {NoFrame}, params : 0 .. MaxProduced,
                          last : 0 .. MaxProduced, afterTeardown : Nat, closes : Nat]]

InSession(c) == session[c].pc \notin {"new", "done"}

(* A session that has closed its queue keeps no frame, whatever on_frame   *)
(* still pushes to it from a snapshot taken while the session was live.    *)
EndedSessionHoldsNothing ==
  \A c \in Clients : session[c].pc \in {"uncount", "done"} =>
    media[c].queue.frames = <<>>

(* A client is given frames of the channel it set up, and not before it    *)
(* has sent a PLAY that was answered with 200.                             *)
OnlyOwnChannel ==
  \A c \in Clients :
    /\ \A f \in Range(media[c].queue.frames) \cup ({session[c].inHand} \ {NoFrame}) :
         f.ch = session[c].control.channel
    /\ media[c].queue.frames # <<>> \/ session[c].inHand # NoFrame =>
         session[c].control.phase \in {"Playing", "Closed"}

(* A client gets the frames of its channel in the order of their arrival   *)
(* and none twice, through the snapshot, the queue and the send.           *)
InOrder ==
  \A c \in Clients :
    LET q == media[c].queue.frames
        h == session[c].inHand
    IN  /\ \A i, j \in DOMAIN q : i < j => q[i].seq < q[j].seq
        /\ \A i \in DOMAIN q :
             q[i].seq > sent[c].last /\ (h # NoFrame => q[i].seq > h.seq)
        /\ h # NoFrame => h.seq > sent[c].last

(* The first frame a client gets is a key frame, and the parameter sets in *)
(* front of it are those of this frame or newer: update_parameter_sets     *)
(* runs before the push.                                                   *)
StartsWithKeyFrame ==
  \A c \in Clients : sent[c].first # NoFrame =>
    sent[c].first.key /\ sent[c].params >= sent[c].first.seq

(* But for the push just made, queue_drops_ is the number of frames that   *)
(* the queues of all clients dropped, although on_frame derives it from    *)
(* two reads of each drop counter: nobody else pushes in between.          *)
DropAccounting ==
  (\A ch \in Channels : fan[ch].pc # "after") =>
    stats.drops = MapThenSumSet(LAMBDA c : media[c].queue.drops, Clients)

(* active_clients_ never wraps below zero and is what was created and has  *)
(* not ended; no session is left in it when the server has stopped.        *)
SessionAccounting ==
  /\ stats.active = stats.created - stats.ended
  /\ stats.active = Cardinality({c \in Clients : InSession(c) /\ session[c].counted})
  /\ main = "stopped" => stats.active = 0

(* The socket of a connection is closed exactly once, by the destructor of *)
(* ClientConnection or by the handler of its constructor's exception.      *)
SocketClosedOnce ==
  \A c \in Clients : /\ sent[c].closes <= 1
                     /\ session[c].pc = "done" => sent[c].closes = 1

(* The TLS context lives as long as a session thread may use it.           *)
TlsOutlivesSessions ==
  \A c \in Clients : InSession(c) /\ session[c].via = "rtsps" => tls = "live"

(* When stop has returned, every thread of the server has ended, those of  *)
(* connections accepted while stop was running included.                   *)
StopLeavesNothingRunning ==
  main = "stopped" => /\ \A c \in Clients : ~InSession(c)
                      /\ \A l \in Listeners : lpc[l] \in {"off", "done"}

(* After the 200 to its TEARDOWN a client gets at most the one frame that  *)
(* the session thread takes before it looks at connected again.            *)
TeardownQuiet == \A c \in Clients : sent[c].afterTeardown <= 1

(* A signal stops the server: the main thread gets through all its joins.  *)
ShutdownCompletes == ~running ~> main = "stopped"

(* No frame stays at the head of a queue for ever, however many requests   *)
(* the client sends: it is sent, skipped, dropped or discarded.            *)
HeadMovesOn ==
  \A c \in Clients, n \in 1 .. MaxProduced :
    LET stuck == media[c].queue.frames # <<>> /\ media[c].queue.frames[1].seq = n
    IN  stuck ~> ~stuck

=============================================================================
