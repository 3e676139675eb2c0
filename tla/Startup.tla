------------------------------ MODULE Startup ------------------------------
(***************************************************************************)
(* main from its start to its exit, over any number of runs of the         *)
(* process: the storage check, the table vms_channels that the runs share, *)
(* and the channel map of each run.                                        *)
(***************************************************************************)
EXTENDS Integers, Sequences

CONSTANTS Cameras,       \* camera channels
          ChannelIds,    \* VMS channels
          NoCamera,      \* the channel has no row
          RequireMount,  \* --require-storage-mount
          Maps           \* the channel maps that the process is started with

Entry == [camera : Cameras, channel : ChannelIds]

ASSUME StartupAssumption ==
  NoCamera \notin Cameras /\ RequireMount \in BOOLEAN /\ Maps \subseteq Seq(Entry)

VARIABLES pc,       \* where main is; "down" when there is no process
          map,      \* --channel-map of this run
          next,     \* the entry of the map that is recorded next
          table,    \* vms_channels: the camera of each channel
          outcome,  \* how the last run ended
          served,   \* history: the map of the last run that served
          since     \* history: the channels whose rows were written since

vars == <<pc, map, next, table, outcome, served, since>>

Init ==
  /\ pc = "down" /\ map = <<>> /\ next = 1 /\ outcome = "none"
  /\ served = <<>> /\ since = {}
  /\ table = [ch \in ChannelIds |-> NoCamera]

(* What StorageManager::check may find.                                    *)
Storage == [exists : BOOLEAN, directory : BOOLEAN, mount : BOOLEAN, subdirs : BOOLEAN,
            writable : BOOLEAN, measured : BOOLEAN, space : BOOLEAN]

(* check reports Ready; every other state makes main return 2.             *)
Ready(d) ==
  /\ d.exists /\ d.directory
  /\ d.mount \/ ~RequireMount
  /\ d.subdirs /\ d.writable /\ d.measured /\ d.space

(* parse_channel_map: neither a camera nor a channel occurs twice.         *)
ValidMap(m) ==
  /\ m # <<>>
  /\ \A i, j \in 1 .. Len(m) :
       i # j => m[i].camera # m[j].camera /\ m[i].channel # m[j].channel

-----------------------------------------------------------------------------
(* Mutant: the entries are counted from zero.                              *)
BootFromZero(m) ==
  /\ pc = "down"
  /\ pc' = "check" /\ map' = m /\ next' = 0 /\ outcome' = "none"
  /\ UNCHANGED <<table, served, since>>

Boot(m) ==
  /\ pc = "down"
  /\ pc' = "check" /\ map' = m /\ next' = 1 /\ outcome' = "none"
  /\ UNCHANGED <<table, served, since>>

Exit(why) ==
  /\ pc' = "down" /\ outcome' = why
  /\ UNCHANGED <<map, next, table, served, since>>

Goto(to) ==
  /\ pc' = to
  /\ UNCHANGED <<map, next, table, outcome, served, since>>

CheckStorage(d) ==
  /\ pc = "check"
  /\ IF Ready(d) THEN Goto("parse") ELSE Exit("storage")

(* The index is opened and the map parsed; either may throw.               *)
ParseMap == pc = "parse" /\ (IF ValidMap(map) THEN Goto("upsert") ELSE Exit("args"))
IndexFails == pc \in {"parse", "upsert"} /\ Exit("index")

(* Mutant: the row of the channel itself is in the way.                    *)
CameraUnused(ch, camera) == \A other \in ChannelIds : table[other] # camera

(* camera_channel is UNIQUE in the table.                                  *)
CameraFree(ch, camera) == \A other \in ChannelIds \ {ch} : table[other] # camera

(* Mutant: a row that exists is kept.                                      *)
UpsertIgnore(ch, camera) ==
  table' = IF table[ch] = NoCamera THEN [table EXCEPT ![ch] = camera] ELSE table

(* INSERT ... ON CONFLICT(channel_id) DO UPDATE, committed by itself.      *)
Upsert(ch, camera) == table' = [table EXCEPT ![ch] = camera]

UpsertNext ==
  /\ pc = "upsert" /\ next <= Len(map)
  /\ CameraFree(map[next].channel, map[next].camera)
  /\ Upsert(map[next].channel, map[next].camera)
  /\ next' = next + 1 /\ since' = since \cup {map[next].channel}
  /\ UNCHANGED <<pc, map, outcome, served>>

UpsertFails ==
  /\ pc = "upsert" /\ next <= Len(map)
  /\ ~CameraFree(map[next].channel, map[next].camera)
  /\ Exit("mapping")

MapRecorded == pc = "upsert" /\ next > Len(map) /\ Goto("live")

(* LiveRtspServer::start, then ChannelManager::start.                      *)
Serve ==
  /\ pc = "live"
  /\ pc' = "serve" /\ served' = map /\ since' = {}
  /\ UNCHANGED <<map, next, table, outcome>>

LiveServerFails == pc = "live" /\ Exit("listen")

Stop == pc = "serve" /\ Exit("stopped")

Kill == pc # "down" /\ Exit("killed")

Next ==
  \/ \E m \in Maps : Boot(m)
  \/ \E d \in Storage : CheckStorage(d)
  \/ ParseMap \/ IndexFails \/ UpsertNext \/ UpsertFails \/ MapRecorded
  \/ Serve \/ LiveServerFails \/ Stop \/ Kill

Spec == Init /\ [][Next]_vars

-----------------------------------------------------------------------------
(* Types; the rows of vms_channels name cameras, and main is always at an  *)
(* entry of the map or behind its last one.                                *)
TypeOK ==
  /\ pc \in {"down", "check", "parse", "upsert", "live", "serve"}
  /\ map \in Seq(Entry) /\ served \in Seq(Entry) /\ since \subseteq ChannelIds
  /\ next \in Nat \ {0}
  /\ table \in [ChannelIds -> Cameras \cup {NoCamera}]
  /\ outcome \in {"none", "storage", "args", "index", "mapping", "listen", "stopped", "killed"}

(* While the server serves, the table agrees with the map it was started   *)
(* with: no entry is undone by a later one.                                *)
ServedMapRecorded ==
  pc = "serve" => \A i \in 1 .. Len(map) : table[map[i].channel] = map[i].camera

(* The map that was served last fails to be recorded again only if a row   *)
(* written since gives the camera of the entry at which it fails to        *)
(* another channel.  However the runs ended, and although a map that was   *)
(* recorded in part is left mixed with the one before, the rows of the     *)
(* served map itself, and older ones, are never in its way.                *)
OnlyNewerRowsInTheWay ==
  outcome = "mapping" /\ map = served =>
    \E ch \in since \ {map[next].channel} : table[ch] = map[next].camera

(* README.md:31: the mapping is what --channel-map gives.  No valid map    *)
(* keeps the process from starting.                                        *)
ValidMapStarts == outcome # "mapping"

=============================================================================
