--------------------------- MODULE StartupProofs ---------------------------
(***************************************************************************)
(* Proofs about Startup, for all sets of cameras, channels and maps.       *)
(***************************************************************************)
EXTENDS Startup, TLAPS

(* A camera never has rows for two channels: camera_channel is UNIQUE.     *)
OneChannelPerCamera ==
  \A ch, other \in ChannelIds :
    ch # other /\ table[ch] # NoCamera => table[ch] # table[other]

(* From the parse of the map on, the map is valid and the entries before   *)
(* next are in the table.                                                  *)
Recorded ==
  /\ pc \in {"check", "parse"} => next = 1
  /\ pc \in {"upsert", "live", "serve"} =>
       /\ ValidMap(map)
       /\ next <= Len(map) + 1
       /\ pc # "upsert" => next = Len(map) + 1
       /\ \A i \in 1 .. next - 1 : table[map[i].channel] = map[i].camera

IInv == TypeOK /\ OneChannelPerCamera /\ Recorded

(* The first start finds an empty table.                                   *)
LEMMA InitIInv == Init => IInv
BY StartupAssumption DEF Init, IInv, TypeOK, OneChannelPerCamera, Recorded

(* An upsert keeps the cameras of the channels apart and the entries       *)
(* recorded so far: the map has no channel twice.                          *)
LEMMA UpsertIInv == ASSUME IInv, UpsertNext PROVE IInv'
<1> DEFINE ch == map[next].channel
           camera == map[next].camera
<1>1. /\ next \in 1 .. Len(map) /\ map[next] \in Entry /\ pc = "upsert"
      /\ ch \in ChannelIds /\ camera \in Cameras
      /\ table' = [table EXCEPT ![ch] = camera] /\ next' = next + 1
      /\ pc' = pc /\ map' = map /\ served' = served /\ outcome' = outcome
      /\ since' = since \cup {ch}
      /\ \A other \in ChannelIds \ {ch} : table[other] # camera
  <2>1. next \in 1 .. Len(map) /\ map \in Seq(Entry) /\ pc = "upsert"
    BY DEF IInv, TypeOK, UpsertNext
  <2>2. map[next] \in Entry
    BY <2>1
  <2>3. ch \in ChannelIds /\ camera \in Cameras
    BY <2>2 DEF Entry
  <2>4. /\ table' = [table EXCEPT ![ch] = camera] /\ next' = next + 1
        /\ pc' = pc /\ map' = map /\ served' = served /\ outcome' = outcome
        /\ since' = since \cup {ch}
    BY DEF UpsertNext, Upsert
  <2>5. \A other \in ChannelIds \ {ch} : table[other] # camera
    BY DEF UpsertNext, CameraFree
  <2> QED BY <2>1, <2>2, <2>3, <2>4, <2>5
<1> HIDE DEF ch, camera
<1>2. TypeOK'
  BY <1>1 DEF IInv, TypeOK
<1>3. OneChannelPerCamera'
  <2>1. ASSUME NEW x \in ChannelIds, NEW y \in ChannelIds, x # y,
               table'[x] # NoCamera
        PROVE  table'[x] # table'[y]
    <3>1. table[x] # NoCamera => table[x] # table[y]
      BY <2>1 DEF IInv, OneChannelPerCamera
    <3>2. \A z \in ChannelIds : table'[z] = IF z = ch THEN camera ELSE table[z]
      BY <1>1 DEF IInv, TypeOK
    <3>3. x # ch => table[x] # camera
      BY <1>1
    <3>4. y # ch => table[y] # camera
      BY <1>1
    <3> QED BY <2>1, <3>1, <3>2, <3>3, <3>4
  <2> QED BY <2>1 DEF OneChannelPerCamera
<1>4. Recorded'
  <2>1. ValidMap(map) /\ \A i \in 1 .. next - 1 : table[map[i].channel] = map[i].camera
    BY <1>1 DEF IInv, Recorded
  <2>2. \A i \in 1 .. next : map[i] \in Entry
    BY <1>1 DEF IInv, TypeOK
  <2>3. ASSUME NEW i \in 1 .. next' - 1 PROVE table'[map'[i].channel] = map'[i].camera
    <3>1. i \in 1 .. next
      BY <1>1 DEF IInv, TypeOK
    <3>2. CASE i = next
      BY <3>2, <1>1 DEF IInv, TypeOK, ch, camera
    <3>3. CASE i # next
      <4>1. i \in 1 .. next - 1
        BY <3>1, <3>3, <1>1 DEF IInv, TypeOK
      <4>2. map[i].channel # ch
        BY <4>1, <3>3, <1>1, <2>1 DEF ValidMap, ch, IInv, TypeOK
      <4>3. map[i].channel \in ChannelIds
        BY <2>2, <3>1 DEF Entry
      <4> QED BY <4>1, <4>2, <4>3, <1>1, <2>1 DEF IInv, TypeOK
    <3> QED BY <3>2, <3>3
  <2> QED BY <1>1, <2>1, <2>3 DEF Recorded, ValidMap
<1> QED BY <1>2, <1>3, <1>4 DEF IInv

(* Every step of main, and a kill at any place, keeps the invariant.       *)
LEMMA NextIInv == IInv /\ [Next]_vars => IInv'
<1> SUFFICES ASSUME IInv, [Next]_vars PROVE IInv'
  OBVIOUS
<1> USE DEF IInv, TypeOK, OneChannelPerCamera, Recorded
<1>1. ASSUME NEW m \in Maps, Boot(m) PROVE IInv'
  <2>1. m \in Seq(Entry)
    BY StartupAssumption
  <2> QED BY <1>1, <2>1 DEF Boot
<1>2. ASSUME NEW d \in Storage, CheckStorage(d) PROVE IInv'
  BY <1>2 DEF CheckStorage, Goto, Exit
<1>3. CASE ParseMap
  BY <1>3 DEF ParseMap, Goto, Exit, ValidMap
<1>4. CASE IndexFails \/ UpsertFails \/ LiveServerFails \/ Stop \/ Kill
  BY <1>4 DEF IndexFails, UpsertFails, LiveServerFails, Stop, Kill, Exit
<1>5. CASE UpsertNext
  BY <1>5, UpsertIInv
<1>6. CASE MapRecorded
  BY <1>6 DEF MapRecorded, Goto
<1>7. CASE Serve
  BY <1>7 DEF Serve
<1>8. CASE UNCHANGED vars
  BY <1>8 DEF vars
<1> QED BY <1>1, <1>2, <1>3, <1>4, <1>5, <1>6, <1>7, <1>8 DEF Next

(* The invariant holds throughout.                                         *)
LEMMA SpecIInv == Spec => []IInv
BY InitIInv, NextIInv, PTL DEF Spec

(* main's state has its type.                                              *)
THEOREM StartupTypeOK == Spec => []TypeOK
BY SpecIInv, PTL DEF IInv

(* While main serves, vms_channels holds every entry of its channel map.   *)
THEOREM StartupServedMapRecorded == Spec => []ServedMapRecorded
<1>1. IInv => ServedMapRecorded
  BY DEF IInv, TypeOK, Recorded, ServedMapRecorded
<1> QED BY <1>1, SpecIInv, PTL

-----------------------------------------------------------------------------
(* A camera of the map that was served last has, on the channels that were *)
(* not written since, no row but the one that the map gives it.            *)
OlderRowsAgree ==
  \A i \in 1 .. Len(served) : \A ch \in ChannelIds \ since :
    table[ch] = served[i].camera => ch = served[i].channel

NewerInv ==
  /\ pc # "down" => outcome = "none"
  /\ OlderRowsAgree
  /\ OnlyNewerRowsInTheWay

(* An upsert changes the row of one channel, which it adds to since.       *)
LEMMA UpsertNewer == ASSUME IInv, NewerInv, UpsertNext PROVE NewerInv'
<1>1. next \in 1 .. Len(map) /\ map \in Seq(Entry) /\ pc = "upsert"
  BY DEF IInv, TypeOK, UpsertNext
<1>2. map[next] \in Entry
  BY <1>1
<1>3. map[next].channel \in ChannelIds
  BY <1>2 DEF Entry
<1>4. /\ table' = [table EXCEPT ![map[next].channel] = map[next].camera]
      /\ since' = since \cup {map[next].channel}
      /\ served' = served /\ outcome' = outcome /\ outcome = "none"
  BY <1>1 DEF UpsertNext, Upsert, NewerInv
<1>5. \A ch \in ChannelIds \ since' : ch \in ChannelIds \ since /\ table'[ch] = table[ch]
  BY <1>3, <1>4 DEF IInv, TypeOK
<1>6. OlderRowsAgree'
  BY <1>4, <1>5 DEF NewerInv, OlderRowsAgree
<1> QED BY <1>4, <1>6 DEF NewerInv, OnlyNewerRowsInTheWay

(* When the upsert of an entry of the map that was served last fails, the  *)
(* row with its camera was written since.                                  *)
LEMMA FailureIsNewer == ASSUME IInv, NewerInv, UpsertFails PROVE NewerInv'
<1>1. next \in 1 .. Len(map)
  BY DEF IInv, TypeOK, UpsertFails
<1>2. PICK other \in ChannelIds \ {map[next].channel} : table[other] = map[next].camera
  BY DEF UpsertFails, CameraFree
<1>3. map = served => other \in since
  BY <1>1, <1>2 DEF NewerInv, OlderRowsAgree
<1>4. /\ pc' = "down" /\ map' = map /\ next' = next /\ table' = table
      /\ served' = served /\ since' = since
  BY DEF UpsertFails, Exit
<1>5. OnlyNewerRowsInTheWay'
  BY <1>2, <1>3, <1>4 DEF OnlyNewerRowsInTheWay
<1> QED BY <1>4, <1>5 DEF NewerInv, OlderRowsAgree

(* When main begins to serve, its map is in the table, and no camera has   *)
(* a second row.                                                           *)
LEMMA ServeNewer == ASSUME IInv, NewerInv, Serve PROVE NewerInv'
<1>1. /\ served' = map /\ since' = {} /\ table' = table
      /\ outcome' = outcome /\ outcome = "none"
  BY DEF Serve, NewerInv
<1>2. map \in Seq(Entry) /\ \A i \in 1 .. Len(map) : table[map[i].channel] = map[i].camera
  BY DEF Serve, IInv, TypeOK, Recorded
<1>3. ASSUME NEW i \in 1 .. Len(map), NEW ch \in ChannelIds, table[ch] = map[i].camera
      PROVE  ch = map[i].channel
  <2>1. map[i] \in Entry
    BY <1>2
  <2>2. map[i].channel \in ChannelIds /\ map[i].camera \in Cameras
    BY <2>1 DEF Entry
  <2> QED BY <1>2, <1>3, <2>2, StartupAssumption DEF IInv, OneChannelPerCamera
<1>4. OlderRowsAgree'
  BY <1>1, <1>3 DEF OlderRowsAgree
<1> QED BY <1>1, <1>4 DEF NewerInv, OnlyNewerRowsInTheWay

(* Every step keeps what is known of the rows written since.               *)
LEMMA NextNewer == IInv /\ NewerInv /\ [Next]_vars => NewerInv'
<1> SUFFICES ASSUME IInv, NewerInv, [Next]_vars PROVE NewerInv'
  OBVIOUS
<1> USE DEF NewerInv, OlderRowsAgree, OnlyNewerRowsInTheWay
<1>1. ASSUME NEW m \in Maps, Boot(m) PROVE NewerInv'
  BY <1>1 DEF Boot
<1>2. ASSUME NEW d \in Storage, CheckStorage(d) PROVE NewerInv'
  BY <1>2 DEF CheckStorage, Goto, Exit
<1>3. CASE ParseMap
  BY <1>3 DEF ParseMap, Goto, Exit
<1>4. CASE IndexFails \/ LiveServerFails \/ Stop \/ Kill
  BY <1>4 DEF IndexFails, LiveServerFails, Stop, Kill, Exit
<1>5. CASE UpsertNext
  BY <1>5, UpsertNewer
<1>6. CASE UpsertFails
  BY <1>6, FailureIsNewer
<1>7. CASE MapRecorded
  BY <1>7 DEF MapRecorded, Goto
<1>8. CASE Serve
  BY <1>8, ServeNewer
<1>9. CASE UNCHANGED vars
  BY <1>9 DEF vars
<1> QED BY <1>1, <1>2, <1>3, <1>4, <1>5, <1>6, <1>7, <1>8, <1>9 DEF Next

(* The map that was served last fails at an entry only if a row written    *)
(* since gives its camera to another channel, for any maps, failures and   *)
(* kills in between: also when other maps were recorded in part.           *)
THEOREM StartupOnlyNewerRowsInTheWay == Spec => []OnlyNewerRowsInTheWay
<1>1. Init => NewerInv
  BY DEF Init, NewerInv, OlderRowsAgree, OnlyNewerRowsInTheWay
<1>2. NewerInv => OnlyNewerRowsInTheWay
  BY DEF NewerInv
<1> QED BY <1>1, <1>2, NextNewer, SpecIInv, PTL DEF Spec

=============================================================================
