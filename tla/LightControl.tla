---------------------------- MODULE LightControl ----------------------------
(***************************************************************************)
(* The light control loop of the data process thread                      *)
(* (thread_data_process.c): analyse_light_state, run on every 1 s timer   *)
(* message, scans the light list from a static cursor and sends at most   *)
(* one CONTROL_LIGHT frame; light heartbeats and responses refresh a      *)
(* light (refresh_light_info) and may register it as a new device;        *)
(* check_lora_node_connect ages the lights.  The lists are reloaded by    *)
(* init_parking_lists when the TCP server thread finishes a file          *)
(* download: three file reads, each of which data_proc (higher priority)  *)
(* may run between.                                                        *)
(*                                                                         *)
(* The scan loop is one step per iteration so that a scan that never      *)
(* ends is a behaviour TLC can exhibit.  Nothing else writes the lists    *)
(* while data_proc scans: it never blocks inside analyse_light_state and  *)
(* the TCP thread has a lower priority.                                    *)
(***************************************************************************)
EXTENDS Integers, FiniteSets, Sequences, TLC

CONSTANTS
    LightIds,     \* light node ids, listed or not
    DetIds,       \* detector ids
    Configs,      \* contents of the three list files a download may install
    DetStates,    \* states a detector record may be given by its own handlers
    MaxLights,    \* size of the light array modelled (MAX_LIGHT_PER_WNC is 40)
    MaxDets,      \* size of the detector array modelled (MAX_DETECTOR_PER_WNC 60)
    MaxEnvEvents, \* bound on frames, deliveries, detector updates and reloads
    MaxTicks      \* bound on connectivity-check timer ticks

NODE_STATE_OFFLINE      == 251
LIGHT_COLOR_RED         == 1
LIGHT_COLOR_GREEN       == 2
LIGHT_TIME_LEFT         == 10   \* commands a light may leave unanswered
NEW_DEVICE_REPORT_TIMES == 3
OFFLINE_INTERVAL        == 35
Colours == {LIGHT_COLOR_RED, LIGHT_COLOR_GREEN}
NoId    == 0                    \* the id of a zeroed record

(* A list-file set: the lights and detectors of this concentrator, in file *)
(* order, and the light/parking association as <<detector, light>> pairs.  *)
ConfigType ==
    [lights : Seq(LightIds), dets : Seq(DetIds), zone : SUBSET (DetIds \X LightIds)]

ASSUME /\ Configs \subseteq ConfigType
       /\ \A c \in Configs : Len(c.lights) <= MaxLights /\ Len(c.dets) <= MaxDets
       /\ DetStates \subseteq {0, 1, NODE_STATE_OFFLINE}
       /\ NoId \notin LightIds \cup DetIds

LSlots == 0..MaxLights - 1
DSlots == 0..MaxDets - 1

VARIABLES
    lights, lightNum,  \* g_light_info_list (and g_relation_list.light_num)
    dets, detNum,      \* state and id of g_detector_info_list records
    masks,             \* masks[j]: light indices in detector j's relation mask
    empty,             \* g_relation_list.empty: free detectors per light
    index,             \* the static scan cursor of analyse_light_state
    scan,              \* the running scan: its loop variable and is_first
    newNodes,          \* g_new_node_list: id -> time_left, for lights
    reload,            \* progress of init_parking_lists in the TCP thread
    lightColour,       \* colour each light node really shows (environment)
    pending,           \* CONTROL_LIGHT frames sent and not yet delivered
    waits,             \* ghost: commands sent to others while a light needs one
    cmds,              \* ghost: commands sent to a light since its last report
    lastFrame,         \* ghost: the last light frame, whether its id was listed
                       \* and whether it was passed to insert_new_device
    envEvents, ticks

vars == <<lights, lightNum, dets, detNum, masks, empty, index, scan, newNodes,
          reload, lightColour, pending, waits, cmds, lastFrame, envEvents, ticks>>

-----------------------------------------------------------------------------
ZeroLight == [id |-> NoId, state |-> 0, correct |-> 0, current |-> 0,
              interval |-> 0, timeLeft |-> 0]

(* read_light_connect_file: both lists zeroed, then the listed lights with *)
(* time_left = 10.                                                          *)
read_light_connect_file(c) ==
    [k \in LSlots |-> IF k < Len(c.lights)
                      THEN [ZeroLight EXCEPT !.id = c.lights[k + 1],
                                             !.timeLeft = LIGHT_TIME_LEFT]
                      ELSE ZeroLight]

(* read_sensor_list_flie: the detector list zeroed, listed ones offline.   *)
read_sensor_list_flie(c) ==
    [k \in DSlots |-> IF k < Len(c.dets)
                      THEN [id |-> c.dets[k + 1], state |-> NODE_STATE_OFFLINE]
                      ELSE [id |-> NoId, state |-> 0]]

(* read_light_parking_flie + set_region_mask_by_index: for each pair of   *)
(* the file, the bit of the first light with that id in the mask of the    *)
(* first detector with that id.                                            *)
FirstSlot(ids, n, x) ==
    CHOOSE k \in 0..n : (k < n /\ ids[k].id = x
                         /\ \A k2 \in 0..k - 1 : ids[k2].id # x) \/ k = n
read_light_parking_flie(c, ls, ln, ds, dn) ==
    [j \in DSlots |->
        {i \in 0..ln - 1 :
            \E p \in c.zone : /\ FirstSlot(ds, dn, p[1]) = j
                              /\ FirstSlot(ls, ln, p[2]) = i}]

(* The first loop of analyse_light_state: free detectors per light.       *)
FreeCount(j) ==
    Cardinality({i \in 0..detNum - 1 : dets[i].state = 0 /\ j \in masks[i]})

ColourFor(e, i) == IF e[i] > 0 THEN LIGHT_COLOR_GREEN ELSE LIGHT_COLOR_RED

(* Mutant of NextSlot: the loop variable is not wrapped.                  *)
NextSlotNoWrap(i) == i + 1

(* The scan's loop step: ++i wrapping at the light count.                  *)
NextSlot(i) == IF i + 1 >= lightNum THEN 0 ELSE i + 1

(* Mutants of CursorAfter: the cursor left on the light just served, or  *)
(* advanced without wrapping.                                              *)
CursorStays(i) == i
CursorNoWrap(i) == i + 1

(* After a command: index = i + 1, wrapped at the light count.             *)
CursorAfter(i) == IF i + 1 >= lightNum THEN 0 ELSE i + 1

(* A light waiting for a command in the current scan.                      *)
Needs(k) ==
    /\ k < lightNum
    /\ lights[k].state # NODE_STATE_OFFLINE
    /\ ColourFor(empty, k) # lights[k].current
    /\ lights[k].timeLeft > 0

Listed(x) == \E k \in 0..lightNum - 1 : lights[k].id = x

-----------------------------------------------------------------------------
Init ==
    /\ \E c \in Configs :
          LET ls == read_light_connect_file(c)
              ds == read_sensor_list_flie(c)
          IN /\ lights = ls /\ lightNum = Len(c.lights)
             /\ dets = ds /\ detNum = Len(c.dets)
             /\ masks = read_light_parking_flie(c, ls, Len(c.lights),
                                                ds, Len(c.dets))
    /\ empty = [k \in LSlots |-> 0]
    /\ index = 0
    /\ scan = [active |-> FALSE, i |-> 0, first |-> TRUE]
    /\ newNodes = [x \in {} |-> 0]
    /\ reload = [phase |-> "idle", cfg |-> CHOOSE c \in Configs : TRUE]
    /\ lightColour \in [LightIds -> Colours]
    /\ pending = {}
    /\ waits = [x \in LightIds |-> 0]
    /\ cmds = [x \in LightIds |-> 0]
    /\ lastFrame = [id |-> NoId, listed |-> FALSE, inserted |-> FALSE]
    /\ envEvents = 0
    /\ ticks = 0

Idle == ~scan.active
EnvStep == envEvents < MaxEnvEvents /\ envEvents' = envEvents + 1

(* The 1 s timer message: the free counts, then the scan from the cursor.  *)
(* With no light the loop is not entered.                                  *)
AnalyseLightState ==
    /\ Idle
    /\ empty' = [k \in LSlots |-> IF k < lightNum THEN FreeCount(k) ELSE 0]
    /\ scan' = [active |-> lightNum > 0, i |-> index, first |-> TRUE]
    /\ UNCHANGED <<lights, lightNum, dets, detNum, masks, index, newNodes,
                   reload, lightColour, pending, waits, cmds, lastFrame,
                   envEvents, ticks>>

(* The loop condition: back at the cursor after the first visit.           *)
InLoop == scan.active /\ (scan.i # index \/ scan.first)

ScanEnd ==
    /\ scan.active /\ ~InLoop
    /\ scan' = [scan EXCEPT !.active = FALSE]
    /\ UNCHANGED <<lights, lightNum, dets, detNum, masks, empty, index,
                   newNodes, reload, lightColour, pending, waits, cmds,
                   lastFrame, envEvents, ticks>>

(* One iteration that finds light i needing a command with budget left:  *)
(* send CONTROL_LIGHT, spend one unit, move the cursor past i, return.    *)
ScanSend ==
    LET i == scan.i
        l == lights[i]
        c == ColourFor(empty, i)
    IN /\ InLoop
       /\ l.state # NODE_STATE_OFFLINE /\ c # l.current /\ l.timeLeft > 0
       /\ lights' = [lights EXCEPT ![i].correct = c, ![i].timeLeft = @ - 1]
       /\ pending' = pending \cup {<<l.id, c>>}
       /\ index' = CursorAfter(i)
       /\ scan' = [scan EXCEPT !.active = FALSE]
       /\ cmds' = [cmds EXCEPT ![l.id] = @ + 1]
       /\ waits' = [x \in LightIds |->
                      IF x = l.id THEN 0
                      ELSE IF \E k \in 0..lightNum - 1 : lights[k].id = x /\ Needs(k)
                           THEN waits[x] + 1 ELSE waits[x]]
       /\ UNCHANGED <<lightNum, dets, detNum, masks, empty, newNodes, reload,
                      lightColour, lastFrame, envEvents, ticks>>

(* An iteration that finds light i needing a command with no budget left: *)
(* "lose control", the light is marked offline.                           *)
ScanLoseControl ==
    LET i == scan.i
        l == lights[i]
        c == ColourFor(empty, i)
    IN /\ InLoop
       /\ l.state # NODE_STATE_OFFLINE /\ c # l.current /\ l.timeLeft = 0
       /\ lights' = [lights EXCEPT ![i].correct = c,
                                   ![i].state = NODE_STATE_OFFLINE]
       /\ scan' = [scan EXCEPT !.i = NextSlot(i), !.first = FALSE]
       /\ waits' = IF l.id \in LightIds THEN [waits EXCEPT ![l.id] = 0] ELSE waits
       /\ UNCHANGED <<lightNum, dets, detNum, masks, empty, index, newNodes,
                      reload, lightColour, pending, cmds, lastFrame,
                      envEvents, ticks>>

(* An iteration over a light that is offline or already shows its colour. *)
ScanPass ==
    LET i == scan.i
        l == lights[i]
        c == ColourFor(empty, i)
    IN /\ InLoop
       /\ l.state = NODE_STATE_OFFLINE \/ c = l.current
       /\ lights' = [lights EXCEPT ![i].correct = c]
       /\ scan' = [scan EXCEPT !.i = NextSlot(i), !.first = FALSE]
       /\ waits' = IF l.id \in LightIds THEN [waits EXCEPT ![l.id] = 0] ELSE waits
       /\ UNCHANGED <<lightNum, dets, detNum, masks, empty, index, newNodes,
                      reload, lightColour, pending, cmds, lastFrame,
                      envEvents, ticks>>

ScanStep == ScanEnd \/ ScanSend \/ ScanLoseControl \/ ScanPass

-----------------------------------------------------------------------------
(* insert_new_device: refresh the report budget of a known id, or append. *)
MAX_NODE_WHOLE_PARKING_LOT == 1024
insert_new_device(nn, x) ==
    IF x \in DOMAIN nn THEN [nn EXCEPT ![x] = NEW_DEVICE_REPORT_TIMES]
    ELSE IF Cardinality(DOMAIN nn) < MAX_NODE_WHOLE_PARKING_LOT
         THEN nn @@ (x :> NEW_DEVICE_REPORT_TIMES)
         ELSE nn

(* Mutant of refresh_light_info: the retry budget is not renewed.       *)
RefreshKeepsBudget(l, colour) ==
    [l EXCEPT !.state = 0, !.current = colour, !.interval = 0]

refresh_light_info(l, colour) ==
    [l EXCEPT !.state = 0, !.current = colour, !.interval = 0,
              !.timeLeft = LIGHT_TIME_LEFT]

(* refresh_light_info for every listed light with this id (the loop has  *)
(* no break); then the "not in list" test, which compares the loop index *)
(* with the detector count.                                               *)
LightFrame(x, colour) ==
    LET hit(k) == k < lightNum /\ lights[k].id = x
        insert == lightNum >= detNum
    IN /\ lights' = [k \in LSlots |->
                       IF hit(k) THEN refresh_light_info(lights[k], colour)
                       ELSE lights[k]]
       /\ newNodes' = IF insert THEN insert_new_device(newNodes, x) ELSE newNodes
       /\ cmds' = IF Listed(x) THEN [cmds EXCEPT ![x] = 0] ELSE cmds
       /\ lastFrame' = [id |-> x, listed |-> Listed(x), inserted |-> insert]

(* Light x sends a heartbeat or a response carrying the colour it shows,  *)
(* and data_proc handles it.                                               *)
LightReport(x) ==
    /\ Idle /\ EnvStep
    /\ LightFrame(x, lightColour[x])
    /\ UNCHANGED <<lightNum, dets, detNum, masks, empty, index, scan, reload,
                   lightColour, pending, waits, ticks>>

(* A CONTROL_LIGHT frame reaches its light, which takes the colour. *)
DeliverCommand(p) ==
    /\ EnvStep
    /\ lightColour' = [lightColour EXCEPT ![p[1]] = p[2]]
    /\ pending' = pending \ {p}
    /\ UNCHANGED <<lights, lightNum, dets, detNum, masks, empty, index, scan,
                   newNodes, reload, waits, cmds, lastFrame, ticks>>

(* A CONTROL_LIGHT frame is lost on air. *)
DropCommand(p) ==
    /\ EnvStep
    /\ pending' = pending \ {p}
    /\ UNCHANGED <<lights, lightNum, dets, detNum, masks, empty, index, scan,
                   newNodes, reload, lightColour, waits, cmds, lastFrame, ticks>>

(* data_proc sets a detector's parking state: refresh_detector_info on a *)
(* heartbeat, or check_lora_node_connect marking it offline.              *)
DetectorUpdate(j, st) ==
    /\ Idle /\ EnvStep
    /\ j < detNum
    /\ dets' = [dets EXCEPT ![j].state = st]
    /\ UNCHANGED <<lights, lightNum, detNum, masks, empty, index, scan,
                   newNodes, reload, lightColour, pending, waits, cmds,
                   lastFrame, ticks>>

(* check_lora_node_connect, light part. *)
LightConnectCheck ==
    /\ Idle
    /\ ticks < MaxTicks /\ ticks' = ticks + 1
    /\ lights' = [k \in LSlots |->
                    IF k >= lightNum \/ lights[k].state = NODE_STATE_OFFLINE
                    THEN lights[k]
                    ELSE IF lights[k].interval < OFFLINE_INTERVAL
                         THEN [lights[k] EXCEPT !.interval = @ + 1]
                         ELSE [lights[k] EXCEPT !.state = NODE_STATE_OFFLINE]]
    /\ UNCHANGED <<lightNum, dets, detNum, masks, empty, index, scan, newNodes,
                   reload, lightColour, pending, waits, cmds, lastFrame,
                   envEvents>>

(* init_parking_lists in the TCP thread, one step per file read.  The      *)
(* static cursor of analyse_light_state is left as it was.                 *)
ReloadLights(c) ==
    /\ Idle /\ EnvStep
    /\ reload.phase = "idle"
    /\ lights' = read_light_connect_file(c)
    /\ lightNum' = Len(c.lights)
    /\ masks' = [j \in DSlots |-> {}]
    /\ empty' = [k \in LSlots |-> 0]
    /\ reload' = [phase |-> "sensors", cfg |-> c]
    /\ waits' = [x \in LightIds |-> 0]
    /\ cmds' = [x \in LightIds |-> 0]
    /\ UNCHANGED <<dets, detNum, index, scan, newNodes, lightColour, pending,
                   lastFrame, ticks>>

ReloadSensors ==
    /\ Idle
    /\ reload.phase = "sensors"
    /\ dets' = read_sensor_list_flie(reload.cfg)
    /\ detNum' = Len(reload.cfg.dets)
    /\ masks' = [j \in DSlots |-> {}]
    /\ reload' = [reload EXCEPT !.phase = "parking"]
    /\ UNCHANGED <<lights, lightNum, empty, index, scan, newNodes, lightColour,
                   pending, waits, cmds, lastFrame, envEvents, ticks>>

ReloadParking ==
    /\ Idle
    /\ reload.phase = "parking"
    /\ masks' = read_light_parking_flie(reload.cfg, lights, lightNum, dets, detNum)
    /\ reload' = [reload EXCEPT !.phase = "idle"]
    /\ UNCHANGED <<lights, lightNum, dets, detNum, empty, index, scan, newNodes,
                   lightColour, pending, waits, cmds, lastFrame, envEvents, ticks>>

Next ==
    \/ AnalyseLightState
    \/ ScanStep
    \/ \E x \in LightIds : LightReport(x)
    \/ \E p \in pending : DeliverCommand(p) \/ DropCommand(p)
    \/ \E j \in DSlots, st \in DetStates : DetectorUpdate(j, st)
    \/ LightConnectCheck
    \/ \E c \in Configs : ReloadLights(c)
    \/ ReloadSensors
    \/ ReloadParking

(* data_proc is the highest-priority thread touching these lists and does *)
(* not block inside the scan: once it scans, it keeps running.            *)
Spec == Init /\ [][Next]_vars /\ WF_vars(ScanStep)

-----------------------------------------------------------------------------
TypeOK ==
    /\ lightNum \in 0..MaxLights /\ detNum \in 0..MaxDets
    /\ index \in LSlots
    /\ scan.i \in LSlots
    /\ \A k \in LSlots :
         /\ lights[k].id \in LightIds \cup {NoId}
         /\ lights[k].state \in {0, NODE_STATE_OFFLINE}
         /\ lights[k].timeLeft \in 0..LIGHT_TIME_LEFT
         /\ lights[k].interval \in 0..OFFLINE_INTERVAL
    /\ DOMAIN newNodes \subseteq LightIds
    /\ pending \subseteq LightIds \X Colours

(* Round-robin fairness of analyse_light_state (one command per run, the *)
(* cursor moved past the light served): while a listed light keeps        *)
(* needing a command, every other light is served at most once before it, *)
(* so it waits for fewer than lightNum commands to others.                 *)
LightFairness ==
    \A x \in LightIds : waits[x] = 0 \/ waits[x] < lightNum

(* A listed light is marked lost ("lose control") by the scan only after  *)
(* it left exactly LIGHT_TIME_LEFT commands unanswered since it last      *)
(* reported or the lists were loaded.                                      *)
LostControlOnlyAfterRetries ==
    [][\A k \in LSlots :
         (/\ scan.active /\ k < lightNum
          /\ lights[k].state # NODE_STATE_OFFLINE
          /\ lights'[k].state = NODE_STATE_OFFLINE)
         => cmds[lights[k].id] = LIGHT_TIME_LEFT]_vars

(* Every run of analyse_light_state ends: the scan goes around the light  *)
(* list at most once and data_proc returns to its message queue.          *)
ScanTerminates == scan.active ~> ~scan.active

(* A light frame registers (or refreshes) its id as a new device exactly  *)
(* when the id is not in the light list (insert_new_device after the      *)
(* LIGHT_HEART_BEAT / LIGHT_RESPONSE loop).                                *)
LightRegistration ==
    lastFrame.id # NoId => (lastFrame.inserted <=> ~lastFrame.listed)

====
