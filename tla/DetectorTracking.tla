-------------------------- MODULE DetectorTracking --------------------------
(***************************************************************************)
(* The detector state machine of the data process thread                  *)
(* (thread_data_process.c): what the engine does with a detector's        *)
(* heartbeat (analyze_lora_pkt + refresh_detector_info), restart notice   *)
(* (LORA_CMD_NODE_ONLINE), enter-config notice (LORA_CMD_NODE_ENTER_CFG)  *)
(* and the connectivity sweep (check_lora_node_connect), driven by a      *)
(* detector node whose frames may be lost, lost in long bursts,           *)
(* retransmitted, and which may reboot with or without its restart notice *)
(* reaching the concentrator.                                             *)
(*                                                                         *)
(* Each engine handler is one atomic step: the data process thread is the *)
(* only writer of these fields and runs a message to completion.          *)
(* Ghost variables record what really happened on air, so that the       *)
(* statistics the engine derives can be compared with it.                 *)
(***************************************************************************)
EXTENDS Integers, FiniteSets, Adr

CONSTANTS
    Detectors,      \* detector ids known from the sensor list file
    ParkStates,     \* parking bits a heartbeat may carry (0 free, 1 occupied)
    Batteries,      \* battery readings a heartbeat may carry (half-volt units)
    Bursts,         \* lengths of runs of consecutive lost heartbeats
    BootCnts,       \* frame counter value of a node right after it boots
    MaxNodeEvents   \* bound on node transmissions

ASSUME /\ ParkStates \subseteq {0, 1}
       /\ Batteries \subseteq 0..255
       /\ Bursts \subseteq Nat \ {0}
       /\ BootCnts \subseteq 0..255
       /\ MaxNodeEvents \in Nat

\* Literals of the code (wnc_data_base.h, thread_data_process.c).
NODE_STATE_OFFLINE == 251
CNT_MOD            == 256   \* the node's frame counter is an unsigned char
OFFLINE_INTERVAL   == 35    \* check_lora_node_connect threshold
BATTERY_FLOOR      == 90    \* below 1.8 V a reading is taken as corrupt
MAX_RESEND         == 3     \* a node resends an unacknowledged frame <= 3 times

VARIABLES
    det,        \* det[d]: the engine's single_detector_info record of d
    node,       \* node[d]: the detector node's own state (environment)
    ghost,      \* ghost[d]: what really happened on air (history)
    nodeEvents  \* number of node transmissions so far

vars == <<det, node, ghost, nodeEvents>>

-----------------------------------------------------------------------------
(* The engine's record, as left by read_sensor_list_flie: zeroed, and the  *)
(* parking state set to NODE_STATE_OFFLINE.                                *)
InitialRecord ==
    [state |-> NODE_STATE_OFFLINE, cnt |-> 0, recvPackFlag |-> FALSE,
     firstCnt |-> 0, rounds |-> 0, absRecvNum |-> 0, missSendNum |-> 0,
     missRecvNum |-> 0, recvNum |-> 0, sendNum |-> 0, sendNumBefore |-> 0,
     resetTime |-> 0, offlineTime |-> 0, interval |-> 0,
     isParkStateChanged |-> FALSE, changeTime |-> 0, isInConfig |-> FALSE,
     battery |-> 0, lowestPower |-> 0, cPtr |-> 0]

(* Mutants of MissedFrames: the wrap branch forgets the counter modulus,   *)
(* or is missing altogether.                                              *)
MissedFramesNoModulus(last, c) ==
    CASE c < last /\ c + CNT_MOD > last + 1 -> c - last - 1
      [] c > last + 1                       -> c - last - 1
      [] OTHER                              -> 0
MissedFrames(last, c) ==
    CASE c < last /\ c + CNT_MOD > last + 1 -> c + CNT_MOD - last - 1
      [] c > last + 1                       -> c - last - 1
      [] OTHER                              -> 0

(* The unsigned int fields first_cnt, send_num and                        *)
(* send_num_before_this_time are computed modulo 2^32.  Each is held as    *)
(* the integer of least magnitude congruent to it (its two's-complement    *)
(* reading): cnt - 1 at cnt = 0 is -1, i.e. 2^32 - 1.  Within the model's *)
(* bounds no magnitude nears 2^31, so + and - on these representatives are *)
(* exact modulo 2^32; UGeq compares two of them as unsigned numbers.       *)
UGeq(a, b) == IF (a < 0) = (b < 0) THEN a >= b ELSE a < 0

(* Mutant of CountFrame: a counter wrap does not advance the round count. *)
CountFrameNoRounds(r, c) ==
    IF ~r.recvPackFlag
    THEN [r EXCEPT !.recvPackFlag = TRUE, !.firstCnt = c - 1,
                   !.absRecvNum = @ + 1]
    ELSE [r EXCEPT !.missRecvNum = @ + MissedFrames(r.cnt, c),
                   !.missSendNum = IF c = r.cnt THEN @ + 1 ELSE @,
                   !.absRecvNum  = IF c = r.cnt THEN @ ELSE @ + 1]

(* The frame-counter bookkeeping of refresh_detector_info.                 *)
CountFrame(r, c) ==
    IF ~r.recvPackFlag
    THEN [r EXCEPT !.recvPackFlag = TRUE, !.firstCnt = c - 1,
                   !.absRecvNum = @ + 1]
    ELSE [r EXCEPT !.missRecvNum = @ + MissedFrames(r.cnt, c),
                   !.missSendNum = IF c = r.cnt THEN @ + 1 ELSE @,
                   !.absRecvNum  = IF c = r.cnt THEN @ ELSE @ + 1,
                   !.rounds      = IF c < r.cnt THEN @ + 1 ELSE @]

(* The battery rule: a reading below the plausibility floor is logged and  *)
(* never becomes the lowest known power.                                   *)
LowestPower(r, b) ==
    IF (b < r.lowestPower \/ r.lowestPower = 0) /\ b >= BATTERY_FLOOR
    THEN b ELSE r.lowestPower

(* Mutant of refresh_detector_info: the silence counter is not reset.    *)
RefreshKeepsInterval(r, f) ==
    LET s == CountFrame(r, f.cnt)
    IN [s EXCEPT !.recvNum            = @ + 1,
                 !.isParkStateChanged = IF f.state # r.state THEN TRUE ELSE @,
                 !.changeTime         = IF f.state # r.state THEN @ + 1 ELSE @,
                 !.state              = f.state,
                 !.battery            = f.battery,
                 !.lowestPower        = LowestPower(r, f.battery),
                 !.cnt                = f.cnt,
                 !.sendNum            = s.sendNumBefore + CNT_MOD * s.rounds
                                          + f.cnt - s.firstCnt]

refresh_detector_info(r, f) ==
    LET s == CountFrame(r, f.cnt)
    IN [s EXCEPT !.recvNum            = @ + 1,
                 !.isParkStateChanged = IF f.state # r.state THEN TRUE ELSE @,
                 !.changeTime         = IF f.state # r.state THEN @ + 1 ELSE @,
                 !.state              = f.state,
                 !.battery            = f.battery,
                 !.lowestPower        = LowestPower(r, f.battery),
                 !.cnt                = f.cnt,
                 !.interval           = 0,
                 !.sendNum            = s.sendNumBefore + CNT_MOD * s.rounds
                                          + f.cnt - s.firstCnt]

(* The part of adr_control that changes this record's control state: the  *)
(* sample cursor (the samples and the decision are the Adr module's).     *)
AdvanceSampleCursor(r) == [r EXCEPT !.cPtr = NextCPtr(@)]

(* A heartbeat from a listed detector: adr_control, the response frame,   *)
(* leaving configuration mode, then refresh_detector_info.                *)
DetectorHeartbeat(r, f) ==
    refresh_detector_info([AdvanceSampleCursor(r) EXCEPT !.isInConfig = FALSE], f)

(* LORA_CMD_NODE_ONLINE: fold the progress into send_num_before_this_time *)
(* and start counting afresh.                                             *)
NodeOnline(r) ==
    [r EXCEPT !.sendNumBefore  = @ + r.rounds * CNT_MOD + r.cnt - r.firstCnt,
              !.rounds         = 0,
              !.recvPackFlag   = FALSE,
              !.resetTime      = @ + 1]

(* LORA_CMD_NODE_ENTER_CFG. *)
NodeEnterCfg(r) == [r EXCEPT !.isInConfig = TRUE]

(* Mutant of CheckConnect: the threshold compared with <= instead of <.   *)
CheckConnectLe(r) ==
    IF r.state = NODE_STATE_OFFLINE THEN r
    ELSE IF r.interval <= OFFLINE_INTERVAL
         THEN [r EXCEPT !.interval = @ + 1]
         ELSE [r EXCEPT !.state = NODE_STATE_OFFLINE, !.offlineTime = @ + 1]

(* check_lora_node_connect, detector part, for one record. *)
CheckConnect(r) ==
    IF r.state = NODE_STATE_OFFLINE THEN r
    ELSE IF r.interval < OFFLINE_INTERVAL
         THEN [r EXCEPT !.interval = @ + 1]
         ELSE [r EXCEPT !.state = NODE_STATE_OFFLINE, !.offlineTime = @ + 1]

-----------------------------------------------------------------------------
(* Ghost bookkeeping of the air interface.                                 *)
(*   heard    : a heartbeat of this node was ever delivered                *)
(*   tracked  : a heartbeat was delivered since the last announced reboot  *)
(*   gap      : heartbeats lost since the last delivered one               *)
(*   lost, dups, distinct : lost (while tracked), duplicate and first      *)
(*              deliveries of heartbeats                                   *)
(*   silent   : connectivity ticks since the last delivered heartbeat,     *)
(*              counted up to OFFLINE_INTERVAL + 1                         *)
(*   anomaly  : a run of >= 255 lost heartbeats, or a reboot the engine    *)
(*              was not told of, while the node was tracked               *)
InitialGhost ==
    [heard |-> FALSE, tracked |-> FALSE, gap |-> 0, lost |-> 0, dups |-> 0,
     distinct |-> 0, silent |-> 0, anomaly |-> FALSE]

(* A node's last frame: "none", "hb" (heartbeat), "online", "cfg" or     *)
(* "burst" (the last of a lost run, never resent).                        *)
InitialNode(c) ==
    [cnt |-> c, last |-> "none", lastDelivered |-> FALSE, resends |-> 0,
     frame |-> [cnt |-> c, state |-> 0, battery |-> 0]]

(* The previous heartbeat is definitively lost when the node moves on.    *)
Abandoned(n) == IF n.last = "hb" /\ ~n.lastDelivered THEN 1 ELSE 0

(* Ghost update for the delivery of a heartbeat that was not delivered    *)
(* before.                                                                 *)
FirstDelivery(g) ==
    [g EXCEPT !.heard    = TRUE,
              !.tracked  = TRUE,
              !.lost     = IF g.tracked THEN @ + g.gap ELSE @,
              !.anomaly  = @ \/ (g.tracked /\ g.gap >= CNT_MOD - 1),
              !.gap      = 0,
              !.distinct = @ + 1,
              !.silent   = 0]

-----------------------------------------------------------------------------
Init ==
    /\ det   = [d \in Detectors |-> InitialRecord]
    /\ node  \in [Detectors -> {InitialNode(c) : c \in BootCnts}]
    /\ ghost = [d \in Detectors |-> InitialGhost]
    /\ nodeEvents = 0

NodeTransmits == nodeEvents < MaxNodeEvents /\ nodeEvents' = nodeEvents + 1

(* Node d sends its next heartbeat; it reaches the engine or is lost.     *)
SendHeartbeat(d, s, b, delivered) ==
    LET n == node[d]
        f == [cnt |-> (n.cnt + 1) % CNT_MOD, state |-> s, battery |-> b]
        g == [ghost[d] EXCEPT !.gap = @ + Abandoned(n)]
    IN /\ NodeTransmits
       /\ node' = [node EXCEPT ![d] = [cnt |-> f.cnt, last |-> "hb",
                     lastDelivered |-> delivered, resends |-> 0, frame |-> f]]
       /\ IF delivered
          THEN /\ det' = [det EXCEPT ![d] = DetectorHeartbeat(@, f)]
               /\ ghost' = [ghost EXCEPT ![d] = FirstDelivery(g)]
          ELSE /\ ghost' = [ghost EXCEPT ![d] = g]
               /\ UNCHANGED det

(* Node d resends its last, unacknowledged frame and it is delivered      *)
(* (the ack of a delivered heartbeat may itself have been lost).          *)
Retransmit(d) ==
    LET n == node[d]
    IN /\ NodeTransmits
       /\ n.last \in {"hb", "online"}
       /\ n.resends < MAX_RESEND
       /\ node' = [node EXCEPT ![d].resends = @ + 1, ![d].lastDelivered = TRUE]
       /\ IF n.last = "hb"
          THEN /\ det' = [det EXCEPT ![d] = DetectorHeartbeat(@, n.frame)]
               /\ ghost' = [ghost EXCEPT ![d] =
                              IF n.lastDelivered
                              THEN [@ EXCEPT !.dups = @ + 1, !.silent = 0]
                              ELSE FirstDelivery(@)]
          ELSE /\ det' = [det EXCEPT ![d] = NodeOnline(@)]
               /\ ghost' = [ghost EXCEPT ![d].tracked = FALSE, ![d].gap = 0]

(* Node d sends k heartbeats in a row and none of them is received.       *)
LoseBurst(d, k) ==
    LET n == node[d]
    IN /\ NodeTransmits
       /\ node' = [node EXCEPT ![d].cnt = (n.cnt + k) % CNT_MOD,
                               ![d].last = "burst", ![d].lastDelivered = FALSE]
       /\ ghost' = [ghost EXCEPT ![d].gap = @ + Abandoned(n) + k]
       /\ UNCHANGED det

(* Node d reboots and sends its restart notice, which is delivered or not. *)
Reboot(d, c, announced) ==
    /\ NodeTransmits
    /\ node' = [node EXCEPT ![d] = [InitialNode(c) EXCEPT !.last = "online",
                                      !.lastDelivered = announced]]
    /\ IF announced
       THEN /\ det' = [det EXCEPT ![d] = NodeOnline(@)]
            /\ ghost' = [ghost EXCEPT ![d].tracked = FALSE, ![d].gap = 0]
       ELSE /\ ghost' = [ghost EXCEPT ![d].anomaly = @ \/ ghost[d].tracked]
            /\ UNCHANGED det

(* Node d reports that it entered local configuration. *)
EnterConfig(d) ==
    /\ NodeTransmits
    /\ node' = [node EXCEPT ![d].last = "cfg", ![d].lastDelivered = TRUE,
                            ![d].resends = 0]
    /\ ghost' = [ghost EXCEPT ![d].gap = @ + Abandoned(node[d])]
    /\ det' = [det EXCEPT ![d] = NodeEnterCfg(@)]

(* The dev_connect timer fires: check_lora_node_connect.  The timer runs  *)
(* forever; once every detector is offline a tick changes nothing.        *)
ConnectCheck ==
    /\ det' = [d \in Detectors |-> CheckConnect(det[d])]
    /\ ghost' = [d \in Detectors |->
                    [ghost[d] EXCEPT !.silent = IF @ > OFFLINE_INTERVAL
                                                THEN @ ELSE @ + 1]]
    /\ UNCHANGED <<node, nodeEvents>>

Next ==
    \/ \E d \in Detectors, s \in ParkStates, b \in Batteries, x \in BOOLEAN :
          SendHeartbeat(d, s, b, x)
    \/ \E d \in Detectors : Retransmit(d)
    \/ \E d \in Detectors, k \in Bursts : LoseBurst(d, k)
    \/ \E d \in Detectors, c \in BootCnts, x \in BOOLEAN : Reboot(d, c, x)
    \/ \E d \in Detectors : EnterConfig(d)
    \/ ConnectCheck

Spec == Init /\ [][Next]_vars

-----------------------------------------------------------------------------
TypeOK ==
    /\ \A d \in Detectors :
         /\ det[d].state \in {0, 1, NODE_STATE_OFFLINE}
         /\ det[d].cnt \in 0..CNT_MOD - 1
         /\ det[d].firstCnt \in -1..CNT_MOD - 1
         /\ det[d].interval \in 0..OFFLINE_INTERVAL
         /\ det[d].cPtr \in 0..MAX_AVG_NUM - 1
         /\ det[d].recvPackFlag \in BOOLEAN
         /\ {det[d].rounds, det[d].absRecvNum, det[d].missSendNum,
             det[d].missRecvNum, det[d].recvNum} \subseteq Nat
         /\ {det[d].sendNum, det[d].sendNumBefore} \subseteq Int
         /\ node[d].cnt \in 0..CNT_MOD - 1
    /\ nodeEvents \in 0..MaxNodeEvents

SendNumNeverDecreases ==
    [][\A d \in Detectors : UGeq(det'[d].sendNum, det[d].sendNum)]_det

(* check_lora_node_connect marks a detector offline exactly when no       *)
(* heartbeat of it was received during the last OFFLINE_INTERVAL + 1      *)
(* ticks (or none ever): restart and enter-config notices do not count as *)
(* contact, and an offline detector comes back with its next heartbeat.   *)
OfflineExactlyWhenSilent ==
    \A d \in Detectors :
        (det[d].state = NODE_STATE_OFFLINE)
            <=> (~ghost[d].heard \/ ghost[d].silent > OFFLINE_INTERVAL)

(* send_num, the total-sent estimate, equals the heartbeats the detector  *)
(* sent from the first one received after each restart (those received    *)
(* plus those lost), unless a long loss run or unannounced reboot hid     *)
(* frames from the 8-bit counter.                                         *)
SendNumMatchesAirHistory ==
    \A d \in Detectors :
        (~ghost[d].anomaly /\ ghost[d].tracked) =>
            det[d].sendNum = ghost[d].distinct + ghost[d].lost


\* The window adr_control averages on a heartbeat holds exactly the samples
\* of the detector's last min(MAX_AVG_NUM, seen) heartbeats: c_ptr, which
\* adr_control advances and wraps, and recv_num, which refresh_detector_info
\* counts, stay in step across the wrap (Adr's WindowIsRecent, checked on
\* every step over every heartbeat sequence up to MaxAdrSamples).
AdrWindowIsRecent == [][WindowIsRecent]_vars

\* adr_control raises a detector's data rate exactly when the packet and
\* the true means of its window pass the table (Adr's DecisionMatchesMean;
\* the int8 sum of the SNR samples breaks it, see AdrSnrWrap.cfg).
AdrDecisionMatchesMean == [][DecisionMatchesMean]_vars

\* need_write_to_log judges a detector's link by its latest sample (Adr's
\* LoraReasonOnLatest; the read one past c_snr[] breaks it, see
\* AdrLatestSample.cfg).
AdrLoraReasonOnLatest == [][LoraReasonOnLatest]_vars

=============================================================================
