---------------------------- MODULE WorkStateLog ----------------------------
(***************************************************************************)
(* The hourly work-state report (work_state_log.c) against the data        *)
(* process thread that updates what it reports. Every hour the sysctrl     *)
(* thread runs work_state_time_period: it writes the header and the event  *)
(* counts of g_work_state, then for each detector decides with             *)
(* need_write_to_log whether to write a line, moves the detector's last_*  *)
(* marks up to its counters and clears change_time, and finally clears the *)
(* event counts. data_proc (priority 9) preempts sysctrl (priority 23) at  *)
(* any point: a heartbeat adds to the counters (refresh_detector_info),    *)
(* check_lora_node_connect takes a detector offline and counts the event,  *)
(* a restart notice counts a reset. Each of data_proc's handlers and each  *)
(* log_write-separated stretch of the report is one step. Ghost variables  *)
(* count what happened, so that what the log says can be compared with it. *)
(***************************************************************************)
EXTENDS Naturals

CONSTANTS
    N,              \* detectors in g_detector_info_list, indexed 1..N
    Frames,         \* heartbeats: [st, r, s, m, lp, lb], see Heartbeat
    MaxDataEvents   \* bound on data_proc's steps

Detectors == 1..N
OFFLINE   == 251        \* NODE_STATE_OFFLINE; a parking state is 0 or 1
Events    == {"EVENT_DETECTOR_OFFLINE", "EVENT_DETECTOR_RESTART"}
Reasons   == {"REASON_NOT_WRITE", "REASON_RESEND", "REASON_SEND",
              "REASON_MISS_FRAME", "REASON_OFFLINE", "REASON_RESET",
              "REASON_CHANGE", "REASON_POWER", "REASON_LORA"}

VARIABLES
    det,        \* det[j]: the fields of detector_info[j] the report reads or writes
    events,     \* g_work_state.events
    sys,        \* where work_state_time_period is: "idle", "examine", "settle", "clear"
    j,          \* its loop index
    logged,     \* logged[j]: the reason written for detector j in this period
    reported,   \* ghost: events the log has counted, per event type
    added,      \* ghost: events work_state_log_add_event counted, per type
    dataEvents

vars == <<det, events, sys, j, logged, reported, added, dataEvents>>

InitialDetector ==
    [state |-> OFFLINE, resend |-> 0, send |-> 0, miss |-> 0,
     offline |-> 0, reset |-> 0, change |-> 0, lowPower |-> FALSE,
     loraBad |-> FALSE, last_resend |-> 0, last_send |-> 0, last_miss |-> 0,
     last_offline |-> 0, last_reset |-> 0]

Init ==
    /\ det = [d \in Detectors |-> InitialDetector]
    /\ events = [e \in Events |-> 0]
    /\ sys = "idle"
    /\ j = 1
    /\ logged = [d \in Detectors |-> "REASON_NOT_WRITE"]
    /\ reported = [e \in Events |-> 0]
    /\ added = [e \in Events |-> 0]
    /\ dataEvents = 0

\* need_write_to_log(index): the first reason that applies, in the code's
\* order. The REASON_RESET test repeats the offline test's second half, so
\* it is reached only when that half is false and is never taken.
need_write_to_log(r) ==
    IF r.resend - r.last_resend > 10 THEN "REASON_RESEND"
    ELSE IF r.send - r.last_send > 12 THEN "REASON_SEND"
    ELSE IF r.last_miss # r.miss THEN "REASON_MISS_FRAME"
    ELSE IF r.state = OFFLINE \/ r.last_offline # r.offline THEN "REASON_OFFLINE"
    ELSE IF r.last_offline # r.offline THEN "REASON_RESET"
    ELSE IF r.change > 10 THEN "REASON_CHANGE"
    ELSE IF r.lowPower THEN "REASON_POWER"
    ELSE IF r.loraBad THEN "REASON_LORA"
    ELSE "REASON_NOT_WRITE"

-----------------------------------------------------------------------------
(* data_proc's handlers.                                                    *)

DataStep == dataEvents < MaxDataEvents /\ dataEvents' = dataEvents + 1

\* work_state_log_add_event(event): event is always a valid type here.
work_state_log_add_event(e) ==
    /\ events' = [events EXCEPT ![e] = @ + 1]
    /\ added' = [added EXCEPT ![e] = @ + 1]

\* A heartbeat through refresh_detector_info: a new parking state counts a
\* change (coming back from offline included), the resend counts and
\* send_num grow, lost frames add to miss_recv_num, a low battery reading
\* lowers lowest_power, and the frame's data rate and link quality become
\* the latest sample.
\* A frame f carries the parking state st, r weighted resends (resend1 +
\* 2 resend2 + 3 resend3), s new frames of send_num, m lost frames, whether
\* its battery is low (lp) and whether its link is poor (lb).
Heartbeat(d, f) ==
    /\ DataStep
    /\ det' = [det EXCEPT ![d] =
                 [@ EXCEPT !.change = @ + (IF f.st # det[d].state THEN 1 ELSE 0),
                           !.state = f.st, !.resend = @ + f.r, !.send = @ + f.s,
                           !.miss = @ + f.m, !.lowPower = @ \/ f.lp,
                           !.loraBad = f.lb]]
    /\ UNCHANGED <<events, sys, j, logged, reported, added>>

\* check_lora_node_connect finds an online detector silent for too long.
GoOffline(d) ==
    /\ DataStep
    /\ det[d].state # OFFLINE
    /\ work_state_log_add_event("EVENT_DETECTOR_OFFLINE")
    /\ det' = [det EXCEPT ![d].state = OFFLINE, ![d].offline = @ + 1]
    /\ UNCHANGED <<sys, j, logged, reported>>

\* LORA_CMD_NODE_ONLINE: the detector announces a restart.
NodeRestart(d) ==
    /\ DataStep
    /\ work_state_log_add_event("EVENT_DETECTOR_RESTART")
    /\ det' = [det EXCEPT ![d].reset = @ + 1]
    /\ UNCHANGED <<sys, j, logged, reported>>

-----------------------------------------------------------------------------
(* work_state_time_period, run by sysctrl when timer_cnt reaches a whole   *)
(* hour.                                                                    *)

\* The header lines and the two event counts.
PeriodStart ==
    /\ sys = "idle"
    /\ reported' = [e \in Events |-> reported[e] + events[e]]
    /\ logged' = [d \in Detectors |-> "REASON_NOT_WRITE"]
    /\ sys' = "examine"
    /\ j' = 1
    /\ UNCHANGED <<det, events, added, dataEvents>>

\* need_write_to_log(j) and, when it gives a reason, the detector's line.
Examine ==
    /\ sys = "examine"
    /\ logged' = [logged EXCEPT ![j] = need_write_to_log(det[j])]
    /\ sys' = "settle"
    /\ UNCHANGED <<det, events, j, reported, added, dataEvents>>

\* The last_* marks move up to the counters as they are now, change_time is
\* cleared, and the loop goes on.
SettleMarks(r) ==
    [r EXCEPT !.last_resend = r.resend, !.last_send = r.send,
              !.last_miss = r.miss, !.last_offline = r.offline,
              !.last_reset = r.reset, !.change = 0]

\* Mutant: the loop runs one index past the list.
SettleLoopPastEnd ==
    /\ sys = "settle"
    /\ det' = [det EXCEPT ![j] = SettleMarks(@)]
    /\ IF j <= N THEN sys' = "examine" /\ j' = j + 1
                 ELSE sys' = "clear" /\ UNCHANGED j
    /\ UNCHANGED <<events, logged, reported, added, dataEvents>>

Settle ==
    /\ sys = "settle"
    /\ det' = [det EXCEPT ![j] = SettleMarks(@)]
    /\ IF j < N THEN sys' = "examine" /\ j' = j + 1
                ELSE sys' = "clear" /\ UNCHANGED j
    /\ UNCHANGED <<events, logged, reported, added, dataEvents>>

\* The event counts are cleared for the next period.
ClearEvents ==
    /\ sys = "clear"
    /\ events' = [e \in Events |-> 0]
    /\ sys' = "idle"
    /\ UNCHANGED <<det, j, logged, reported, added, dataEvents>>

Next ==
    \/ \E d \in Detectors, f \in Frames : Heartbeat(d, f)
    \/ \E d \in Detectors : GoOffline(d) \/ NodeRestart(d)
    \/ PeriodStart \/ Examine \/ Settle \/ ClearEvents

Spec == Init /\ [][Next]_vars

-----------------------------------------------------------------------------
(* Properties.                                                              *)

Counts == 0..MaxDataEvents * 20

TypeOK ==
    /\ det \in [Detectors -> [state : {0, 1, OFFLINE}, resend : Counts,
                              send : Counts, miss : Counts, offline : Counts,
                              reset : Counts, change : Counts,
                              lowPower : BOOLEAN, loraBad : BOOLEAN,
                              last_resend : Counts, last_send : Counts,
                              last_miss : Counts, last_offline : Counts,
                              last_reset : Counts]]
    /\ events \in [Events -> Counts]
    /\ sys \in {"idle", "examine", "settle", "clear"}
    /\ j \in Detectors
    /\ logged \in [Detectors -> Reasons]
    /\ reported \in [Events -> Counts]
    /\ added \in [Events -> Counts]
    /\ dataEvents \in 0..MaxDataEvents

\* Every offline and restart event work_state_log_add_event counts appears
\* in exactly one hourly report: outside a report, the counts written so
\* far and the counts pending make up all events.
EventsNeverLost ==
    sys = "idle" => \A e \in Events : reported[e] + events[e] = added[e]

\* A detector that announced a restart since its last report line is
\* written in the next report (the log has a "reset" reason and a reset
\* column for it).
RestartLogged ==
    [][Examine /\ det[j].reset # det[j].last_reset
         => logged'[j] # "REASON_NOT_WRITE"]_vars
====
