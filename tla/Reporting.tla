----------------------------- MODULE Reporting -----------------------------
(***************************************************************************)
(* The UDP status report (thread_udp.c) and the data-process writes it    *)
(* races (thread_data_process.c).                                          *)
(*                                                                         *)
(* Every 10 s the UDP client (priority 12) fills a report with the        *)
(* detectors whose is_park_state_changed is set (all of them when the     *)
(* 15-minute timer has set send_all), clearing each flag after copying    *)
(* the state, then the new devices with time_left > 0, decrementing it.   *)
(* It takes no lock. data_proc (priority 9) preempts it at any point and  *)
(* runs its handlers to the end, so the fill is a sequence of steps and   *)
(* each data_proc handler one step between them. The timer callback runs  *)
(* in interrupt context and may fire between any two steps.               *)
(***************************************************************************)
EXTENDS Integers, Sequences, FiniteSets

CONSTANTS
    Detectors,      \* listed detectors, in list order (a sequence)
    ParkStates,     \* parking states a heartbeat reports
    NewIds,         \* ids of unlisted nodes
    MaxEvents       \* bound on data_proc's handler runs

NODE_STATE_OFFLINE      == 251
NEW_DEVICE_REPORT_TIMES == 3
MAX_NODE_NUM_IN_UDP     == 80
MAX_NODE_WHOLE_PARKING_LOT == 1024
NoState == 0 - 1    \* nothing reported yet

DetIdx == 1..Len(Detectors)

VARIABLES
    state,        \* state[i]: g_detector_info_list.detector_info[i].state
    changed,      \* changed[i]: its is_park_state_changed
    newNodes,     \* g_new_node_list: a sequence of [id, time_left]
    send_all,     \* set by the 15-minute timer, cleared by the fill
    udp,          \* the fill in progress: pc, loop index i, node count,
                  \* the states copied and the time_left loaded
    reported,     \* reported[i]: the state the last report sent carried
    unreported,   \* unreported[i]: a change data_proc made that no fill
                  \* has copied yet
    events        \* data_proc handler runs so far

vars == <<state, changed, newNodes, send_all, udp, reported, unreported, events>>

IdleFill == [pc |-> "idle", i |-> 1, num |-> 0,
             buf |-> [k \in DetIdx |-> NoState], tl |-> 0]

Init ==
    /\ state \in [DetIdx -> ParkStates]
    /\ changed = [k \in DetIdx |-> FALSE]
    /\ newNodes = <<>>
    /\ send_all = 0
    /\ udp = IdleFill
    /\ reported = [k \in DetIdx |-> NoState]
    /\ unreported = [k \in DetIdx |-> FALSE]
    /\ events = 0

-----------------------------------------------------------------------------
(* data_proc's writers.                                                    *)

DataProc == events < MaxEvents /\ events' = events + 1

\* The end of refresh_detector_info: a state that differs from the stored
\* one raises is_park_state_changed (change_time and the log line are left
\* out), then the state is stored.
DetectorHeartbeat(k, s) ==
    /\ DataProc
    /\ s # state[k]
    /\ changed' = [changed EXCEPT ![k] = TRUE]
    /\ state' = [state EXCEPT ![k] = s]
    /\ unreported' = [unreported EXCEPT ![k] = TRUE]
    /\ UNCHANGED <<newNodes, send_all, udp, reported>>

\* check_lora_node_connect after 35 silent sweeps: the state becomes
\* NODE_STATE_OFFLINE and is_park_state_changed is left alone.
DetectorOffline(k) ==
    /\ DataProc
    /\ state[k] # NODE_STATE_OFFLINE
    /\ state' = [state EXCEPT ![k] = NODE_STATE_OFFLINE]
    /\ UNCHANGED <<changed, newNodes, send_all, udp, reported, unreported>>

\* insert_new_device: refresh time_left of a known id, or append the id.
insert_new_device(x) ==
    /\ DataProc
    /\ LET at == {j \in DOMAIN newNodes : newNodes[j].id = x}
       IN newNodes' =
            IF at # {}
            THEN [j \in DOMAIN newNodes |->
                    IF j \in at THEN [newNodes[j] EXCEPT !.time_left = NEW_DEVICE_REPORT_TIMES]
                    ELSE newNodes[j]]
            ELSE IF Len(newNodes) < MAX_NODE_WHOLE_PARKING_LOT
                 THEN Append(newNodes, [id |-> x, time_left |-> NEW_DEVICE_REPORT_TIMES])
                 ELSE newNodes
    /\ UNCHANGED <<state, changed, send_all, udp, reported, unreported>>

\* callback_timer_udp.
callback_timer_udp ==
    /\ send_all = 0
    /\ send_all' = 1
    /\ UNCHANGED <<state, changed, newNodes, udp, reported, unreported, events>>

-----------------------------------------------------------------------------
(* fill_udp_buffer, one step per place where data_proc's preemption       *)
(* matters, and the send that follows it in thread_udp_client.            *)

\* The loop head: the buffer is cleared and the header written.
FillStart ==
    /\ udp.pc = "idle"
    /\ udp' = [IdleFill EXCEPT !.pc = "det"]
    /\ UNCHANGED <<state, changed, newNodes, send_all, reported, unreported, events>>

\* Mutant: the detector loop ignores send_all.
FillDetectorChangedOnly ==
    /\ udp.pc = "det" /\ udp.i \in DetIdx
    /\ LET k == udp.i IN
       IF udp.num >= MAX_NODE_NUM_IN_UDP
       THEN udp' = [udp EXCEPT !.pc = "new", !.i = 1] /\ UNCHANGED unreported
       ELSE IF changed[k]
       THEN /\ udp' = [udp EXCEPT !.pc = "clear", !.num = @ + 1, !.buf[k] = state[k]]
            /\ unreported' = [unreported EXCEPT ![k] = FALSE]
       ELSE udp' = [udp EXCEPT !.i = @ + 1] /\ UNCHANGED unreported
    /\ UNCHANGED <<state, changed, newNodes, send_all, reported, events>>

\* One detector of the loop up to the copy of its fields: a full report
\* ends the loop; a detector with send_all or its flag set is copied.
FillDetector ==
    /\ udp.pc = "det" /\ udp.i \in DetIdx
    /\ LET k == udp.i IN
       IF udp.num >= MAX_NODE_NUM_IN_UDP
       THEN udp' = [udp EXCEPT !.pc = "new", !.i = 1] /\ UNCHANGED unreported
       ELSE IF send_all = 1 \/ changed[k]
       THEN /\ udp' = [udp EXCEPT !.pc = "clear", !.num = @ + 1, !.buf[k] = state[k]]
            /\ unreported' = [unreported EXCEPT ![k] = FALSE]
       ELSE udp' = [udp EXCEPT !.i = @ + 1] /\ UNCHANGED unreported
    /\ UNCHANGED <<state, changed, newNodes, send_all, reported, events>>

\* The last statement of the copy: is_park_state_changed = 0.
FillClear ==
    /\ udp.pc = "clear"
    /\ changed' = [changed EXCEPT ![udp.i] = FALSE]
    /\ udp' = [udp EXCEPT !.pc = "det", !.i = @ + 1]
    /\ UNCHANGED <<state, newNodes, send_all, reported, unreported, events>>

\* After the detectors, the light loop, which only reads (its entries
\* count towards MAX_NODE_NUM_IN_UDP; the model's lists never reach it).
FillLights ==
    /\ udp.pc = "det" /\ udp.i \notin DetIdx
    /\ udp' = [udp EXCEPT !.pc = "new", !.i = 1]
    /\ UNCHANGED <<state, changed, newNodes, send_all, reported, unreported, events>>

\* Mutant: the time_left test is dropped.
FillNewNodeNoCheck ==
    /\ udp.pc = "new" /\ udp.i \in DOMAIN newNodes
    /\ IF udp.num >= MAX_NODE_NUM_IN_UDP
       THEN udp' = [udp EXCEPT !.pc = "end"]
       ELSE udp' = [udp EXCEPT !.pc = "store", !.num = @ + 1,
                               !.tl = newNodes[udp.i].time_left]
    /\ UNCHANGED <<state, changed, newNodes, send_all, reported, unreported, events>>

\* One new device: if time_left is not 0 it is copied and time_left is
\* loaded for the decrement.
FillNewNode ==
    /\ udp.pc = "new" /\ udp.i \in DOMAIN newNodes
    /\ IF udp.num >= MAX_NODE_NUM_IN_UDP
       THEN udp' = [udp EXCEPT !.pc = "end"]
       ELSE IF newNodes[udp.i].time_left # 0
       THEN udp' = [udp EXCEPT !.pc = "store", !.num = @ + 1,
                               !.tl = newNodes[udp.i].time_left]
       ELSE udp' = [udp EXCEPT !.i = @ + 1]
    /\ UNCHANGED <<state, changed, newNodes, send_all, reported, unreported, events>>

\* The store of time_left--: the value loaded, minus one.
FillStoreTimeLeft ==
    /\ udp.pc = "store"
    /\ newNodes' = [newNodes EXCEPT ![udp.i].time_left = udp.tl - 1]
    /\ udp' = [udp EXCEPT !.pc = "new", !.i = @ + 1]
    /\ UNCHANGED <<state, changed, send_all, reported, unreported, events>>

\* send_all = 0 ends the fill; the report is sent and the thread sleeps.
FillEnd ==
    /\ \/ udp.pc = "end"
       \/ udp.pc = "new" /\ udp.i \notin DOMAIN newNodes
    /\ send_all' = 0
    /\ reported' = [k \in DetIdx |-> IF udp.buf[k] # NoState THEN udp.buf[k]
                                     ELSE reported[k]]
    /\ udp' = IdleFill
    /\ UNCHANGED <<state, changed, newNodes, unreported, events>>

UdpStep == FillStart \/ FillDetector \/ FillClear \/ FillLights \/ FillNewNode
           \/ FillStoreTimeLeft \/ FillEnd

Next ==
    \/ \E k \in DetIdx : \/ \E s \in ParkStates : DetectorHeartbeat(k, s)
                         \/ DetectorOffline(k)
    \/ \E x \in NewIds : insert_new_device(x)
    \/ callback_timer_udp
    \/ UdpStep

\* The timer firing while the UDP thread sleeps between two reports.
TimerWhileIdle == udp.pc = "idle" /\ callback_timer_udp

\* The UDP client is the only runnable thread once data_proc's bounded work
\* is done. The 15-minute timer may fire in the middle of a fill, but a
\* fill takes milliseconds of a 10-second period and the two periods
\* drift, so the timer fires infinitely often while the thread sleeps.
Spec == Init /\ [][Next]_vars /\ WF_vars(UdpStep) /\ SF_vars(TimerWhileIdle)

-----------------------------------------------------------------------------
(* Properties.                                                             *)

States == ParkStates \cup {NODE_STATE_OFFLINE}

TypeOK ==
    /\ state \in [DetIdx -> States]
    /\ changed \in [DetIdx -> BOOLEAN]
    /\ \A j \in DOMAIN newNodes :
          newNodes[j] \in [id : NewIds, time_left : 0..NEW_DEVICE_REPORT_TIMES]
    /\ send_all \in {0, 1}
    /\ udp.pc \in {"idle", "det", "clear", "new", "store", "end"}
    /\ udp.buf \in [DetIdx -> States \cup {NoState}]
    /\ reported \in [DetIdx -> States \cup {NoState}]
    /\ unreported \in [DetIdx -> BOOLEAN]
    /\ events \in 0..MaxEvents

\* A parking-state change data_proc records stays flagged until a fill
\* has copied the new state: fill_udp_buffer never clears
\* is_park_state_changed over a change it did not send.
NoChangeLost == \A k \in DetIdx : unreported[k] => changed[k]

\* Whatever the UDP thread missed (a change cleared by the race, an offline
\* transition that raises no flag), the peer eventually receives every
\* detector's current state, through the 15-minute full report.
EventuallyReported ==
    \A k \in DetIdx : reported[k] # state[k] ~> reported[k] = state[k]


\* fill_udp_buffer's time_left-- takes one report off the budget the device
\* has when the store happens: a refresh by insert_new_device (a new
\* contact of the device) is never overwritten by the decrement.
TimeLeftDecrementsCurrent ==
    [][udp.pc = "store" /\ udp'.pc = "new" =>
         newNodes'[udp.i].time_left = newNodes[udp.i].time_left - 1]_vars
=============================================================================
