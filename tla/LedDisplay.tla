----------------------------- MODULE LedDisplay -----------------------------
(***************************************************************************)
(* The LED matrix and the threads that draw on it.                        *)
(*                                                                         *)
(* thread_led.c keeps dot_buf, eight bytes with bit 0x80 >> c of row r    *)
(* for the dot (r, c), and changes it on three messages of mq_led:        *)
(* MSG_LED_SET_LED from set_led, MSG_LED_TEST (a toggle; while it is on,  *)
(* a 500 ms timer draws a test pattern over the whole buffer, and turning *)
(* it off calls led_init) and MSG_LED_REFRESH, which only scans a row out *)
(* to the GPIOs and is left out. The LED thread has the highest priority  *)
(* of all threads, so a message is handled before its sender goes on: a   *)
(* set_led is one step of its caller.                                      *)
(*                                                                         *)
(* Its writers:                                                           *)
(*  - data_proc's sweep (check_lora_node_connect) lights the dot i / 8,    *)
(*    i % 8 of every online detector i each minute and turns it off when  *)
(*    the detector goes offline;                                           *)
(*  - sysctrl's one-second handler draws the network dot (7, 6) from its  *)
(*    link state, which it keeps from the UDP answers, and restarts the   *)
(*    network after a run of seconds without link;                        *)
(*  - the TCP thread toggles the test (CMD_LORA_SEND_TEST and              *)
(*    CMD_LORA_RECV_TEST) and reloads the detector list after a download. *)
(***************************************************************************)
EXTENDS Integers

CONSTANTS
    MAX_DETECTOR_PER_WNC,  \* slots of the detector list (60)
    OfflineAfter,          \* silent sweeps before a detector is offline (35)
    NoPackLimit,           \* seconds of LINK_GOOD without a UDP answer (120)
    ResetLimit             \* seconds of LINK_ERROR before a network restart (20)

VARIABLES
    dot_buf,               \* the LED thread's buffer, a byte per row
    test_mode,             \* MSG_LED_TEST's static toggle; the test timer runs while it is 1
    direction,             \* led_test_fresh_buf's statics: the pattern's phase
    line_num,
    value,
    det,                   \* detector_info[i]: online (state != NODE_STATE_OFFLINE), interval
    num,                   \* g_detector_info_list.num
    net_state,             \* sysctrl's locals and statics of the network check
    network_no_pack_time,
    net_reset_cnt,
    sysPc                  \* sysctrl: "idle", "restart" (in network_restart) or "reboot" (need_reboot)

vars == <<dot_buf, test_mode, direction, line_num, value, det, num,
          net_state, network_no_pack_time, net_reset_cnt, sysPc>>

Rows == 0..7
Slots == 0..MAX_DETECTOR_PER_WNC - 1
ON == 1
OFF == 0
NoLed == -1

\* 0x80 >> column
Bit(column) == 2^(7 - column)

\* (byte & bit) != 0 for a single-bit mask.
Lit(b, row, column) == (b[row] \div Bit(column)) % 2 = 1

\* MSG_LED_SET_LED: dot_buf[row] |= 0x80 >> column, or &= ~(0x80 >> column).
\* With one bit in the mask, | adds it when it is clear and & removes it
\* when it is set.
SetLed(b, state, row, column) ==
    IF state = OFF
    THEN [b EXCEPT ![row] = IF Lit(b, row, column) THEN @ - Bit(column) ELSE @]
    ELSE [b EXCEPT ![row] = IF Lit(b, row, column) THEN @ ELSE @ + Bit(column)]

\* set_led(state, row, column): refused off the matrix, else posted and
\* handled at once by the LED thread.
set_led(b, state, row, column) ==
    IF row > 7 \/ column > 7 THEN b ELSE SetLed(b, state, row, column)

\* led_init: memset 0, then dot_buf[7] |= 0x05.
LedInit == [r \in Rows |-> IF r = 7 THEN 5 ELSE 0]

\* The state after power-on, as a value of vars: init_parking_lists leaves
\* every listed detector offline, and every static and local starts from
\* its initialiser.
BootVars(n) ==
    <<LedInit, 0, 0, 0, 128,
      [i \in Slots |-> [online |-> FALSE, interval |-> 0]], n,
      "LINK_ERROR", 0, 0, "idle">>

\* The variables taking the values t, in the order of vars.
Take(t) ==
    /\ dot_buf' = t[1]   /\ test_mode' = t[2] /\ direction' = t[3]
    /\ line_num' = t[4]  /\ value' = t[5]     /\ det' = t[6]
    /\ num' = t[7]       /\ net_state' = t[8]
    /\ network_no_pack_time' = t[9] /\ net_reset_cnt' = t[10]
    /\ sysPc' = t[11]

Init ==
    \E n \in 0..MAX_DETECTOR_PER_WNC :
        LET t == BootVars(n)
        IN  /\ dot_buf = t[1]   /\ test_mode = t[2] /\ direction = t[3]
            /\ line_num = t[4]  /\ value = t[5]     /\ det = t[6]
            /\ num = t[7]       /\ net_state = t[8]
            /\ network_no_pack_time = t[9] /\ net_reset_cnt = t[10]
            /\ sysPc = t[11]

-----------------------------------------------------------------------------
(* The LED thread and its test timer.                                     *)

\* MSG_LED_TEST, posted by the TCP thread for either radio test: start the
\* test timer, or stop it and redraw the initial buffer.
LedTest ==
    /\ IF test_mode = 0
       THEN /\ test_mode' = 1
            /\ UNCHANGED dot_buf
       ELSE /\ test_mode' = 0
            /\ dot_buf' = LedInit
    /\ UNCHANGED <<direction, line_num, value, det, num, net_state,
                   network_no_pack_time, net_reset_cnt, sysPc>>

\* callback_timer_led_test -> led_test_fresh_buf: columns one by one (the
\* whole buffer memset to value), then lines one by one.
led_test_fresh_buf ==
    /\ test_mode = 1
    /\ IF direction = 1
       THEN /\ dot_buf' = [r \in Rows |-> IF r = line_num THEN 255 ELSE 0]
            /\ line_num' = IF line_num + 1 > 7 THEN 0 ELSE line_num + 1
            /\ direction' = IF line_num + 1 > 7 THEN 0 ELSE 1
            /\ UNCHANGED value
       ELSE /\ dot_buf' = [r \in Rows |-> value]
            /\ value' = IF value \div 2 = 0 THEN 128 ELSE value \div 2
            /\ direction' = IF value \div 2 = 0 THEN 1 ELSE 0
            /\ UNCHANGED line_num
    /\ UNCHANGED <<test_mode, det, num, net_state, network_no_pack_time,
                   net_reset_cnt, sysPc>>

-----------------------------------------------------------------------------
(* data_proc and the TCP thread.                                          *)

\* Mutant of SweepDetector: the set_led(ON) of a detector still online is
\* dropped.
SweepDetectorNoOn(d) ==
    IF ~d.online THEN [rec |-> d, led |-> NoLed]
    ELSE IF d.interval < OfflineAfter
         THEN [rec |-> [d EXCEPT !.interval = @ + 1], led |-> NoLed]
         ELSE [rec |-> [d EXCEPT !.online = FALSE], led |-> OFF]

\* One detector of check_lora_node_connect's loop: the record it leaves
\* and the LED it asks for.
SweepDetector(d) ==
    IF ~d.online THEN [rec |-> d, led |-> NoLed]
    ELSE IF d.interval < OfflineAfter
         THEN [rec |-> [d EXCEPT !.interval = @ + 1], led |-> ON]
         ELSE [rec |-> [d EXCEPT !.online = FALSE], led |-> OFF]

\* The set_led calls of the loop, for i = 0 .. num - 1 in turn.
RECURSIVE SweepLeds(_, _)
SweepLeds(b, i) ==
    IF i >= num THEN b
    ELSE LET led == SweepDetector(det[i]).led
         IN  SweepLeds(IF led = NoLed THEN b
                       ELSE set_led(b, led, i \div 8, i % 8), i + 1)

\* The detector part of MSG_CHECK_DEVICE_CONNECT (every 60 s).
CheckConnect ==
    /\ det' = [i \in Slots |-> IF i < num THEN SweepDetector(det[i]).rec
                                         ELSE det[i]]
    /\ dot_buf' = SweepLeds(dot_buf, 0)
    /\ UNCHANGED <<test_mode, direction, line_num, value, num, net_state,
                   network_no_pack_time, net_reset_cnt, sysPc>>

\* A heartbeat of listed detector i: refresh_detector_info stores its
\* parking state (never NODE_STATE_OFFLINE) and clears interval.
DetectorHeartbeat(i) ==
    /\ i < num
    /\ det' = [det EXCEPT ![i] = [online |-> TRUE, interval |-> 0]]
    /\ UNCHANGED <<dot_buf, test_mode, direction, line_num, value, num,
                   net_state, network_no_pack_time, net_reset_cnt, sysPc>>

\* A completed sensor-list download: read_sensor_list_flie zeroes the
\* list and lists n detectors, all offline. The LEDs are not touched.
read_sensor_list_flie(n) ==
    /\ det' = [i \in Slots |-> [online |-> FALSE, interval |-> 0]]
    /\ num' = n
    /\ UNCHANGED <<dot_buf, test_mode, direction, line_num, value, net_state,
                   network_no_pack_time, net_reset_cnt, sysPc>>

-----------------------------------------------------------------------------
(* sysctrl: the network part of MSG_SYS_1_SEC, MSG_SYS_UDP_CONFIRM and     *)
(* MSG_SYS_USER_REBOOT. The soft-watchdog and work-state parts of the     *)
(* same handler are modelled in SoftWatchdog and WorkStateLog.            *)

\* Mutant of NetLedOf: the set_net_led call is dropped.
NetLedOfKeep(b, s) == b

\* set_net_led_on() / set_net_led_off(): set_led(ON or OFF, 7, 6).
NetLedOf(b, s) == set_led(b, IF s = "LINK_GOOD" THEN ON ELSE OFF, 7, 6)

\* if(++net_reset_cnt > 20): the restart is due.
RestartDue(c) == c + 1 > ResetLimit

\* Mutant of ResetCntNext: net_reset_cnt without static, a fresh 0 each
\* second.
ResetCntNextLocal(c) == 0

\* Mutant of ResetCntNext: the counter is not cleared when the restart is
\* taken.
ResetCntNextNoClear(c) == c + 1

\* The static counter after the test: cleared when the restart is due.
ResetCntNext(c) == IF RestartDue(c) THEN 0 ELSE c + 1

\* MSG_SYS_1_SEC, from the 500 ms sysctrl timer every second.
OneSecond ==
    /\ sysPc = "idle"
    /\ dot_buf' = NetLedOf(dot_buf, net_state)
    /\ IF net_state = "LINK_GOOD"
       THEN /\ network_no_pack_time' = network_no_pack_time + 1
            /\ net_state' = IF network_no_pack_time + 1 > NoPackLimit
                            THEN "LINK_ERROR" ELSE net_state
            /\ UNCHANGED <<net_reset_cnt, sysPc>>
       ELSE /\ net_reset_cnt' = ResetCntNext(net_reset_cnt)
            /\ sysPc' = IF RestartDue(net_reset_cnt) THEN "restart" ELSE "idle"
            /\ UNCHANGED <<network_no_pack_time, net_state>>
    /\ UNCHANGED <<test_mode, direction, line_num, value, det, num>>

\* The return of network_restart (not in this repository): RT_EOK, or a
\* failure, which sets need_reboot; sysctrl then stops its timer and spins
\* until the hardware watchdog resets the board.
network_restart ==
    /\ sysPc = "restart"
    /\ \E ok \in BOOLEAN : sysPc' = IF ok THEN "idle" ELSE "reboot"
    /\ UNCHANGED <<dot_buf, test_mode, direction, line_num, value, det, num,
                   net_state, network_no_pack_time, net_reset_cnt>>

\* MSG_SYS_UDP_CONFIRM, posted by the UDP client when the PC answers.
UdpConfirm ==
    /\ sysPc = "idle"
    /\ network_no_pack_time' = 0
    /\ net_state' = "LINK_GOOD"
    /\ UNCHANGED <<dot_buf, test_mode, direction, line_num, value, det, num,
                   net_reset_cnt, sysPc>>

\* MSG_SYS_USER_REBOOT: need_reboot.
UserReboot ==
    /\ sysPc = "idle"
    /\ sysPc' = "reboot"
    /\ UNCHANGED <<dot_buf, test_mode, direction, line_num, value, det, num,
                   net_state, network_no_pack_time, net_reset_cnt>>

\* The hardware watchdog resets the board; the list file is read again.
WatchdogReset ==
    /\ sysPc = "reboot"
    /\ Take(BootVars(num))

Next ==
    \/ LedTest
    \/ led_test_fresh_buf
    \/ CheckConnect
    \/ \E i \in Slots : DetectorHeartbeat(i)
    \/ \E n \in 0..MAX_DETECTOR_PER_WNC : read_sensor_list_flie(n)
    \/ OneSecond
    \/ network_restart
    \/ UdpConfirm
    \/ UserReboot
    \/ WatchdogReset

\* The sweep timer and sysctrl's timer fire for ever, and nothing in this
\* model blocks data_proc or sysctrl; network_restart returns, and the
\* hardware watchdog fires once nothing feeds it. The TCP commands, the
\* heartbeats and the UDP answers are not fair.
Spec ==
    /\ Init /\ [][Next]_vars
    /\ WF_vars(CheckConnect)
    /\ WF_vars(OneSecond)
    /\ WF_vars(network_restart)
    /\ WF_vars(WatchdogReset)

-----------------------------------------------------------------------------
(* Properties.                                                            *)

Online(i) == i < num /\ det[i].online
DetectorLit(i) == Lit(dot_buf, i \div 8, i % 8)
NetWrong == Lit(dot_buf, 7, 6) # (net_state = "LINK_GOOD")

TypeOK ==
    /\ dot_buf \in [Rows -> 0..255]
    /\ test_mode \in {0, 1}
    /\ direction \in {0, 1}
    /\ line_num \in Rows
    /\ value \in {128, 64, 32, 16, 8, 4, 2, 1}
    /\ det \in [Slots -> [online : BOOLEAN, interval : 0..OfflineAfter]]
    /\ num \in 0..MAX_DETECTOR_PER_WNC
    /\ net_state \in {"LINK_GOOD", "LINK_ERROR"}
    /\ network_no_pack_time \in 0..NoPackLimit + 1
    /\ net_reset_cnt \in 0..ResetLimit
    /\ sysPc \in {"idle", "restart", "reboot"}

\* An online detector whose LED is dark (after led_init ended a test, or
\* after a heartbeat brought it back) is lit again by a later sweep, unless
\* a test starts or the detector stops being online first.
DetectorLedEventuallyOn ==
    \A i \in Slots :
        (test_mode = 0 /\ Online(i) /\ ~DetectorLit(i))
            ~> (test_mode = 1 \/ ~Online(i) \/ DetectorLit(i))

\* The network LED comes to show sysctrl's link state, after a test, a
\* link change, a failed restart and a reboot alike, unless a test starts.
NetLedEventuallyCurrent ==
    (test_mode = 0 /\ NetWrong) ~> (test_mode = 1 \/ ~NetWrong)

\* A link that stays down gets network_restart called: LINK_ERROR leads to
\* a restart, unless the PC answers or a reboot is under way first.
LinkDownLeadsToRestart ==
    (net_state = "LINK_ERROR")
        ~> (net_state = "LINK_GOOD" \/ sysPc \in {"restart", "reboot"})

\* Outside a test, a lit detector LED belongs to a listed detector that is
\* online: the display never shows a detector that is offline or gone.
DetectorLedShowsOnline ==
    test_mode = 0 => \A i \in Slots : DetectorLit(i) => Online(i)

=============================================================================
