-------------------------------- MODULE Adr --------------------------------
(***************************************************************************)
(* The adaptive data rate decision of the data process thread             *)
(* (adr_control in thread_data_process.c) and the link-quality read of    *)
(* the work-state log (need_write_to_log in work_state_log.c).            *)
(*                                                                         *)
(* A detector's link record holds the last MAX_AVG_NUM RSSI and SNR        *)
(* samples in c_rssi[] and c_snr[], the write cursor c_ptr, the averages  *)
(* and the data rate of the last heartbeat. On every heartbeat of a       *)
(* listed detector adr_control writes the sample at c_ptr, advances it,   *)
(* averages the first num = min(MAX_AVG_NUM, recv_num + 1) slots and      *)
(* answers 1 (raise the data rate) or 0; refresh_detector_info then counts *)
(* the heartbeat in recv_num. The record is zeroed by the list reload.    *)
(*                                                                         *)
(* These are operators over one record, checked over every sequence of    *)
(* heartbeats up to a bound against the arithmetic the comments and the   *)
(* design promise: a running mean over the last min(N, seen) samples.     *)
(***************************************************************************)
EXTENDS Integers, Sequences, FiniteSets

CONSTANTS
    AdrPackets,     \* received packets: [rssi, snr, datarate]
    MaxAdrSamples   \* longest heartbeat sequence checked

MAX_AVG_NUM == 10

\* The C conversion to rt_int8_t / signed char of a wider value, as the
\* build does it: two's complement, keep the low byte.
Int8(v) == ((v + 128) % 256) - 128

\* C's / on int: the quotient truncated toward zero.
CDiv(a, b) == IF a >= 0 THEN a \div b ELSE 0 - ((0 - a) \div b)

\* Both thresholds of the decision table, by spreading factor; SF7 and any
\* other rate never raise.
Threshold == [sf \in 8..10 |->
                CASE sf = 8  -> [rssi |-> -90,  snr |-> 5]
                  [] sf = 9  -> [rssi |-> -100, snr |-> 0]
                  [] sf = 10 -> [rssi |-> -125, snr |-> -5]]

\* The record as read_sensor_list_flie leaves it: all zero.
ZeroSamples == [i \in 0..MAX_AVG_NUM - 1 |-> 0]
InitialLink ==
    [c_rssi |-> ZeroSamples, c_snr |-> ZeroSamples, c_ptr |-> 0,
     c_avg_rssi |-> 0, c_avg_snr |-> 0, current_dr |-> 0, recv_num |-> 0]

\* Mutant of NextCPtr: the cursor wraps one slot late.
NextCPtrLate(p) == IF p + 1 > MAX_AVG_NUM THEN 0 ELSE p + 1

\* if(++c_ptr >= MAX_AVG_NUM) c_ptr = 0;
NextCPtr(p) == IF p + 1 >= MAX_AVG_NUM THEN 0 ELSE p + 1

\* num = min(MAX_AVG_NUM, recv_num + 1).
AvgNum(l) == IF l.recv_num + 1 < MAX_AVG_NUM THEN l.recv_num + 1 ELSE MAX_AVG_NUM

\* The averaging loop: avg_rssi is an rt_int32_t, so its sum is exact;
\* avg_snr is an rt_int8_t and each += stores the sum back into it.
RECURSIVE RssiSum(_, _)
RssiSum(w, k) == IF k = 0 THEN 0 ELSE RssiSum(w, k - 1) + w[k - 1]

RECURSIVE SnrSum8(_, _)
SnrSum8(w, k) == IF k = 0 THEN 0 ELSE Int8(SnrSum8(w, k - 1) + w[k - 1])

\* Whether the packet and the averages all pass the table for its rate.
Raise(p, avgRssi, avgSnr) ==
    /\ p.datarate \in DOMAIN Threshold
    /\ p.rssi > Threshold[p.datarate].rssi
    /\ p.snr  > Threshold[p.datarate].snr
    /\ avgRssi > Threshold[p.datarate].rssi
    /\ avgSnr  > Threshold[p.datarate].snr

\* adr_control(rx_pkt, index): the new record and the answer.
adr_control(l, p) ==
    LET num  == AvgNum(l)
        w    == [l EXCEPT !.c_rssi[l.c_ptr] = p.rssi,
                          !.c_snr[l.c_ptr]  = p.snr,
                          !.c_ptr           = NextCPtr(@),
                          !.current_dr      = p.datarate]
        aR   == CDiv(RssiSum(w.c_rssi, num), num)
        aS   == Int8(CDiv(SnrSum8(w.c_snr, num), num))
    IN  [link |-> [w EXCEPT !.c_avg_rssi = aR, !.c_avg_snr = aS],
         ret  |-> IF Raise(p, aR, aS) THEN 1 ELSE 0]

\* A heartbeat of a listed detector: adr_control, then the recv_num++ of
\* refresh_detector_info.
Heartbeat(l, p) ==
    [adr_control(l, p).link EXCEPT !.recv_num = @ + 1]

RECURSIVE AfterHeartbeats(_, _)
AfterHeartbeats(l, hs) ==
    IF hs = <<>> THEN l ELSE AfterHeartbeats(Heartbeat(l, Head(hs)), Tail(hs))

\* need_write_to_log's index of the latest sample: c_ptr - 1, or
\* MAX_AVG_NUM when c_ptr is 0. Slot MAX_AVG_NUM is one past the arrays;
\* the struct places c_avg_rssi right after c_rssi[] and c_avg_snr right
\* after c_snr[], so that is what the build reads there.
LatestPtr(l) == IF l.c_ptr = 0 THEN MAX_AVG_NUM ELSE l.c_ptr - 1
RssiAt(l, i) == IF i = MAX_AVG_NUM THEN l.c_avg_rssi ELSE l.c_rssi[i]
SnrAt(l, i)  == IF i = MAX_AVG_NUM THEN l.c_avg_snr  ELSE l.c_snr[i]

\* The link part of need_write_to_log: REASON_LORA when the rate is SF9
\* or slower, or the latest sample is weak.
LoraReason(l) ==
    \/ l.current_dr >= 9
    \/ RssiAt(l, LatestPtr(l)) < -100
    \/ SnrAt(l, LatestPtr(l)) < -5

-----------------------------------------------------------------------------
(* Reference definitions and the properties over them.                     *)

\* Every sequence of 1..MaxAdrSamples heartbeats.
Histories == UNION {[1..n -> AdrPackets] : n \in 1..MaxAdrSamples}

\* The last k packets of a history.
LastK(hs, k) == SubSeq(hs, Len(hs) - k + 1, Len(hs))

\* The samples of the first k slots, and of a sequence of packets, as
\* counts of each (rssi, snr) pair.
SlotCount(l, k, s) ==
    Cardinality({i \in 0..k - 1 : <<l.c_rssi[i], l.c_snr[i]>> = s})
SeqCount(ps, s) ==
    Cardinality({j \in 1..Len(ps) : <<ps[j].rssi, ps[j].snr>> = s})
Samples == {<<p.rssi, p.snr>> : p \in AdrPackets}

\* The slots adr_control averages after a heartbeat are the last
\* min(MAX_AVG_NUM, seen) heartbeats of the detector: the cursor that
\* adr_control advances and the count refresh_detector_info keeps never
\* drift apart, across the wrap included.
WindowIsRecent ==
    \A hs \in Histories :
        LET l == AfterHeartbeats(InitialLink, hs)
            k == IF Len(hs) < MAX_AVG_NUM THEN Len(hs) ELSE MAX_AVG_NUM
        IN  \A s \in Samples : SlotCount(l, k, s) = SeqCount(LastK(hs, k), s)

\* The exact SNR mean of the window, truncated as the rt_int8_t field
\* stores it (a mean of int8 values always fits one).
ReferenceAvgSnr(hs) ==
    LET k  == IF Len(hs) < MAX_AVG_NUM THEN Len(hs) ELSE MAX_AVG_NUM
        ps == LastK(hs, k)
        sum[j \in 0..k] == IF j = 0 THEN 0 ELSE sum[j - 1] + ps[j].snr
    IN  CDiv(sum[k], k)

\* adr_control raises the data rate exactly when the reference decision
\* on the packet and the true window means does.
DecisionMatchesMean ==
    \A hs \in Histories :
        LET before == AfterHeartbeats(InitialLink, SubSeq(hs, 1, Len(hs) - 1))
            r      == adr_control(before, hs[Len(hs)])
        IN  r.ret = (IF Raise(hs[Len(hs)], r.link.c_avg_rssi, ReferenceAvgSnr(hs))
                     THEN 1 ELSE 0)

\* The link check of need_write_to_log judges the latest heartbeat's
\* sample.
LoraReasonOnLatest ==
    \A hs \in Histories :
        LET l == AfterHeartbeats(InitialLink, hs)
            p == hs[Len(hs)]
        IN  LoraReason(l) = (l.current_dr >= 9 \/ p.rssi < -100 \/ p.snr < -5)

=============================================================================
