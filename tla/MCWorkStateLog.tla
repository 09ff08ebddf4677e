--------------------------- MODULE MCWorkStateLog ---------------------------
(* Bounds for WorkStateLog. The heartbeats: plain ones with either parking *)
(* state, and one for each reason of need_write_to_log that a single frame *)
(* can meet: eleven weighted resends, thirteen new frames at once (twelve  *)
(* lost), a lost frame, a low battery, a poor link. Eleven state changes   *)
(* in one hour (REASON_CHANGE) are beyond the bound on heartbeats.         *)
EXTENDS WorkStateLog

Plain(st) == [st |-> st, r |-> 0, s |-> 1, m |-> 0, lp |-> FALSE, lb |-> FALSE]
MCFrames ==
    { Plain(0), Plain(1),
      [Plain(0) EXCEPT !.r = 11],
      [Plain(0) EXCEPT !.s = 13],
      [Plain(0) EXCEPT !.m = 1],
      [Plain(0) EXCEPT !.lp = TRUE],
      [Plain(0) EXCEPT !.lb = TRUE] }
====
