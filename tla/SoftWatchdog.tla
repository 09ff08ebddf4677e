---------------------------- MODULE SoftWatchdog ----------------------------
(***************************************************************************)
(* The soft watchdog of thread_sysctrl.c. Four threads feed an rt_uint8_t *)
(* counter each: lora_recv on every poll, udp_client after every 10 s     *)
(* report, lora_send and data_proc when sysctrl's request reaches their   *)
(* queue. sysctrl handles the 1-second message of its timer: every 20 s it *)
(* posts the requests, every 60 s check_threads_alive reads the counters, *)
(* calls a thread dead when its counter is 0, clears them all, and a dead *)
(* verdict stops the hardware watchdog's feeding so the board restarts.    *)
(*                                                                         *)
(* A thread may hang for good, blocked or spinning; a spinning thread     *)
(* keeps every thread of lower priority (a higher number) from running.   *)
(* The hardware watchdog is fed from the timer callback, which runs in    *)
(* the tick interrupt, until need_reboot stops that timer.                 *)
(***************************************************************************)
EXTENDS Naturals, FiniteSets

CONSTANTS
    RecvLoopsPerSec,   \* lora_recv polls in one second, one feed each
    UDP_PERIOD,        \* UDP_SEND_PERIOD in seconds
    RT_MQ_NUM,         \* slots of mq_lora_send and mq_data_proc
    MaxHangs,          \* bound on threads hanging over the whole run
    Spinners           \* threads that can hang in an endless loop

LORA_RECV_DOG == "LORA_RECV_DOG"
LORA_SEND_DOG == "LORA_SEND_DOG"
DATA_PROC_DOG == "DATA_PROC_DOG"
UDP_CLINT_DOG == "UDP_CLINT_DOG"
Dogs      == {LORA_RECV_DOG, LORA_SEND_DOG, DATA_PROC_DOG, UDP_CLINT_DOG}
Requested == {LORA_SEND_DOG, DATA_PROC_DOG}   \* fed on request only

\* RT_THREAD_PRIORITY_* of user_thread_cfg.h; sysctrl has 23.
Priority == [d \in Dogs |->
               CASE d = LORA_SEND_DOG -> 7  [] d = LORA_RECV_DOG -> 8
                 [] d = DATA_PROC_DOG -> 9  [] d = UDP_CLINT_DOG -> 12]
PRIORITY_SYSCTRL == 23

VARIABLES
    thread_soft_dogs,  \* the rt_uint8_t counters
    timer_cnt,         \* sysctrl's static timer_cnt, modulo 60
    pc,                \* sysctrl: "idle", "msg" (a 1 s message waits),
                       \* "check", "clear", "reboot"
    dead,              \* the threads check_threads_alive found at 0
    pending,           \* feed requests waiting in a thread's queue
    udp_wait,          \* seconds left of udp_client's rt_thread_delay
    hung,              \* threads that stopped
    spinning,          \* the stopped threads that loop without blocking
    hangs              \* hangs so far

vars == <<thread_soft_dogs, timer_cnt, pc, dead, pending, udp_wait, hung, spinning, hangs>>

\* A thread runs when it has not stopped and no spinning thread outranks it.
Runs(prio) == \A s \in spinning : Priority[s] >= prio
Alive(d) == d \notin hung /\ Runs(Priority[d])
SysctrlRuns == Runs(PRIORITY_SYSCTRL)

\* threads_feed_dog: thread_soft_dogs[index]++ on an rt_uint8_t.
threads_feed_dog(dogs, index) == [dogs EXCEPT ![index] = (@ + 1) % 256]

\* The lora_recv loop: one feed per poll; a poll that finds no packet
\* sleeps 100 ms, so k polls in one second feed k times.
RecvLoops(dogs, k) == [dogs EXCEPT ![LORA_RECV_DOG] = (@ + k) % 256]

Boot ==
    /\ thread_soft_dogs = [d \in Dogs |-> 0]
    /\ timer_cnt = 0
    /\ pc = "idle"
    /\ dead = {}
    /\ pending = [d \in Requested |-> 0]
    /\ udp_wait = UDP_PERIOD
    /\ hung = {}
    /\ spinning = {}

Init == Boot /\ hangs = 0

-----------------------------------------------------------------------------
(* Time and the threads that feed.                                          *)

\* One second: the timer callback posts MSG_SYS_1_SEC (every other 500 ms
\* call), lora_recv has polled meanwhile and udp_client's delay runs down.
\* udp_client (priority 12) and sysctrl's previous message come first,
\* unless a spinning thread keeps them from running. lora_send and data_proc
\* (priorities 7 and 9) take a feed request within the second it is posted:
\* they block only on their queue, mutex_lora and short radio waits.
Tick ==
    /\ pc = "idle" \/ ~SysctrlRuns
    /\ udp_wait > 0 \/ ~Alive(UDP_CLINT_DOG)
    /\ \A d \in Requested : pending[d] > 0 => ~Alive(d)
    /\ \E k \in RecvLoopsPerSec :
         IF ~Alive(LORA_RECV_DOG)
         THEN UNCHANGED thread_soft_dogs
         ELSE thread_soft_dogs' = RecvLoops(thread_soft_dogs, k)
    /\ udp_wait' = IF udp_wait > 0 THEN udp_wait - 1 ELSE 0
    /\ pc' = IF SysctrlRuns THEN "msg" ELSE pc
    /\ UNCHANGED <<timer_cnt, dead, pending, hung, spinning, hangs>>

\* udp_client: after its 10 s delay it feeds, then fills and sends the next
\* report and sleeps again.
UdpFeed ==
    /\ udp_wait = 0
    /\ Alive(UDP_CLINT_DOG)
    /\ pc # "reboot"
    /\ thread_soft_dogs' = threads_feed_dog(thread_soft_dogs, UDP_CLINT_DOG)
    /\ udp_wait' = UDP_PERIOD
    /\ UNCHANGED <<timer_cnt, pc, dead, pending, hung, spinning, hangs>>

\* lora_send (MSG_LORA_SEND_FEED_DOG) or data_proc (MSG_DATA_PROC_FEED_DOG)
\* takes a request from its queue and feeds.
RequestedFeed(d) ==
    /\ pending[d] > 0
    /\ Alive(d)
    /\ pc # "reboot"
    /\ pending' = [pending EXCEPT ![d] = @ - 1]
    /\ thread_soft_dogs' = threads_feed_dog(thread_soft_dogs, d)
    /\ UNCHANGED <<timer_cnt, pc, dead, udp_wait, hung, spinning, hangs>>

\* A running thread stops for good: it blocks (a lost event, a lock never
\* released) or, if it is one of the Spinners, loops without blocking.
Hang(d) ==
    /\ Alive(d)
    /\ hangs < MaxHangs
    /\ pc # "reboot"
    /\ hung' = hung \cup {d}
    /\ \E spins \in IF d \in Spinners THEN BOOLEAN ELSE {FALSE} :
         spinning' = IF spins THEN spinning \cup {d} ELSE spinning
    /\ hangs' = hangs + 1
    /\ UNCHANGED <<thread_soft_dogs, timer_cnt, pc, dead, pending, udp_wait>>

-----------------------------------------------------------------------------
(* The sysctrl thread (priority 23, the lowest of the user threads).        *)

\* Mutant: the requests queue without bound.
RequestFeedNoDrop(p) == [d \in Requested |-> p[d] + 1]

\* request_feed_soft_dogs: a message to mq_lora_send and one to
\* mq_data_proc; rt_mq_send drops it when the queue is full.
request_feed_soft_dogs(p) ==
    [d \in Requested |-> IF p[d] < RT_MQ_NUM THEN p[d] + 1 ELSE p[d]]

\* Mutant: the feed requests once a minute, with the check.
Handle1SecMinuteFeed ==
    /\ pc = "msg"
    /\ SysctrlRuns
    /\ timer_cnt' = (timer_cnt + 1) % 60
    /\ pending' = IF timer_cnt' = 0
                  THEN request_feed_soft_dogs(pending) ELSE pending
    /\ pc' = IF timer_cnt' = 0 THEN "check" ELSE "idle"
    /\ UNCHANGED <<thread_soft_dogs, dead, udp_wait, hung, spinning, hangs>>

\* MSG_SYS_1_SEC: ++timer_cnt; every 20 s the feed requests, every 60 s the
\* check of the counters.
Handle1Sec ==
    /\ pc = "msg"
    /\ SysctrlRuns
    /\ timer_cnt' = (timer_cnt + 1) % 60
    /\ pending' = IF timer_cnt' % 20 = 0
                  THEN request_feed_soft_dogs(pending) ELSE pending
    /\ pc' = IF timer_cnt' = 0 THEN "check" ELSE "idle"
    /\ UNCHANGED <<thread_soft_dogs, dead, udp_wait, hung, spinning, hangs>>

\* Mutant: the memset before the loop.
CheckThreadsAfterMemset ==
    /\ pc = "check"
    /\ SysctrlRuns
    /\ dead' = Dogs
    /\ pc' = "clear"
    /\ UNCHANGED <<thread_soft_dogs, timer_cnt, pending, udp_wait, hung, spinning, hangs>>

\* Mutant: the loop stops one short (i < MAX_SOFT_DOG_NUM - 1).
CheckThreadsSkipLast ==
    /\ pc = "check"
    /\ SysctrlRuns
    /\ dead' = {d \in Dogs \ {UDP_CLINT_DOG} : thread_soft_dogs[d] = 0}
    /\ pc' = "clear"
    /\ UNCHANGED <<thread_soft_dogs, timer_cnt, pending, udp_wait, hung, spinning, hangs>>

\* check_threads_alive, its loop: a counter at 0 means the thread is dead.
CheckThreads ==
    /\ pc = "check"
    /\ SysctrlRuns
    /\ dead' = {d \in Dogs : thread_soft_dogs[d] = 0}
    /\ pc' = "clear"
    /\ UNCHANGED <<thread_soft_dogs, timer_cnt, pending, udp_wait, hung, spinning, hangs>>

\* check_threads_alive, the memset after the loop; a dead thread sets
\* need_reboot.
ClearDogs ==
    /\ pc = "clear"
    /\ SysctrlRuns
    /\ thread_soft_dogs' = [d \in Dogs |-> 0]
    /\ pc' = IF dead # {} THEN "reboot" ELSE "idle"
    /\ UNCHANGED <<timer_cnt, dead, pending, udp_wait, hung, spinning, hangs>>

\* MSG_SYS_USER_REBOOT, posted by the reboot command of the TCP server.
UserReboot ==
    /\ pc = "idle"
    /\ SysctrlRuns
    /\ pc' = "reboot"
    /\ UNCHANGED <<thread_soft_dogs, timer_cnt, dead, pending, udp_wait, hung, spinning, hangs>>

\* need_reboot: the timer that feeds the hardware watchdog is stopped and
\* sysctrl spins; the watchdog resets the board, which boots afresh.
Restart ==
    /\ pc = "reboot"
    /\ thread_soft_dogs' = [d \in Dogs |-> 0]
    /\ timer_cnt' = 0
    /\ pc' = "idle"
    /\ dead' = {}
    /\ pending' = [d \in Requested |-> 0]
    /\ udp_wait' = UDP_PERIOD
    /\ hung' = {}
    /\ spinning' = {}
    /\ UNCHANGED hangs

Next ==
    \/ Tick
    \/ UdpFeed
    \/ \E d \in Requested : RequestedFeed(d)
    \/ \E d \in Dogs : Hang(d)
    \/ Handle1Sec
    \/ CheckThreads
    \/ ClearDogs
    \/ UserReboot
    \/ Restart

\* The timer interrupt keeps coming, a thread that has not hung runs when it
\* is ready and no spinning thread outranks it (RT-Thread runs the highest
\* ready priority), and the hardware watchdog resets a board whose feeding
\* stopped. A hang, a user reboot and
\* the moment of a lora_recv poll are not forced.
Fairness ==
    /\ WF_vars(Tick)
    /\ WF_vars(UdpFeed)
    /\ \A d \in Requested : WF_vars(RequestedFeed(d))
    /\ WF_vars(Handle1Sec)
    /\ WF_vars(CheckThreads)
    /\ WF_vars(ClearDogs)
    /\ WF_vars(Restart)

Spec == Init /\ [][Next]_vars /\ Fairness

-----------------------------------------------------------------------------
(* Properties.                                                              *)

TypeOK ==
    /\ thread_soft_dogs \in [Dogs -> 0..255]
    /\ timer_cnt \in 0..59
    /\ pc \in {"idle", "msg", "check", "clear", "reboot"}
    /\ dead \subseteq Dogs
    /\ pending \in [Requested -> 0..RT_MQ_NUM]
    /\ udp_wait \in 0..UDP_PERIOD
    /\ hung \subseteq Dogs
    /\ spinning \subseteq hung \cap Spinners
    /\ hangs \in 0..MaxHangs

\* The threads that have stopped feeding: hung, or kept from running by a
\* spinning thread of higher priority.
Stopped == {d \in Dogs : ~Alive(d)}

\* check_threads_alive calls only a stopped thread dead: a thread that keeps
\* running feeds its counter to a nonzero value in every minute between
\* two memsets, through the 8-bit counters, the feed requests posted with
\* the check itself and fed between the loop and the memset.
NoFalseDeadVerdict == pc = "clear" => dead \subseteq Stopped

\* A thread that stops feeding gets the board restarted: sysctrl, the
\* requests of request_feed_soft_dogs and the memset of check_threads_alive
\* bring its counter to 0 at a later check, whatever the other threads do,
\* and the hardware watchdog, fed from the timer interrupt until then,
\* resets the board.
HungThreadRebooted == (hung # {}) ~> (pc = "reboot")

=============================================================================
