---------------------------- MODULE RadioAccess ----------------------------
(***************************************************************************)
(* The two threads that share the SX1301 radio (thread_lora_send.c,       *)
(* thread_lora_recv.c) and mutex_lora between them. lora_send (priority 7) *)
(* takes messages from mq_lora_send: a frame to transmit (posted by        *)
(* data_proc), the send-test toggle (posted by the TCP server with the LED *)
(* test toggle) and the soft-watchdog request (posted by sysctrl).         *)
(* lora_recv (priority 8) feeds its soft dog, takes the mutex, polls with  *)
(* lgw_receive, releases, and sleeps 100 ms when nothing came.             *)
(*                                                                         *)
(* The scheduler is RT-Thread's: a thread runs only when no thread of      *)
(* higher priority is ready; the posters (priority 9 and lower) run only   *)
(* when both radio threads are blocked. The tick interrupt ends the        *)
(* threads' rt_thread_delay; the radio ends a transmission on its own.     *)
(***************************************************************************)
EXTENDS Naturals, Sequences

CONSTANTS
    RT_MQ_NUM_LORA_SEND,  \* slots of mq_lora_send
    MaxData               \* bound on the frames data_proc posts

NONE == "none"
SEND == "send"
RECV == "recv"

VARIABLES
    send_pc,    \* where thread_lora_send is
    recv_pc,    \* where thread_lora_recv is
    tcp_pc,     \* "idle", or "led" between the TCP server's two posts
    mq,         \* mq_lora_send, in FIFO order
    owner,      \* mutex_lora's owner
    hold,       \* its recursive hold count
    in_test,    \* lora_send's static in_test
    tx_busy,    \* the radio is transmitting (TX_STATUS is not TX_FREE)
    tx_mode,    \* LGW_TX_MODE, 1 while the continuous test transmission runs
    test_mode,  \* thread_led's static test_mode
    posted,     \* frames data_proc has tried to post
    accepted,   \* ghost: frames mq_lora_send took
    sent        \* ghost: frames lgw_send has transmitted

vars == <<send_pc, recv_pc, tcp_pc, mq, owner, hold, in_test, tx_busy,
          tx_mode, test_mode, posted, accepted, sent>>

Init ==
    /\ send_pc = "fetch" /\ recv_pc = "feed" /\ tcp_pc = "idle"
    /\ mq = <<>>
    /\ owner = NONE /\ hold = 0
    /\ in_test = 0 /\ tx_busy = FALSE /\ tx_mode = 0 /\ test_mode = 0
    /\ posted = 0 /\ accepted = 0 /\ sent = 0

\* rt_mutex_take by thread t succeeds at once when the mutex is free or t
\* holds it already (RT-Thread mutexes are recursive); otherwise t blocks.
MutexFreeFor(t) == owner \in {NONE, t}
Take(t) == owner' = t /\ hold' = hold + 1
Release == hold' = hold - 1 /\ owner' = IF hold = 1 THEN NONE ELSE owner

SendReady ==
    \/ send_pc = "fetch" /\ mq # <<>>
    \/ send_pc \in {"take", "test_take"} /\ MutexFreeFor(SEND)
    \/ send_pc \in {"lgw_send", "release", "status", "test_on"}

RecvReady ==
    \/ recv_pc \in {"feed", "rx", "release"}
    \/ recv_pc = "take" /\ MutexFreeFor(RECV)

PostersRun == ~SendReady /\ ~RecvReady

\* Mutant: the message queued whatever its fill.
PostNoLimit(m) == mq' = Append(mq, m)

\* rt_mq_send: the message is dropped when the queue is full.
Post(m) == mq' = IF Len(mq) < RT_MQ_NUM_LORA_SEND THEN Append(mq, m) ELSE mq

-----------------------------------------------------------------------------
(* thread_lora_send                                                         *)

\* Mutant: the stop of the test leaves the mutex held.
StopTestNoRelease == in_test' = 0 /\ tx_mode' = 0 /\ UNCHANGED <<owner, hold>>

\* Stopping the send test: lgw_reg_w(LGW_TX_MODE, 0), rt_mutex_release.
StopTest == in_test' = 0 /\ tx_mode' = 0 /\ Release

\* rt_mq_recv and the switch on the message type. The send test flips
\* in_test; starting it goes on to take the mutex, stopping it clears
\* LGW_TX_MODE and releases the mutex taken when it started.
SendFetch ==
    /\ send_pc = "fetch" /\ mq # <<>>
    /\ mq' = Tail(mq)
    /\ CASE Head(mq) = "DATA" ->
              send_pc' = "take" /\ UNCHANGED <<in_test, tx_mode, owner, hold>>
         [] Head(mq) = "TEST" /\ in_test = 0 ->
              send_pc' = "test_take" /\ in_test' = 1
              /\ UNCHANGED <<tx_mode, owner, hold>>
         [] Head(mq) = "TEST" /\ in_test = 1 ->
              StopTest /\ UNCHANGED send_pc
         [] Head(mq) = "FEED" ->
              UNCHANGED <<send_pc, in_test, tx_mode, owner, hold>>
    /\ UNCHANGED <<recv_pc, tcp_pc, tx_busy, test_mode, posted, accepted, sent>>

\* MSG_LORA_SEND_DATA: rt_mutex_take(&mutex_lora).
SendTake ==
    /\ send_pc = "take" /\ MutexFreeFor(SEND)
    /\ Take(SEND) /\ send_pc' = "lgw_send"
    /\ UNCHANGED <<recv_pc, tcp_pc, mq, in_test, tx_busy, tx_mode, test_mode,
                   posted, accepted, sent>>

\* lgw_send(txpkt): the radio starts the transmission.
SendTx ==
    /\ send_pc = "lgw_send"
    /\ tx_busy' = TRUE /\ sent' = sent + 1 /\ send_pc' = "release"
    /\ UNCHANGED <<recv_pc, tcp_pc, mq, owner, hold, in_test, tx_mode,
                   test_mode, posted, accepted>>

\* Mutant: the release after lgw_send left out.
SendReleaseKept ==
    /\ send_pc = "release"
    /\ send_pc' = "delay"
    /\ UNCHANGED <<recv_pc, tcp_pc, mq, owner, hold, in_test, tx_busy, tx_mode,
                   test_mode, posted, accepted, sent>>

\* rt_mutex_release, then the wait for TX_FREE: rt_thread_delay(2) ...
SendRelease ==
    /\ send_pc = "release"
    /\ Release /\ send_pc' = "delay"
    /\ UNCHANGED <<recv_pc, tcp_pc, mq, in_test, tx_busy, tx_mode, test_mode,
                   posted, accepted, sent>>

\* Mutant: the loop's condition inverted.
SendStatusInverted ==
    /\ send_pc = "status"
    /\ send_pc' = IF tx_busy THEN "fetch" ELSE "delay"
    /\ UNCHANGED <<recv_pc, tcp_pc, mq, owner, hold, in_test, tx_busy,
                   tx_mode, test_mode, posted, accepted, sent>>

\* ... and lgw_status(TX_STATUS), made without the mutex, until TX_FREE.
SendStatus ==
    /\ send_pc = "status"
    /\ send_pc' = IF tx_busy THEN "delay" ELSE "fetch"
    /\ UNCHANGED <<recv_pc, tcp_pc, mq, owner, hold, in_test, tx_busy,
                   tx_mode, test_mode, posted, accepted, sent>>

\* Starting the send test: rt_mutex_take(&mutex_lora), held until it stops.
TestTake ==
    /\ send_pc = "test_take" /\ MutexFreeFor(SEND)
    /\ Take(SEND) /\ send_pc' = "test_on"
    /\ UNCHANGED <<recv_pc, tcp_pc, mq, in_test, tx_busy, tx_mode, test_mode,
                   posted, accepted, sent>>

\* lgw_reg_w(LGW_TX_MODE, 1) and lora_send_test's lgw_send.
TestOn ==
    /\ send_pc = "test_on"
    /\ tx_mode' = 1 /\ tx_busy' = TRUE /\ send_pc' = "fetch"
    /\ UNCHANGED <<recv_pc, tcp_pc, mq, owner, hold, in_test, test_mode,
                   posted, accepted, sent>>

-----------------------------------------------------------------------------
(* thread_lora_recv                                                         *)

\* lora_recv_feed_dog, then rt_mutex_take(&mutex_lora).
RecvFeed ==
    /\ recv_pc = "feed" /\ ~SendReady
    /\ recv_pc' = "take"
    /\ UNCHANGED <<send_pc, tcp_pc, mq, owner, hold, in_test, tx_busy, tx_mode,
                   test_mode, posted, accepted, sent>>

RecvTake ==
    /\ recv_pc = "take" /\ ~SendReady /\ MutexFreeFor(RECV)
    /\ Take(RECV) /\ recv_pc' = "rx"
    /\ UNCHANGED <<send_pc, tcp_pc, mq, in_test, tx_busy, tx_mode, test_mode,
                   posted, accepted, sent>>

\* lgw_receive returns; rt_mutex_release. With packets, they go to data_proc
\* and the loop polls again at once; with none or a HAL error it sleeps.
RecvRx ==
    /\ recv_pc = "rx" /\ ~SendReady
    /\ recv_pc' = "release"
    /\ UNCHANGED <<send_pc, tcp_pc, mq, owner, hold, in_test, tx_busy, tx_mode,
                   test_mode, posted, accepted, sent>>

RecvRelease ==
    /\ recv_pc = "release" /\ ~SendReady
    /\ Release
    /\ \E got \in BOOLEAN : recv_pc' = IF got THEN "feed" ELSE "sleep"
    /\ UNCHANGED <<send_pc, tcp_pc, mq, in_test, tx_busy, tx_mode, test_mode,
                   posted, accepted, sent>>
-----------------------------------------------------------------------------
(* Interrupts and the radio.                                                *)

\* The tick that ends rt_thread_delay: lora_send's 2-tick wait in the
\* TX_FREE loop ...
WakeSend ==
    /\ send_pc = "delay" /\ send_pc' = "status"
    /\ UNCHANGED <<recv_pc, tcp_pc, mq, owner, hold, in_test, tx_busy, tx_mode,
                   test_mode, posted, accepted, sent>>

\* ... and lora_recv's 100 ms sleep.
WakeRecv ==
    /\ recv_pc = "sleep" /\ recv_pc' = "feed"
    /\ UNCHANGED <<send_pc, tcp_pc, mq, owner, hold, in_test, tx_busy, tx_mode,
                   test_mode, posted, accepted, sent>>

\* The radio finishes the frame on the air; TX_STATUS reads TX_FREE. With
\* LGW_TX_MODE 1 the SX1301 transmits continuously and never does.
TxDone ==
    /\ tx_busy /\ tx_mode = 0 /\ tx_busy' = FALSE
    /\ UNCHANGED <<send_pc, recv_pc, tcp_pc, mq, owner, hold, in_test, tx_mode,
                   test_mode, posted, accepted, sent>>

-----------------------------------------------------------------------------
(* The posters, of lower priority than both radio threads.                  *)

\* data_proc answers a node: MSG_LORA_SEND_DATA into mq_lora_send.
PostData ==
    /\ PostersRun /\ posted < MaxData
    /\ Post("DATA") /\ posted' = posted + 1
    /\ accepted' = accepted + (IF Len(mq) < RT_MQ_NUM_LORA_SEND THEN 1 ELSE 0)
    /\ UNCHANGED <<send_pc, recv_pc, tcp_pc, owner, hold, in_test, tx_busy,
                   tx_mode, test_mode, sent>>

\* CMD_LORA_SEND_TEST: MSG_LORA_SEND_TEST to lora_send, then MSG_LED_TEST.
CmdSendTest ==
    /\ PostersRun /\ tcp_pc = "idle"
    /\ Post("TEST") /\ tcp_pc' = "led"
    /\ UNCHANGED <<send_pc, recv_pc, owner, hold, in_test, tx_busy, tx_mode,
                   test_mode, posted, accepted, sent>>

\* CMD_LORA_RECV_TEST: MSG_LORA_RECV_TEST to data_proc, then MSG_LED_TEST.
CmdRecvTest ==
    /\ PostersRun /\ tcp_pc = "idle"
    /\ tcp_pc' = "led"
    /\ UNCHANGED <<send_pc, recv_pc, mq, owner, hold, in_test, tx_busy,
                   tx_mode, test_mode, posted, accepted, sent>>

\* MSG_LED_TEST: thread_led (priority 6) runs as soon as it is posted and
\* flips test_mode, starting or stopping the test pattern timer.
LedTest ==
    /\ PostersRun /\ tcp_pc = "led"
    /\ test_mode' = 1 - test_mode /\ tcp_pc' = "idle"
    /\ UNCHANGED <<send_pc, recv_pc, mq, owner, hold, in_test, tx_busy,
                   tx_mode, posted, accepted, sent>>

\* request_feed_soft_dogs: MSG_LORA_SEND_FEED_DOG every 20 s.
FeedRequest ==
    /\ PostersRun /\ tcp_pc = "idle"
    /\ Post("FEED")
    /\ UNCHANGED <<send_pc, recv_pc, tcp_pc, owner, hold, in_test, tx_busy,
                   tx_mode, test_mode, posted, accepted, sent>>

SendStep == SendFetch \/ SendTake \/ SendTx \/ SendRelease \/ SendStatus
              \/ TestTake \/ TestOn
RecvStep == RecvFeed \/ RecvTake \/ RecvRx \/ RecvRelease

Next ==
    \/ SendStep \/ RecvStep \/ WakeSend \/ WakeRecv \/ TxDone
    \/ PostData \/ CmdSendTest \/ CmdRecvTest \/ LedTest \/ FeedRequest

\* The scheduler always runs a ready thread, the tick comes, and the radio
\* ends every transmission; the posters need not post anything.
Spec ==
    /\ Init /\ [][Next]_vars
    /\ WF_vars(SendStep) /\ WF_vars(RecvStep)
    /\ WF_vars(WakeSend) /\ WF_vars(WakeRecv) /\ WF_vars(TxDone)

-----------------------------------------------------------------------------
(* Properties.                                                              *)

TypeOK ==
    /\ send_pc \in {"fetch", "take", "lgw_send", "release", "delay", "status",
                    "test_take", "test_on"}
    /\ recv_pc \in {"feed", "take", "rx", "release", "sleep"}
    /\ tcp_pc \in {"idle", "led"}
    /\ mq \in Seq({"DATA", "TEST", "FEED"}) /\ Len(mq) <= RT_MQ_NUM_LORA_SEND
    /\ owner \in {NONE, SEND, RECV} /\ hold \in 0..2
    /\ in_test \in {0, 1} /\ tx_mode \in {0, 1} /\ test_mode \in {0, 1}
    /\ tx_busy \in BOOLEAN
    /\ posted \in 0..MaxData /\ accepted \in 0..posted /\ sent \in 0..accepted

\* The holds each thread has on mutex_lora by where it is: lora_send one for
\* a running send test and one around lgw_send, lora_recv one around
\* lgw_receive.
SendHolds ==
    (IF in_test = 1 /\ send_pc # "test_take" THEN 1 ELSE 0)
    + (IF send_pc \in {"lgw_send", "release"} THEN 1 ELSE 0)
RecvHolds == IF recv_pc \in {"rx", "release"} THEN 1 ELSE 0

\* mutex_lora is balanced and exclusive through every mix of frames, send
\* test starts and stops and polls: its hold count is the holds of the
\* thread that owns it, the other thread holds none, and it is free when
\* nobody holds it (so the test's stop releases exactly what its start took,
\* and a frame sent during the test does not leave the mutex held).
MutexBalanced ==
    /\ hold = SendHolds + RecvHolds
    /\ SendHolds > 0 => owner = SEND
    /\ RecvHolds > 0 => owner = RECV
    /\ hold = 0 <=> owner = NONE

\* Every frame data_proc gets into mq_lora_send is transmitted, whatever the
\* send test and the receive loop do meanwhile.
EveryDataSent ==
    \A n \in 1..MaxData : accepted >= n ~> sent >= n

\* A frame queued while no send test runs is transmitted, or a send test
\* starts: lora_recv's polls, the feed requests and the frames before it
\* never keep lora_send from taking mutex_lora, calling lgw_send and
\* coming back from its TX_FREE wait to the queue.
DataSentOutsideTest ==
    \A n \in 1..MaxData :
        (accepted >= n /\ in_test = 0) ~> (sent >= n \/ in_test = 1)

\* lora_recv keeps polling, and so keeps feeding its soft dog, unless a
\* send test is running: lora_send's higher priority never starves it.
RecvKeepsPolling ==
    []<>(recv_pc = "feed" \/ in_test = 1)

\* The radio is half duplex: lora_receive is never called while a frame is
\* on the air, as the send loop keeps mutex_lora until TX_STATUS reads
\* TX_FREE.
StrictAlternation ==
    ~(tx_busy /\ recv_pc = "rx")
====
