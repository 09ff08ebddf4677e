--------------------------- MODULE Provisioning ---------------------------
(***************************************************************************)
(* Provisioning sessions of the data-process thread                        *)
(* (thread_data_process.c): the working mode, the config node list, the   *)
(* node handshake of config_lora_node and the replies to the TCP peer.    *)
(*                                                                         *)
(* working_mode and g_config_node_list are written only by data_proc, one *)
(* message at a time, so each message handler is one atomic step. The    *)
(* rt_thread_delay(5) before each radio reply blocks data_proc but lets   *)
(* no other writer of this state run.                                      *)
(*                                                                         *)
(* The environment: TCP peers post session commands (thread_tcp_server.c),*)
(* nodes send frames. Radio replies go to mq_lora_send and may be lost;   *)
(* a node that hears one may acknowledge it any number of times, late,    *)
(* and after a new session has started.                                   *)
(***************************************************************************)
EXTENDS Integers, Sequences, FiniteSets, TLC

CONSTANTS
    Peers,          \* TCP socket fds of the peers
    NodeIds,        \* the node ids, small integers
    Requests,       \* session requests a peer may post
    UndefCmds,      \* values an uninitialised rt_uint8_t cmd may hold
    MAX_NODE_WHOLE_PARKING_LOT, \* capacity of g_config_node_list (1024)
    MaxRequests,    \* bound on TCP commands
    MaxTestReports  \* bound on receive-test reports

NoPeer == 0         \* working_mode.fd before any session

\* work_mode
MODE_NORMAL == "NORMAL"
MODE_RECV_TEST == "RECV_TEST"
MODE_CONFIG_NODE_BY_RANGE == "RANGE"
MODE_CONFIG_NODE_BY_ID == "BY_ID"
MODE_INIT_NODE == "INIT"
ConfigModes == {MODE_CONFIG_NODE_BY_RANGE, MODE_CONFIG_NODE_BY_ID, MODE_INIT_NODE}

\* The config commands a node acknowledges with a frame of the same command.
AckCmds == {"SET_PERIOD", "SET_FREQ", "INIT_PARAMS"}

\* The accepted band of perpare_config_node_by_range / _by_id.
FREQ_MIN == 470300000
FREQ_MAX == 489300000
\* Mutant: the frequency is not checked.
ValidPeriodOnly(r) == 1 <= r.period /\ r.period <= 7200
ValidParams(r) ==
    /\ FREQ_MIN <= r.freq /\ r.freq <= FREQ_MAX
    /\ 1 <= r.period /\ r.period <= 7200

\* ntohl on a little-endian core: the byte swap of a 32-bit id.
Ntohl(x) ==
    LET b(k) == (x \div 2^(8 * k)) % 256
    IN  b(0) * 2^24 + b(1) * 2^16 + b(2) * 2^8 + b(3)

VARIABLES
    working_mode,        \* [fd, pack_sn, mode]
    g_config_node_list,  \* [freq, period, node: Seq([id, done])]
    downlinks,           \* replies posted to mq_lora_send: [to, cmd, freq]
    heard,               \* heard[n]: config commands node n has received
    replies,             \* TCP replies sent: [fd, cmd, sn, len, data]
    requests,            \* TCP commands posted so far
    testReports          \* receive-test reports sent so far

vars == <<working_mode, g_config_node_list, downlinks, heard, replies,
          requests, testReports>>

\* lora_send_tcp_data: one reply on socket fd; len is the data length
\* (1 for a result byte, 4 for an id, 12 for a test report).
TcpReply(fd, cmd, sn, len, data) ==
    [fd |-> fd, cmd |-> cmd, sn |-> sn, len |-> len, data |-> data]

Init ==
    /\ working_mode = [fd |-> NoPeer, pack_sn |-> 1, mode |-> MODE_NORMAL]
    /\ g_config_node_list = [freq |-> 0, period |-> 0, node |-> <<>>]
    /\ downlinks = {}
    /\ heard = [n \in NodeIds |-> {}]
    /\ replies = <<>>
    /\ requests = 0
    /\ testReports = 0

-----------------------------------------------------------------------------
(* The session commands of data_proc's dispatch loop.                      *)

\* The loops that fill the list stop when the list is full.
Capped(s) == SubSeq(s, 1, IF Len(s) < MAX_NODE_WHOLE_PARKING_LOT
                          THEN Len(s) ELSE MAX_NODE_WHOLE_PARKING_LOT)
RangeIds(first, last) ==
    Capped([k \in 1..(last - first + 1) |-> first + k - 1])
ConfigList(ids) == [k \in 1..Len(ids) |-> [id |-> ids[k], done |-> FALSE]]

\* Mutant: the receive test is started without taking over the peer's fd.
RecvTestKeepsFd(p) ==
    /\ requests < MaxRequests
    /\ requests' = requests + 1
    /\ working_mode' =
         IF working_mode.mode # MODE_RECV_TEST
         THEN [working_mode EXCEPT !.pack_sn = 1, !.mode = MODE_RECV_TEST]
         ELSE [working_mode EXCEPT !.mode = MODE_NORMAL]
    /\ UNCHANGED <<g_config_node_list, downlinks, heard, replies, testReports>>

\* MSG_LORA_RECV_TEST: start a receive test, or end the running one.
RecvTest(p) ==
    /\ requests < MaxRequests
    /\ requests' = requests + 1
    /\ working_mode' =
         IF working_mode.mode # MODE_RECV_TEST
         THEN [fd |-> p, pack_sn |-> 1, mode |-> MODE_RECV_TEST]
         ELSE [working_mode EXCEPT !.mode = MODE_NORMAL]
    /\ UNCHANGED <<g_config_node_list, downlinks, heard, replies, testReports>>

\* perpare_config_node_by_range and perpare_config_node_by_id. fd and
\* pack_sn are taken over before the parameters are checked; a rejected
\* request returns with the mode and the list unchanged. Both answer with
\* CMD_LORA_CONFIG_NODE_BY_RANGE.
perpare_config_node(p, r, ids, newMode) ==
    /\ requests < MaxRequests
    /\ requests' = requests + 1
    /\ IF ValidParams(r)
       THEN /\ g_config_node_list' =
                 [freq |-> r.freq, period |-> r.period, node |-> ConfigList(ids)]
            /\ working_mode' = [fd |-> p, pack_sn |-> 2, mode |-> newMode]
            /\ replies' = Append(replies,
                 TcpReply(p, "CMD_LORA_CONFIG_NODE_BY_RANGE", 1, 1, 1))
       ELSE /\ working_mode' = [working_mode EXCEPT !.fd = p, !.pack_sn = 1]
            /\ replies' = Append(replies,
                 TcpReply(p, "CMD_LORA_CONFIG_NODE_BY_RANGE", 1, 1, 0))
            /\ UNCHANGED g_config_node_list
    /\ UNCHANGED <<downlinks, heard, testReports>>

PrepareByRange(p, r) ==
    /\ r.kind = "RANGE"
    /\ perpare_config_node(p, r, RangeIds(r.first, r.last),
                           MODE_CONFIG_NODE_BY_RANGE)

PrepareById(p, r) ==
    /\ r.kind = "BY_ID"
    /\ perpare_config_node(p, r, Capped(r.ids), MODE_CONFIG_NODE_BY_ID)

\* perpair_init_node: no parameters to check; frequency and period stay 0.
perpair_init_node(p, r) ==
    /\ r.kind = "INIT"
    /\ requests < MaxRequests
    /\ requests' = requests + 1
    /\ g_config_node_list' =
         [freq |-> 0, period |-> 0, node |-> ConfigList(RangeIds(r.first, r.last))]
    /\ working_mode' = [fd |-> p, pack_sn |-> 2, mode |-> MODE_INIT_NODE]
    /\ replies' = Append(replies, TcpReply(p, "CMD_LORA_INIT_NODE", 1, 1, 1))
    /\ UNCHANGED <<downlinks, heard, testReports>>

-----------------------------------------------------------------------------
(* config_lora_node: one pass over the whole list. Every entry whose id   *)
(* matches and that is not done answers the frame. After a completion the *)
(* local id is byte-swapped in place (id = ntohl(id)) and the loop goes   *)
(* on comparing later entries with the swapped value.                     *)

\* The command of a SET_FREQ completion report; in an init session the
\* local cmd is never assigned and holds whatever was on the stack.
SetFreqCmd(mode, junk) ==
    CASE mode = MODE_CONFIG_NODE_BY_RANGE -> "CMD_LORA_CONFIG_NODE_BY_RANGE"
      [] mode = MODE_CONFIG_NODE_BY_ID    -> "CMD_LORA_CONFIG_NODE_BY_ID"
      [] OTHER                            -> junk

\* Mutant: the entry is reported but not marked done.
CompleteEntryNoDone(s, i, fd, cmd) ==
    [s EXCEPT !.id = Ntohl(s.id),
              !.tcp = Append(@, TcpReply(fd, cmd, s.sn, 4, s.id)),
              !.sn = (@ + 1) % 256]

\* A completion (SET_FREQ or INIT_PARAMS ack) of entry i: mark it done,
\* byte-swap the local id, report the id to fd, advance pack_sn. s holds
\* the loop's running id, the list, the new radio replies, the TCP replies
\* and pack_sn.
CompleteEntry(s, i, fd, cmd) ==
    [s EXCEPT !.node[i].done = TRUE,
              !.id = Ntohl(s.id),
              !.tcp = Append(@, TcpReply(fd, cmd, s.sn, 4, s.id)),
              !.sn = (@ + 1) % 256]

\* The answer of one matching entry i to frame f of node n.
ConfigEntry(s, i, n, f, fd, mode, junk) ==
    LET Radio(cmd, freq) ==
            [s EXCEPT !.down = @ \cup {[to |-> n, cmd |-> cmd, freq |-> freq]}]
        Done(cmd) == CompleteEntry(s, i, fd, cmd)
    IN CASE f = "HB_CFG" ->
              Radio(IF mode = MODE_INIT_NODE THEN "INIT_PARAMS" ELSE "SET_PERIOD", 0)
         [] f = "HB" -> Radio("ECHO", 0)
         [] f = "SET_PERIOD" -> Radio("SET_FREQ", g_config_node_list.freq)
         [] f = "SET_FREQ" -> Done(SetFreqCmd(mode, junk))
         [] f = "INIT_PARAMS" -> Done("CMD_LORA_INIT_NODE")
         [] OTHER -> s

RECURSIVE ConfigLoop(_, _, _, _, _, _, _)
ConfigLoop(s, i, n, f, fd, mode, junk) ==
    IF i > Len(s.node) THEN s
    ELSE ConfigLoop(IF s.node[i].id = s.id /\ ~s.node[i].done
                    THEN ConfigEntry(s, i, n, f, fd, mode, junk)
                    ELSE s,
                    i + 1, n, f, fd, mode, junk)

config_lora_node(n, f, junk) ==
    LET s == ConfigLoop([id |-> n, node |-> g_config_node_list.node,
                         down |-> downlinks, tcp |-> replies,
                         sn |-> working_mode.pack_sn],
                        1, n, f, working_mode.fd, working_mode.mode, junk)
    IN /\ g_config_node_list' = [g_config_node_list EXCEPT !.node = s.node]
       /\ downlinks' = s.down
       /\ replies' = s.tcp
       /\ working_mode' = [working_mode EXCEPT !.pack_sn = s.sn]
       /\ UNCHANGED testReports

\* analyze_special_mode on a CRC-valid frame f from node n, outside
\* MODE_NORMAL (in MODE_NORMAL the frame goes to the detector and light
\* handlers, modelled in DetectorTracking and LightControl).
ConfigFrame(n, f) ==
    /\ working_mode.mode \in ConfigModes
    /\ \E junk \in UndefCmds : config_lora_node(n, f, junk)
    /\ UNCHANGED <<heard, requests>>

RecvTestFrame ==
    /\ working_mode.mode = MODE_RECV_TEST
    /\ testReports < MaxTestReports
    /\ testReports' = testReports + 1
    /\ replies' = Append(replies, TcpReply(working_mode.fd, "CMD_LORA_RECV_TEST",
                                           working_mode.pack_sn, 12, 0))
    /\ working_mode' = [working_mode EXCEPT !.pack_sn = (@ + 1) % 256]
    /\ UNCHANGED <<g_config_node_list, downlinks, heard, requests>>

\* A frame data_proc does not act on: any frame in MODE_NORMAL (handled
\* elsewhere), or another frame in MODE_RECV_TEST.
OtherFrame ==
    /\ working_mode.mode \in {MODE_NORMAL, MODE_RECV_TEST}
    /\ UNCHANGED vars

\* A node hears one of the config commands sent to it.
NodeHears(n) ==
    \E d \in downlinks :
        /\ d.to = n
        /\ d.cmd \in AckCmds \ heard[n]
        /\ heard' = [heard EXCEPT ![n] = @ \cup {d.cmd}]
        /\ UNCHANGED <<working_mode, g_config_node_list, downlinks, replies,
                       requests, testReports>>

\* The frames node n may send: heartbeats, a test frame, and an ack of
\* each command it has heard.
NodeFrames(n) == {"HB_CFG", "HB", "RECV_TEST"} \cup heard[n]

Next ==
    \/ \E p \in Peers :
          \/ RecvTest(p)
          \/ \E r \in Requests :
                PrepareByRange(p, r) \/ PrepareById(p, r) \/ perpair_init_node(p, r)
    \/ \E n \in NodeIds :
          \/ \E f \in NodeFrames(n) : ConfigFrame(n, f)
          \/ NodeHears(n)
    \/ RecvTestFrame
    \/ OtherFrame

Spec == Init /\ [][Next]_vars

-----------------------------------------------------------------------------
(* Properties.                                                             *)

Modes == ConfigModes \cup {MODE_NORMAL, MODE_RECV_TEST}
TcpCmds == {"CMD_LORA_CONFIG_NODE_BY_RANGE", "CMD_LORA_CONFIG_NODE_BY_ID",
            "CMD_LORA_INIT_NODE", "CMD_LORA_RECV_TEST"} \cup UndefCmds

TypeOK ==
    /\ working_mode \in [fd : Peers \cup {NoPeer}, pack_sn : 0..255, mode : Modes]
    /\ g_config_node_list.freq \in Nat
    /\ \A k \in DOMAIN g_config_node_list.node :
          g_config_node_list.node[k] \in [id : Nat, done : BOOLEAN]
    /\ downlinks \subseteq [to : NodeIds, cmd : AckCmds \cup {"ECHO"}, freq : Nat]
    /\ heard \in [NodeIds -> SUBSET AckCmds]
    /\ \A k \in DOMAIN replies :
          replies[k] \in [fd : Peers, cmd : TcpCmds, sn : 0..255,
                          len : {1, 4, 12}, data : Nat]
    /\ requests \in 0..MaxRequests
    /\ testReports \in 0..MaxTestReports

\* No node is ever told to move to a frequency outside the band that
\* perpare_config_node_by_range / _by_id accept: the SET_FREQ reply of
\* config_lora_node always carries a checked g_config_node_list.freq.
SetFreqInBand ==
    \A d \in downlinks : d.cmd = "SET_FREQ" => FREQ_MIN <= d.freq /\ d.freq <= FREQ_MAX

\* The replies as the peer reads them (ProvisioningSession's view). Outside
\* a session working_mode.fd and pack_sn are not used, and the view shows
\* no peer.
KindOfCmd(cmd) ==
    CASE cmd = "CMD_LORA_CONFIG_NODE_BY_RANGE" -> MODE_CONFIG_NODE_BY_RANGE
      [] cmd = "CMD_LORA_CONFIG_NODE_BY_ID"    -> MODE_CONFIG_NODE_BY_ID
      [] cmd = "CMD_LORA_INIT_NODE"            -> MODE_INIT_NODE
      [] OTHER                                 -> "none"
PeerView(r) ==
    [to |-> r.fd, sn |-> r.sn,
     tag |-> CASE r.len = 1 /\ r.data = 1 -> "ok"
               [] r.len = 1                -> "refused"
               [] r.len = 4                -> "done"
               [] OTHER                    -> "test",
     kind |-> IF r.len = 4 THEN KindOfCmd(r.cmd) ELSE "none",
     id |-> IF r.len = 4 THEN r.data ELSE 0]
ListedIds == {g_config_node_list.node[k].id : k \in DOMAIN g_config_node_list.node}
DoneIds == {g_config_node_list.node[k].id :
              k \in {j \in DOMAIN g_config_node_list.node :
                        g_config_node_list.node[j].done}}

Session == INSTANCE ProvisioningSession WITH
    mode <- working_mode.mode,
    peer <- IF working_mode.mode = MODE_NORMAL THEN NoPeer ELSE working_mode.fd,
    sn <- IF working_mode.mode = MODE_NORMAL THEN 1 ELSE working_mode.pack_sn,
    targets <- ListedIds,
    done <- DoneIds,
    replies <- [k \in DOMAIN replies |-> PeerView(replies[k])]

\* The engine implements the session contract: every step of data_proc is
\* a step of ProvisioningSession under the mapping above, so each listed
\* node is reported done at most once, on the session's peer, under the
\* session's kind and with the next sequence number, and a rejected
\* request leaves the session alone.
ImplementsSession == Session!Spec

=============================================================================
