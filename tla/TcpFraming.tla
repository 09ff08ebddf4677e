----------------------------- MODULE TcpFraming -----------------------------
(***************************************************************************)
(* The TCP command server of thread_tcp_server.c: the select loop over     *)
(* client_fd[] with its recv, close, compaction and accept, and            *)
(* handle_recv_pack, which reassembles commands from the byte stream in    *)
(* static state (new_pack, pack_len, cmd_buf, cmd_buf_len) shared by every *)
(* connection, then hands each whole command to analyze_command. Peers     *)
(* connect, send their commands whole or cut into sends at the offsets     *)
(* Cuts, and close, between commands or, with CloseMidCommand, inside one. *)
(* Bytes are naturals below 256.                                           *)
(***************************************************************************)
EXTENDS Naturals, Sequences, FiniteSets, Codec

CONSTANTS
    Peers,                 \* PC tools; a peer's socket is its fd
    Requests,              \* Requests[p]: the commands p sends, in order
    MAX_TCP_CONNECT,       \* RT_LWIP_TCP_PCB_NUM
    MAX_TCP_DATA_LENGTH,   \* size of tcp_buf and cmd_buf
    DEV_ID,                \* htonl(wnc_device.id), four bytes
    Cuts,                  \* offsets in a command at which a send may end
    CloseMidCommand        \* whether a peer may close inside a command

HEADER_LEN             == 12          \* sizeof(struct tcp_pack_header), packed
DEVICE_TYPE            == <<76, 78>>  \* "LN"
CMD_SET_DEV_ID_AND_MAC == 1
\* The cases of analyze_command's switch; any other code is a bad command.
HandledCmds == {1, 2, 3, 6, 7, 9, 15, 23, 24, 31, 38, 39,
                240, 241, 245, 246, 247, 248}

Phases == {"off", "connecting", "connected", "closed", "done", "refused"}

VARIABLES
    client_fd,    \* client_fd[0 .. connect_num-1] as a sequence of peers
    cleared,      \* indices whose client_fd[i] was set to 0 in this round
    rdst,         \* the client fds select reported readable
    listen_rdy,   \* FD_ISSET(server_fd, &rdst)
    pc,           \* "select", "check" (the loop at index i), or "spin"
    i,
    new_pack,     \* the statics of handle_recv_pack and the file
    pack_len,
    cmd_buf,      \* cmd_buf[0 .. cmd_buf_len-1]
    phase,        \* each peer's connection
    stream,       \* bytes a peer sent that the server has not read
    seg_ends,     \* the ends of the peer's sends within stream
    sent,         \* commands a peer has sent whole
    off,          \* bytes of its next command the peer has sent
    analysed      \* analysed[p]: the commands analyze_command got with fd p

vars == <<client_fd, cleared, rdst, listen_rdy, pc, i, new_pack, pack_len,
          cmd_buf, phase, stream, seg_ends, sent, off, analysed>>
server == <<client_fd, cleared, rdst, listen_rdy, pc, i,
            new_pack, pack_len, cmd_buf>>
peers == <<phase, stream, seg_ends, sent, off>>

MinOf(m, n) == IF m < n THEN m ELSE n

-----------------------------------------------------------------------------
(* handle_recv_pack                                                        *)

\* A byte of the received data: tcp_buf is zeroed before each recv, so a
\* header read past the received length reads 0.
Byte(seg, pos) == IF pos <= Len(seg) THEN seg[pos] ELSE 0

\* Mutant: device_type read one byte early.
IsHeaderEarly(seg) == Byte(seg, 5) = DEVICE_TYPE[1] /\ Byte(seg, 6) = DEVICE_TYPE[2]

\* rt_strncmp(header->device_type, DEVICE_TYPE, 2) = 0
IsHeader(seg) == Byte(seg, 6) = DEVICE_TYPE[1] /\ Byte(seg, 7) = DEVICE_TYPE[2]

\* sizeof(struct tcp_pack_header) + ntohs(header->data_len) + 1
PackLen(seg) == HEADER_LEN + Byte(seg, 11) * 256 + Byte(seg, 12) + 1

\* The while (len > 0) loop over one received buffer. It returns the static
\* state after it, the whole commands in the order analyze_command gets
\* them, and whether the loop never ends: once cmd_buf holds
\* MAX_TCP_DATA_LENGTH bytes of a longer command, copy_len is 0 and len
\* stays positive.
RECURSIVE handle_recv_pack(_, _)
handle_recv_pack(st, seg) ==
    IF seg = <<>> THEN [st |-> st, cmds |-> <<>>, spin |-> FALSE]
    ELSE IF st.new_pack /\ ~IsHeader(seg)
    THEN handle_recv_pack(st, Tail(seg))
    ELSE LET hd   == IF st.new_pack
                     THEN [new_pack |-> FALSE, pack_len |-> PackLen(seg),
                           cmd_buf |-> <<>>]
                     ELSE st
             copy == MinOf(MinOf(MAX_TCP_DATA_LENGTH - Len(hd.cmd_buf), Len(seg)),
                           hd.pack_len - Len(hd.cmd_buf))
             buf  == hd.cmd_buf \o SubSeq(seg, 1, copy)
             whole == Len(buf) = hd.pack_len
             after == handle_recv_pack([new_pack |-> whole, pack_len |-> hd.pack_len,
                                        cmd_buf |-> buf],
                                       SubSeq(seg, copy + 1, Len(seg)))
         IN  IF copy = 0 THEN [st |-> hd, cmds |-> <<>>, spin |-> TRUE]
             ELSE IF whole THEN [after EXCEPT !.cmds = <<buf>> \o @]
             ELSE after

\* analyze_command's checks: the xor of all bytes but the last equals the
\* last, the id is this device's, 0, or the command sets the id, and the
\* command is one of the switch's cases; anything else is answered by
\* tcp_bad_cmd.
analyze_command(cmd) ==
    LET xor_ok == xor_verify(cmd, Len(cmd) - 1) = cmd[Len(cmd)]
        id     == SubSeq(cmd, 2, 5)
        id_ok  == id = DEV_ID \/ id = <<0, 0, 0, 0>>
                  \/ cmd[1] = CMD_SET_DEV_ID_AND_MAC
    IN  [bytes |-> cmd,
         reply |-> IF xor_ok /\ id_ok /\ cmd[1] \in HandledCmds
                   THEN "done" ELSE "bad"]

-----------------------------------------------------------------------------
(* Peers                                                                   *)

Init ==
    /\ client_fd = <<>>
    /\ cleared = {}
    /\ rdst = {}
    /\ listen_rdy = FALSE
    /\ pc = "select"
    /\ i = 1
    /\ new_pack = TRUE
    /\ pack_len = 0
    /\ cmd_buf = <<>>
    /\ phase = [p \in Peers |-> "off"]
    /\ stream = [p \in Peers |-> <<>>]
    /\ seg_ends = [p \in Peers |-> {}]
    /\ sent = [p \in Peers |-> 0]
    /\ off = [p \in Peers |-> 0]
    /\ analysed = [p \in Peers |-> <<>>]

\* connect(): the connection waits in the listen backlog.
Connect(p) ==
    /\ phase[p] = "off"
    /\ phase' = [phase EXCEPT ![p] = "connecting"]
    /\ UNCHANGED <<server, stream, seg_ends, sent, off, analysed>>

\* One send() of the next bytes of the peer's next command: up to one of
\* the Cuts or to its end.
Send(p) ==
    /\ phase[p] = "connected"
    /\ sent[p] < Len(Requests[p])
    /\ LET cmd == Requests[p][sent[p] + 1]
       IN  \E c \in {k \in Cuts : off[p] < k /\ k < Len(cmd)} \cup {Len(cmd)} :
             /\ stream' = [stream EXCEPT ![p] = @ \o SubSeq(cmd, off[p] + 1, c)]
             /\ seg_ends' = [seg_ends EXCEPT ![p] =
                               @ \cup {Len(stream[p]) + c - off[p]}]
             /\ IF c = Len(cmd)
                THEN sent' = [sent EXCEPT ![p] = @ + 1] /\ off' = [off EXCEPT ![p] = 0]
                ELSE off' = [off EXCEPT ![p] = c] /\ UNCHANGED sent
    /\ UNCHANGED <<server, phase, analysed>>

\* close(): the server reads the FIN after the bytes.
Close(p) ==
    /\ phase[p] = "connected"
    /\ off[p] = 0 \/ CloseMidCommand
    /\ phase' = [phase EXCEPT ![p] = "closed"]
    /\ UNCHANGED <<server, stream, seg_ends, sent, off, analysed>>

\* A refused peer connects again.
Retry(p) ==
    /\ phase[p] = "refused"
    /\ phase' = [phase EXCEPT ![p] = "off"]
    /\ UNCHANGED <<server, stream, seg_ends, sent, off, analysed>>

-----------------------------------------------------------------------------
(* The server loop of thread_tcp_server                                    *)

\* FD_ZERO, FD_SET of server_fd and every client_fd, select(): it returns
\* once a client has bytes or a FIN to read or a connection waits.
Select ==
    /\ pc = "select"
    /\ LET ready == {client_fd[n] : n \in DOMAIN client_fd}
                    \cap {q \in Peers : stream[q] # <<>> \/ phase[q] = "closed"}
           lr    == \E q \in Peers : phase[q] = "connecting"
       IN  /\ ready # {} \/ lr
           /\ rdst' = ready
           /\ listen_rdy' = lr
    /\ pc' = "check"
    /\ i' = 1
    /\ UNCHANGED <<client_fd, cleared, new_pack, pack_len, cmd_buf, peers, analysed>>

\* The loop body at a client select did not report.
NotReady ==
    /\ pc = "check"
    /\ i <= Len(client_fd)
    /\ client_fd[i] \notin rdst
    /\ i' = i + 1
    /\ UNCHANGED <<client_fd, cleared, rdst, listen_rdy, pc, new_pack,
                   pack_len, cmd_buf, peers, analysed>>

\* recv() returns 0: close(client_fd[i]) and client_fd[i] = 0.
Disconnect ==
    /\ pc = "check"
    /\ i <= Len(client_fd)
    /\ client_fd[i] \in rdst
    /\ stream[client_fd[i]] = <<>>
    /\ phase' = [phase EXCEPT ![client_fd[i]] = "done"]
    /\ cleared' = cleared \cup {i}
    /\ i' = i + 1
    /\ UNCHANGED <<client_fd, rdst, listen_rdy, pc, new_pack, pack_len,
                   cmd_buf, stream, seg_ends, sent, off, analysed>>

\* What one recv(client_fd[i], tcp_buf, MAX_TCP_DATA_LENGTH, 0) may return:
\* the bytes of the sends that have arrived, at most MAX_TCP_DATA_LENGTH.
RecvSizes(p) == {MinOf(e, MAX_TCP_DATA_LENGTH) : e \in seg_ends[p]}

\* recv() returns data: handle_recv_pack over it, with analyze_command
\* answering each whole command on this fd. A loop that never ends leaves
\* the thread spinning.
RecvData ==
    /\ pc = "check"
    /\ i <= Len(client_fd)
    /\ client_fd[i] \in rdst
    /\ stream[client_fd[i]] # <<>>
    /\ LET fd == client_fd[i]
       IN  \E n \in RecvSizes(fd) :
             LET res == handle_recv_pack([new_pack |-> new_pack, pack_len |-> pack_len,
                                          cmd_buf |-> cmd_buf],
                                         SubSeq(stream[fd], 1, n))
             IN  /\ new_pack' = res.st.new_pack
                 /\ pack_len' = res.st.pack_len
                 /\ cmd_buf' = res.st.cmd_buf
                 /\ analysed' = [analysed EXCEPT ![fd] =
                                   @ \o [k \in 1..Len(res.cmds) |-> analyze_command(res.cmds[k])]]
                 /\ stream' = [stream EXCEPT ![fd] = SubSeq(@, n + 1, Len(@))]
                 /\ seg_ends' = [seg_ends EXCEPT ![fd] = {e - n : e \in {x \in @ : x > n}}]
                 /\ pc' = IF res.spin THEN "spin" ELSE "check"
    /\ i' = i + 1
    /\ UNCHANGED <<client_fd, cleared, rdst, listen_rdy, phase, sent, off>>

\* The refresh loop: client_fd[] without the cleared entries, in order.
Compacted ==
    LET keep == {n \in DOMAIN client_fd : n \notin cleared}
        nth(k) == CHOOSE n \in keep : Cardinality({m \in keep : m <= n}) = k
    IN  [k \in 1..Cardinality(keep) |-> client_fd[nth(k)]]

\* Mutant: a new client is added while connect_num equals the limit.
HasRoomAtLimit(list) == Len(list) <= MAX_TCP_CONNECT

\* connect_num < MAX_TCP_CONNECT
HasRoom(list) == Len(list) < MAX_TCP_CONNECT

\* The end of the loop: refresh the list, then accept() if select reported
\* the listening socket: a new client is added below MAX_TCP_CONNECT and
\* told " bye" and closed at it.
Refresh ==
    /\ pc = "check"
    /\ i > Len(client_fd)
    /\ \/ /\ ~listen_rdy
          /\ client_fd' = Compacted
          /\ UNCHANGED phase
       \/ /\ listen_rdy
          /\ HasRoom(Compacted)
          /\ \E q \in Peers :
                /\ phase[q] = "connecting"
                /\ client_fd' = Append(Compacted, q)
                /\ phase' = [phase EXCEPT ![q] = "connected"]
       \/ /\ listen_rdy
          /\ ~HasRoom(Compacted)
          /\ \E q \in Peers :
                /\ phase[q] = "connecting"
                /\ client_fd' = Compacted
                /\ phase' = [phase EXCEPT ![q] = "refused"]
    /\ pc' = "select"
    /\ cleared' = {}
    /\ UNCHANGED <<rdst, listen_rdy, i, new_pack, pack_len, cmd_buf,
                   stream, seg_ends, sent, off, analysed>>

ServerStep == Select \/ NotReady \/ Disconnect \/ RecvData \/ Refresh

PeerStep ==
    \E p \in Peers :
        Connect(p) \/ Send(p) \/ Close(p) \/ Retry(p)

Next == ServerStep \/ PeerStep

\* The server thread runs whenever it is not blocked in select; peers need
\* not do anything.
Spec == Init /\ [][Next]_vars /\ WF_vars(ServerStep)

-----------------------------------------------------------------------------
(* Properties                                                              *)

TypeOK ==
    /\ client_fd \in Seq(Peers)
    /\ Len(client_fd) <= MAX_TCP_CONNECT
    /\ cleared \subseteq DOMAIN client_fd
    /\ rdst \subseteq Peers
    /\ listen_rdy \in BOOLEAN
    /\ pc \in {"select", "check", "spin"}
    /\ i \in 1..(MAX_TCP_CONNECT + 1)
    /\ new_pack \in BOOLEAN
    /\ pack_len \in Nat
    /\ cmd_buf \in Seq(0..255)
    /\ Len(cmd_buf) <= MAX_TCP_DATA_LENGTH
    /\ phase \in [Peers -> Phases]
    /\ sent \in [Peers -> Nat]
    /\ off \in [Peers -> Nat]
    /\ \A p \in Peers : sent[p] <= Len(Requests[p])

\* handle_recv_pack hands analyze_command exactly the commands each peer
\* sent, in order and none left out, and with the fd of the peer that sent
\* them: the static reassembly state never splices bytes of one command,
\* or of two peers, into one.
FramesIntact ==
    \A p \in Peers :
        /\ Len(analysed[p]) <= sent[p]
        /\ \A n \in 1..Len(analysed[p]) : analysed[p][n].bytes = Requests[p][n]

\* crc_calculate, the shift-and-xor loop of thread_data_process.c that
\* every LoRa frame the concentrator relays is checked with, computes
\* CRC-16/MODBUS: on every step it agrees with the textbook polynomial
\* division (Codec's CrcAgrees).
CrcMatchesReference == [][CrcAgrees]_vars

\* A LoRa frame as data_proc builds it (crc high byte first in payload[10])
\* passes the receive check of analyze_lora_pkt, and every frame that
\* differs from it in one bit, content or crc, is dropped.
LoraCrcRoundTrip == [][LoraRoundTrips]_vars

\* Every command a peer has sent whole reaches analyze_command (and is
\* answered) while the server thread keeps running.
EveryFrameAnalysed ==
    \A p \in Peers : \A n \in 1..Len(Requests[p]) :
        sent[p] >= n ~> Len(analysed[p]) >= n

====
