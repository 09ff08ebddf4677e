---------------------------- MODULE MCTcpFraming ----------------------------
(* Commands of the PC tool for TLC: header cmd, id, "LN\0\0", pack_sn 1,   *)
(* data_len big-endian, payload, xor of all bytes before it.               *)
EXTENDS TcpFraming

CONSTANTS p1, p2

\* CMD_SOFT_REBOOT to this device (id 7), two payload bytes.
SoftReboot == <<3, 0, 0, 0, 7, 76, 78, 0, 0, 1, 0, 2, 5, 6, 6>>
\* CMD_READ_MACHINE_CLOCK to id 0 with its xor byte off by one bit.
ReadClockBadXor == <<7, 0, 0, 0, 0, 76, 78, 0, 0, 1, 0, 0, 5>>
\* CMD_READ_MACHINE_CLOCK to id 0.
ReadClock == <<7, 0, 0, 0, 0, 76, 78, 0, 0, 1, 0, 0, 4>>
\* CMD_GET_DEVICE_ALL_INFOS to another device (id 9).
InfoOtherDevice == <<24, 0, 0, 0, 9, 76, 78, 0, 0, 1, 0, 0, 18>>
\* CMD_LORA_CONFIG_NODE_BY_ID with 20 payload bytes: 33 bytes in all.
ConfigById20 == <<248, 0, 0, 0, 7, 76, 78, 0, 0, 1, 0, 20, 1, 2, 3, 4, 5, 6,
                  7, 8, 9, 10, 11, 12, 13, 14, 15, 16, 17, 18, 19, 20, 252>>

MCPeers    == {p1, p2}
MCDevId    == <<0, 0, 0, 7>>
MCRequests == [p \in MCPeers |->
                  IF p = p1 THEN <<SoftReboot, ReadClockBadXor>>
                  ELSE <<InfoOtherDevice>>]
\* Two tools at once, each with one command.
MCRequestsTwo == [p \in MCPeers |->
                     IF p = p1 THEN <<SoftReboot>> ELSE <<ReadClock>>]
\* A command longer than cmd_buf, then an ordinary one.
MCRequestsLong == [p \in MCPeers |->
                      IF p = p1 THEN <<ConfigById20>> ELSE <<ReadClock>>]
=============================================================================
