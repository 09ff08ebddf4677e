--------------------------- MODULE MCFileTransfer ---------------------------
(* Model values and bounds for FileTransfer. Sizes are in packet payload   *)
(* units: a packet carries 1 or 2 units, an area holds 4, so version 3 is  *)
(* too large for process_download_type and the others take several        *)
(* packets or one.                                                         *)
EXTENDS FileTransfer

MCFileSize == [v \in Versions |-> CASE v = 1 -> 1 [] v = 2 -> 3 [] v = 3 -> 5]
MCPcNames  == {SENSOR_LIST_FILE, REGION_CONFIG_FILE, UNKNOWN_FILE}

\* Configuration commands: a dedicated network, a netmask that is not a run
\* of ones (refused), DHCP; the remote server on its port and on another
\* (refused); a LoRa setting in band and one above it (refused); two
\* offline timeouts, the second too long (refused).
Quad(a, b, c, d) == <<a, b, c, d>>
MCNetRequests ==
    {[net_mode |-> 1, ip |-> Quad(192, 168, 1, 20), gateway |-> Quad(192, 168, 1, 1),
      netmask |-> Quad(255, 255, 255, 0)],
     [net_mode |-> 1, ip |-> Quad(192, 168, 1, 20), gateway |-> Quad(192, 168, 1, 1),
      netmask |-> Quad(255, 0, 255, 0)],
     [net_mode |-> 0, ip |-> Quad(0, 0, 0, 0), gateway |-> Quad(0, 0, 0, 0),
      netmask |-> Quad(0, 0, 0, 0)]}
\* The PC also accepts the netmasks 0.0.0.0 and 255.255.255.255.
MCNetRequestsAnyMask ==
    MCNetRequests \cup
    {[net_mode |-> 1, ip |-> Quad(192, 168, 1, 20), gateway |-> Quad(192, 168, 1, 1),
      netmask |-> Quad(0, 0, 0, 0)]}
MCRemoteRequests ==
    {[port |-> 5210, pc_ip |-> Quad(10, 0, 0, 9), hvcs_ip |-> Quad(10, 0, 0, 8)],
     [port |-> 5211, pc_ip |-> Quad(10, 0, 0, 9), hvcs_ip |-> Quad(10, 0, 0, 8)]}
MCLoraRequests ==
    {[rf_freq |-> 475500000, rf_power |-> 14],
     [rf_freq |-> 490000000, rf_power |-> 14]}
====
