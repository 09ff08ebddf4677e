---------------------------- MODULE FileTransfer ----------------------------
(***************************************************************************)
(* File download over TCP (external_flash.c, the CMD_CONFIGURE_FILES_OPT   *)
(* case of analyze_command). The PC streams a file as numbered packets:    *)
(* the first carries the file name (type and version) and size, every      *)
(* packet carries data. The server answers only at the end or on an error, *)
(* so packets keep arriving after an error reply. download_file checks the *)
(* packet number against file_operate_state.packet_seq (8 bits), erases    *)
(* the file's area at the first packet, writes each packet at flash_addr,  *)
(* and at the end stores the file information in the info sector (flash   *)
(* address 0) and reloads the lists. A power loss reboots the board: the   *)
(* file state is reset and the lists are read back from flash.             *)
(* Data is counted in units of packet payload; a file is its type, its     *)
(* version and its size.                                                   *)
(***************************************************************************)
EXTENDS Naturals, Integers, FiniteSets
LOCAL INSTANCE Bitwise

CONSTANTS
    SENSOR_LIST_FILE,      \* the file types download accepts
    REGION_CONFIG_FILE,
    UNKNOWN_FILE,          \* a name get_file_type does not match
    INFO,                  \* the info sector, CONFIG_FILE_INFO_ADDR = 0
    Versions,              \* the versions the PC may send
    FileSize,              \* FileSize[v]: size of version v, in units
    MAX_CONFIG_FILE_SIZE,  \* in units
    CHUNK,                 \* most units one packet carries
    NOFILE,                \* sn 0xffffffff: no file
    MIXED,                 \* an area holding units of different files
    PcNames,               \* the file names the PC sends
    MaxJobs,               \* downloads the PC starts
    MaxReboots,
    NetRequests,           \* CMD_SET_DEVICE_NET_PARAMS payloads the PC sends
    RemoteRequests,        \* CMD_SET_REMOTE_SERVER_IP payloads
    LoraRequests,          \* CMD_LOCAL_LORA_PARAMS_OPT set payloads
    OfflineRequests,       \* CMD_SET_OFFLINE_TIMEOUT values
    MaxCfgCmds             \* configuration commands the PC sends

Types    == {SENSOR_LIST_FILE, REGION_CONFIG_FILE}
Names    == Types \cup {UNKNOWN_FILE}
SEQ_MOD  == 256                       \* rt_uint8_t packet_seq, pack_sn
Replies  == {"none", "DOWNLOAD_ERR", "DOWNLOAD_OVER"}

VARIABLES
    packet_seq,   \* file_operate_state
    file_type,
    remain,       \* negative: the rt_uint32_t has wrapped below 0
    flash_addr,   \* [at |-> area, off |-> units] ; [INFO, 0] after a reset
    version,
    info_ram,     \* g_file_info_list: [t |-> [size, sn]]
    info_flash,   \* the info sector's record
    info_ok,      \* the info sector holds what finish_download_option wrote
    area,         \* area[t]: [ver, len], len units of version ver, or ver MIXED
    lists,        \* the sensor list read_sensor_list_flie built
    pc_job,       \* the PC's download: [name, ver, sn, sent] or NoJob
    reply,        \* the server's answer to the last command, "none" if silent
    last_pkt,     \* the file the last download packet carried
    jobs, reboots,
    wnc,          \* g_wnc_config, the settings in force
    wnc_bak,      \* g_wnc_config_bak, which the TCP setters edit
    cfg_flash,    \* [P, B]: the WNC_CONFIG and WNC_CONFIG_BAK sectors
    cfg_lost,     \* ghost: {c} when the power failed while c was being saved
    cfg_cmds

cfgvars == <<wnc, wnc_bak, cfg_flash, cfg_lost, cfg_cmds>>
vars == <<packet_seq, file_type, remain, flash_addr, version, info_ram,
          info_flash, info_ok, area, lists, pc_job, reply, last_pkt, jobs,
          reboots, cfgvars>>
server == <<packet_seq, file_type, remain, flash_addr, version>>

\* No download in progress at the PC.
NoJob == [name |-> "none", ver |-> 0, sn |-> 0, sent |-> 0]

MinOf(m, n) == IF m < n THEN m ELSE n

\* read_sensor_list_flie: no list when sn is 0 or 0xffffffff, otherwise the
\* lines of the first size bytes of the area; a record from a damaged info
\* sector gives an arbitrary list.
\* A list is "file" (the lines of the first len units of version ver),
\* "empty" or "garbage".
read_sensor_list_flie(ok, inf, ar) ==
    IF ~ok \/ (inf.sn \notin {0, NOFILE} /\ ar.ver = MIXED)
    THEN [kind |-> "garbage", ver |-> 0, len |-> 0]
    ELSE IF inf.sn \in {0, NOFILE} THEN [kind |-> "empty", ver |-> 0, len |-> 0]
    ELSE [kind |-> "file", ver |-> ar.ver, len |-> MinOf(ar.len, inf.size)]

\* A list built from a whole file.
Whole(l) == l.kind = "file" /\ l.len = FileSize[l.ver]

\* Mutant: remain left out of the reset.
FileOperateResetKeepRemain ==
    /\ packet_seq' = 0
    /\ file_type' = REGION_CONFIG_FILE
    /\ UNCHANGED remain
    /\ flash_addr' = [at |-> INFO, off |-> 0]
    /\ version' = 0

\* file_operate_reset: the state is zeroed; flash_addr 0 is the info sector.
file_operate_reset ==
    /\ packet_seq' = 0
    /\ file_type' = REGION_CONFIG_FILE
    /\ remain' = 0
    /\ flash_addr' = [at |-> INFO, off |-> 0]
    /\ version' = 0

-----------------------------------------------------------------------------
(* The configuration store (external_flash.c): g_wnc_config is saved in    *)
(* two flash sectors, the primary WNC_CONFIG and the backup WNC_CONFIG_BAK. *)
(* A configuration is the record of the wnc_cfg_t fields. An address is   *)
(* its four bytes in memory order, the first dotted number first; a 32-bit  *)
(* word keeps its bits as a signed number, so 0xffffffff is -1.             *)

CONFIG_VERSION == 538379523             \* 0x20170503
DHCP_MODE      == 0
DEDICATED_MODE == 1
REMOTE_UDP_SERVER_PORT == 5210
ZERO_ADDR      == <<0, 0, 0, 0>>
ONES_ADDR      == <<255, 255, 255, 255>>

\* DEF_DEV_IP 0x0200a8c0, DEF_GATEWAY 0x0100aec0, DEF_NETMASK 0x00ffffff.
DefaultConfig ==
    [version |-> CONFIG_VERSION, net_mode |-> DHCP_MODE,
     ip |-> <<192, 168, 0, 2>>, gateway |-> <<192, 174, 0, 1>>,
     netmask |-> <<255, 255, 255, 0>>, pc_ip |-> ZERO_ADDR, hvcs_ip |-> ZERO_ADDR,
     rf_freq |-> 471100000, rf_power |-> 17, time_offline |-> 35]

\* An erased sector reads as 0xff bytes.
Erased ==
    [version |-> -1, net_mode |-> 255, ip |-> ONES_ADDR, gateway |-> ONES_ADDR,
     netmask |-> ONES_ADDR, pc_ip |-> ONES_ADDR, hvcs_ip |-> ONES_ADDR,
     rf_freq |-> -1, rf_power |-> 255, time_offline |-> 65535]

\* check_wnc_config: the version, the addresses of a dedicated network, the
\* frequency band (a word of -1 is above it) and the power range.
check_wnc_config(c) ==
    /\ c.version = CONFIG_VERSION
    /\ c.net_mode = DEDICATED_MODE =>
           {c.ip, c.gateway, c.netmask} \cap {ZERO_ADDR, ONES_ADDR} = {}
    /\ c.rf_freq >= 470300000 /\ c.rf_freq <= 489300000
    /\ c.rf_power <= 17 /\ c.rf_power >= 5

\* ip_str_to_digit of the four numbers sscanf read: it fails when one is
\* out of 0..255; otherwise ip[0] is the low byte, the first in memory.
ip_str_to_digit(q) == [ok |-> \A k \in 1..4 : q[k] >= 0 /\ q[k] <= 255, value |-> q]

\* The mask in host order (ntohl), most significant byte first, minus one:
\* the lowest nonzero byte loses one and the bytes after it become 0xff; 0
\* wraps to 0xffffffff.
MinusOne(b) ==
    IF b = ZERO_ADDR THEN ONES_ADDR
    ELSE LET k == CHOOSE k \in 1..4 : b[k] # 0 /\ \A m \in (k + 1)..4 : b[m] = 0
         IN  [m \in 1..4 |-> IF m < k THEN b[m] ELSE IF m = k THEN b[m] - 1 ELSE 255]

\* netmask_str_to_digit: the address converts and ((v - 1) | v) is
\* 0xffffffff.
netmask_str_to_digit(q) ==
    [ok    |-> ip_str_to_digit(q).ok /\ \A m \in 1..4 : (MinusOne(q)[m] | q[m]) = 255,
     value |-> q]

\* get_wnc_config: the primary sector if it passes the check, else the
\* backup, else init_wnc_config, which sets every field checked to its
\* default and calls user_init (init says so).
get_wnc_config(fl) ==
    IF check_wnc_config(fl.P) THEN [cfg |-> fl.P, init |-> FALSE]
    ELSE IF check_wnc_config(fl.B) THEN [cfg |-> fl.B, init |-> FALSE]
    ELSE [cfg |-> DefaultConfig, init |-> TRUE]

\* Mutant: both sectors erased before either is written.
SetFlashEraseBoth(fl, c, k) ==
    [P |-> IF k >= 3 THEN c ELSE IF k >= 1 THEN Erased ELSE fl.P,
     B |-> IF k >= 4 THEN c ELSE IF k >= 2 THEN Erased ELSE fl.B]

\* The sectors after the first k of the four flash operations of
\* set_wnc_config (and of user_init): erase and write the primary, then
\* erase and write the backup.
SetFlash(fl, c, k) ==
    [P |-> IF k >= 2 THEN c ELSE IF k = 1 THEN Erased ELSE fl.P,
     B |-> IF k >= 4 THEN c ELSE IF k = 3 THEN Erased ELSE fl.B]

\* user_init's erase of the info sector and of the list files' blocks: the
\* info reads 0xff (size and sn 0xffffffff, no file) and the sensor-list
\* area holds no file's units.
ErasedInfo == [t \in Types |-> [size |-> -1, sn |-> NOFILE]]
UserInitArea(ar) == [ar EXCEPT ![SENSOR_LIST_FILE] = [ver |-> MIXED, len |-> 0]]

Init ==
    /\ packet_seq = 0
    /\ file_type = REGION_CONFIG_FILE
    /\ remain = 0
    /\ flash_addr = [at |-> INFO, off |-> 0]
    /\ version = 0
    /\ info_ram = [t \in Types |-> [size |-> FileSize[1], sn |-> 1]]
    /\ info_flash = info_ram
    /\ info_ok = TRUE
    /\ area = [t \in Types |-> [ver |-> 1, len |-> FileSize[1]]]
    /\ lists = read_sensor_list_flie(TRUE, info_ram[SENSOR_LIST_FILE],
                                     area[SENSOR_LIST_FILE])
    /\ pc_job = NoJob
    /\ reply = "none"
    /\ last_pkt = [name |-> "none", ver |-> 0]
    /\ jobs = 0
    /\ reboots = 0
    /\ wnc = DefaultConfig
    /\ wnc_bak = DefaultConfig
    /\ cfg_flash = [P |-> DefaultConfig, B |-> DefaultConfig]
    /\ cfg_lost = {}
    /\ cfg_cmds = 0

-----------------------------------------------------------------------------
(* The server side: download_file and what it calls.                       *)

\* A packet's data: units of file `name', version `ver'. get_file_type must
\* find the name, and process_download_type's size check must pass.
\* Mutant: the size check dropped.
AcceptedNoSizeCheck(data) == data.name # UNKNOWN_FILE

Accepted(data) ==
    data.name # UNKNOWN_FILE /\ FileSize[data.ver] <= MAX_CONFIG_FILE_SIZE

\* The area after n units of data are written at addr: they extend the file
\* only when they are the next units of the file the area was erased for.
WriteArea(ar, addr, data, n) ==
    IF n = 0 \/ addr.at = INFO THEN ar
    ELSE [ar EXCEPT ![addr.at] =
            IF @.ver = data.ver /\ addr.at = data.name /\ addr.off = @.len
            THEN [ver |-> @.ver, len |-> @.len + n]
            ELSE [ver |-> MIXED, len |-> 0]]

\* Mutant: the info sector written but init_parking_lists not called.
FinishNoReload(ft, ver, info, ar, ok) ==
    IF ft = SENSOR_LIST_FILE
    THEN LET new == [info EXCEPT ![SENSOR_LIST_FILE].sn = ver]
         IN  /\ info_flash' = new
             /\ info_ok' = TRUE
             /\ info_ram' = new
             /\ UNCHANGED lists
    ELSE /\ info_ram' = info
         /\ info_ok' = ok
         /\ UNCHANGED <<info_flash, lists>>

\* finish_download_option for a sensor list: its sn becomes the version, the
\* info sector is erased and rewritten with g_file_info_list, and
\* init_parking_lists reads it back and rebuilds the lists. A region file
\* ("not support yet") and an unknown type (default) return at once.
FinishDownload(ft, ver, info, ar, ok) ==
    IF ft = SENSOR_LIST_FILE
    THEN LET new == [info EXCEPT ![SENSOR_LIST_FILE].sn = ver]
         IN  /\ info_flash' = new
             /\ info_ok' = TRUE
             /\ info_ram' = new
             /\ lists' = read_sensor_list_flie(TRUE, new[SENSOR_LIST_FILE],
                                               ar[SENSOR_LIST_FILE])
    ELSE /\ info_ram' = info
         /\ info_ok' = ok
         /\ UNCHANGED <<info_flash, lists>>

\* process_download_type for a file it accepts: the size goes into
\* g_file_info_list, flash_addr to the start of the file's area, remain and
\* file_size to the size, and the area is erased.
process_download_type(data) ==
    [addr |-> [at |-> data.name, off |-> 0],
     rem  |-> FileSize[data.ver],
     info |-> [info_ram EXCEPT ![data.name].size = FileSize[data.ver]],
     area |-> [area EXCEPT ![data.name] = [ver |-> data.ver, len |-> 0]]]

\* download_file(pack_sn, data, data_len) with n units of data after the
\* header: ++packet_seq must equal pack_sn; packet 1 goes through
\* process_download_type first; then the data is written at flash_addr, and
\* when remain reaches 0 the file is finished and the state reset. The reply
\* is sent only on DOWNLOAD_ERR and DOWNLOAD_OVER.
download_file(pack_sn, data, n) ==
    LET seq   == (packet_seq + 1) % SEQ_MOD
        first == pack_sn = 1
        take  == first /\ Accepted(data)
        ft    == IF first THEN data.name ELSE file_type
        ver   == IF first /\ data.name # UNKNOWN_FILE THEN data.ver ELSE version
        pre   == process_download_type(data)
        addr  == IF take THEN pre.addr ELSE flash_addr
        rem   == IF take THEN pre.rem ELSE remain
        info  == IF take THEN pre.info ELSE info_ram
        erased == IF take THEN pre.area ELSE area
        ar    == WriteArea(erased, addr, data, n)
        ok    == info_ok /\ (addr.at # INFO \/ n = 0)
    IN  /\ last_pkt' = data
        /\ \/ /\ seq # pack_sn
              /\ packet_seq' = seq
              /\ reply' = "DOWNLOAD_ERR"
              /\ UNCHANGED <<file_type, remain, flash_addr, version, info_ram,
                             info_flash, info_ok, area, lists>>
           \/ /\ seq = pack_sn /\ first /\ ~Accepted(data)
              /\ packet_seq' = seq
              /\ file_type' = ft
              /\ version' = ver
              /\ reply' = "DOWNLOAD_ERR"
              /\ UNCHANGED <<remain, flash_addr, info_ram, info_flash, info_ok,
                             area, lists>>
           \/ /\ seq = pack_sn /\ (first => Accepted(data))
              /\ area' = ar
              /\ IF rem - n = 0
                 THEN /\ FinishDownload(ft, ver, info, ar, ok)
                      /\ file_operate_reset
                      /\ reply' = "DOWNLOAD_OVER"
                 ELSE /\ packet_seq' = seq
                      /\ file_type' = ft
                      /\ version' = ver
                      /\ flash_addr' = [addr EXCEPT !.off = @ + n]
                      /\ remain' = rem - n
                      /\ info_ram' = info
                      /\ info_ok' = ok
                      /\ reply' = "none"
                      /\ UNCHANGED <<info_flash, lists>>

-----------------------------------------------------------------------------
(* The PC, the other clients and power.                                    *)

\* The PC starts a download: packet 1 carries the file name, the size and
\* the first n units (payload[0] is not 0, so the command is no upload).
Start(name, v) ==
    /\ pc_job = NoJob
    /\ jobs < MaxJobs
    /\ \E n \in 0..MinOf(CHUNK, FileSize[v]) :
         LET data == [name |-> name, ver |-> v]
         IN  /\ download_file(1, data, n)
             /\ pc_job' = IF n = FileSize[v] THEN NoJob
                          ELSE [name |-> name, ver |-> v, sn |-> 1, sent |-> n]
    /\ jobs' = jobs + 1
    /\ UNCHANGED <<reboots, cfgvars>>

\* The PC sends the next packet without waiting: replies come only at the
\* end or on an error, so packets already sent arrive after an error too.
Continue ==
    /\ pc_job # NoJob
    /\ \E n \in 1..MinOf(CHUNK, FileSize[pc_job.ver] - pc_job.sent) :
         LET sn == (pc_job.sn + 1) % SEQ_MOD
         IN  /\ download_file(sn, [name |-> pc_job.name, ver |-> pc_job.ver], n)
             /\ pc_job' = IF pc_job.sent + n = FileSize[pc_job.ver] THEN NoJob
                          ELSE [pc_job EXCEPT !.sn = sn, !.sent = @ + n]
    /\ UNCHANGED <<jobs, reboots, cfgvars>>

\* The PC gives up on its download (it saw DOWNLOAD_ERR, or the connection
\* was lost); the server is not told.
Abandon ==
    /\ pc_job # NoJob
    /\ pc_job' = NoJob
    /\ UNCHANGED <<server, info_ram, info_flash, info_ok, area, lists, reply,
                   last_pkt, jobs, reboots, cfgvars>>

\* A client uploads a file (pack_sn 1, payload[0] = 0): upload_file streams
\* it out, and file_operate_reset ends the command whatever it did.
Upload ==
    /\ file_operate_reset
    /\ reply' = "none"
    /\ UNCHANGED <<info_ram, info_flash, info_ok, area, lists, pc_job,
                   last_pkt, jobs, reboots, cfgvars>>

\* The boot of rt_application_init from the flash `fl', `inf', `ok', `ar':
\* get_wnc_config, whose fallback init_wnc_config runs user_init (both
\* sectors written, the info sector and the list blocks erased), the copy
\* into g_wnc_config_bak, file_operate_reset, and init_parking_lists, which
\* reads g_file_info_list from the info sector and rebuilds the lists. The
\* TCP connection is gone.
Boot(fl, inf, ok, ar) ==
    LET rd   == get_wnc_config(fl)
        infF == IF rd.init THEN ErasedInfo ELSE inf
        okF  == rd.init \/ ok
        arF  == IF rd.init THEN UserInitArea(ar) ELSE ar
    IN  /\ reboots < MaxReboots
        /\ wnc' = rd.cfg
        /\ wnc_bak' = rd.cfg
        /\ cfg_flash' = IF rd.init THEN [P |-> rd.cfg, B |-> rd.cfg] ELSE fl
        /\ info_flash' = infF
        /\ info_ok' = okF
        /\ area' = arF
        /\ file_operate_reset
        /\ info_ram' = infF
        /\ lists' = read_sensor_list_flie(okF, infF[SENSOR_LIST_FILE],
                                          arF[SENSOR_LIST_FILE])
        /\ pc_job' = NoJob
        /\ reply' = "none"
        /\ reboots' = reboots + 1
        /\ UNCHANGED <<last_pkt, jobs>>

\* Power loss between two commands.
Reboot ==
    /\ Boot(cfg_flash, info_flash, info_ok, area)
    /\ cfg_lost' = {}
    /\ UNCHANGED cfg_cmds

\* set_wnc_config after a setter has put c in g_wnc_config_bak: both
\* sectors erased and written with it, one after the other, then c copied
\* into g_wnc_config. The power may fail after any of the first three
\* flash operations; the board then boots from what they left.
set_wnc_config(c) ==
    \/ /\ cfg_flash' = SetFlash(cfg_flash, c, 4)
       /\ wnc' = c
       /\ wnc_bak' = c
       /\ UNCHANGED <<server, info_ram, info_flash, info_ok, area, lists,
                      pc_job, reply, last_pkt, jobs, reboots, cfg_lost>>
    \/ \E k \in 1..3 :
          /\ Boot(SetFlash(cfg_flash, c, k), info_flash, info_ok, area)
          /\ cfg_lost' = {c}

\* The PC's configuration commands: one at a time, with no download of its
\* own under way.
CfgCmd == pc_job = NoJob /\ cfg_cmds < MaxCfgCmds /\ cfg_cmds' = cfg_cmds + 1

\* A command a setter refuses changes nothing but the answer.
Refused ==
    UNCHANGED <<server, info_ram, info_flash, info_ok, area, lists, pc_job,
                reply, last_pkt, jobs, reboots, wnc, wnc_bak, cfg_flash, cfg_lost>>

\* set_device_net_params: mode 0 selects DHCP; otherwise the ip, gateway
\* and netmask must convert, and dedicated mode is set with them.
SetDeviceNetParams(r) ==
    /\ CfgCmd
    /\ IF r.net_mode = 0
       THEN set_wnc_config([wnc_bak EXCEPT !.net_mode = DHCP_MODE])
       ELSE LET ip == ip_str_to_digit(r.ip)
                gw == ip_str_to_digit(r.gateway)
                nm == netmask_str_to_digit(r.netmask)
            IN  IF ~(ip.ok /\ gw.ok /\ nm.ok) THEN Refused
                ELSE set_wnc_config([wnc_bak EXCEPT !.net_mode = DEDICATED_MODE,
                                     !.ip = ip.value, !.gateway = gw.value,
                                     !.netmask = nm.value])

\* set_remote_server_ip: the port must be REMOTE_UDP_SERVER_PORT and both
\* addresses must convert.
SetRemoteServerIp(r) ==
    /\ CfgCmd
    /\ LET pc == ip_str_to_digit(r.pc_ip)
           hv == ip_str_to_digit(r.hvcs_ip)
       IN  IF r.port # REMOTE_UDP_SERVER_PORT \/ ~pc.ok \/ ~hv.ok THEN Refused
           ELSE set_wnc_config([wnc_bak EXCEPT !.pc_ip = pc.value, !.hvcs_ip = hv.value])

\* set_lora_params: 470.3 to 489.3 MHz and 5 to 17 dBm.
SetLoraParams(r) ==
    /\ CfgCmd
    /\ IF r.rf_freq < 470300000 \/ r.rf_freq > 489300000
          \/ r.rf_power < 5 \/ r.rf_power > 17
       THEN Refused
       ELSE set_wnc_config([wnc_bak EXCEPT !.rf_freq = r.rf_freq,
                            !.rf_power = r.rf_power])

\* set_offline_timeout: at most 245 minutes.
SetOfflineTimeout(t) ==
    /\ CfgCmd
    /\ IF t > 245 THEN Refused
       ELSE set_wnc_config([wnc_bak EXCEPT !.time_offline = t])

\* CMD_USER_INIT, user_init: the network fields of g_wnc_config (not of
\* g_wnc_config_bak) go back to their defaults, g_wnc_config is written to
\* both sectors, and the info sector and the list blocks are erased. The
\* power may fail after any of the four config sector operations.
UserInitNet(c) ==
    [c EXCEPT !.net_mode = DefaultConfig.net_mode, !.ip = DefaultConfig.ip,
              !.gateway = DefaultConfig.gateway, !.netmask = DefaultConfig.netmask,
              !.pc_ip = DefaultConfig.pc_ip, !.hvcs_ip = DefaultConfig.hvcs_ip]

user_init ==
    /\ CfgCmd
    /\ LET c == UserInitNet(wnc)
       IN  \/ /\ wnc' = c
              /\ cfg_flash' = SetFlash(cfg_flash, c, 4)
              /\ info_flash' = ErasedInfo
              /\ info_ok' = TRUE
              /\ area' = UserInitArea(area)
              /\ UNCHANGED <<server, info_ram, lists, pc_job, reply, last_pkt,
                             jobs, reboots, wnc_bak, cfg_lost>>
           \/ \E k \in 1..4 :
                 /\ Boot(SetFlash(cfg_flash, c, k), info_flash, info_ok, area)
                 /\ cfg_lost' = {c}

Next ==
    \/ \E name \in PcNames, v \in Versions : Start(name, v)
    \/ Continue
    \/ Abandon
    \/ Upload
    \/ Reboot
    \/ \E r \in NetRequests : SetDeviceNetParams(r)
    \/ \E r \in RemoteRequests : SetRemoteServerIp(r)
    \/ \E r \in LoraRequests : SetLoraParams(r)
    \/ \E t \in OfflineRequests : SetOfflineTimeout(t)
    \/ user_init

Spec == Init /\ [][Next]_vars

-----------------------------------------------------------------------------
(* Properties.                                                             *)

\* Offsets and sizes: at most the largest file the PC sends.
Units == 0..(CHOOSE m \in {FileSize[v] : v \in Versions} :
                 \A v \in Versions : FileSize[v] <= m)
List  == [kind : {"file"}, ver : Versions, len : Units] \cup
         [kind : {"empty", "garbage"}, ver : {0}, len : {0}]
Info  == [size : Units, sn : Versions \cup {0, NOFILE}]

Addr   == [1..4 -> 0..255]
Config == [version : Int, net_mode : 0..255, ip : Addr, gateway : Addr,
           netmask : Addr, pc_ip : Addr, hvcs_ip : Addr, rf_freq : Int,
           rf_power : 0..255, time_offline : 0..65535]

TypeOK ==
    /\ packet_seq \in 0..(SEQ_MOD - 1)
    /\ file_type \in Names
    /\ remain \in Int
    /\ flash_addr \in [at : Types \cup {INFO}, off : Units]
    /\ version \in Versions \cup {0}
    /\ info_ram \in [Types -> Info \cup {ErasedInfo[SENSOR_LIST_FILE]}]
    /\ info_flash \in [Types -> Info \cup {ErasedInfo[SENSOR_LIST_FILE]}]
    /\ info_ok \in BOOLEAN
    /\ area \in [Types -> [ver : Versions \cup {MIXED}, len : 0..MAX_CONFIG_FILE_SIZE]]
    /\ lists \in List
    /\ pc_job \in {NoJob} \cup [name : PcNames, ver : Versions,
                                sn : 0..(SEQ_MOD - 1), sent : Units]
    /\ reply \in Replies
    /\ last_pkt \in [name : Names \cup {"none"}, ver : Versions \cup {0}]
    /\ {wnc, wnc_bak, cfg_flash.P, cfg_flash.B} \subseteq Config
    /\ cfg_lost \subseteq Config /\ Cardinality(cfg_lost) <= 1
    /\ cfg_cmds \in 0..MaxCfgCmds

\* When download_file has answered DOWNLOAD_OVER to a packet of a sensor
\* list, finish_download_option has rebuilt the lists from that file: all
\* of its units, of the version the PC sent. This needs the area erased at
\* packet 1, every packet written in order at flash_addr, remain counting
\* to 0 exactly at the end, and init_parking_lists run after the info
\* sector is written.
DownloadedFileLoaded ==
    (reply = "DOWNLOAD_OVER" /\ last_pkt.name = SENSOR_LIST_FILE)
        => Whole(lists) /\ lists.ver = last_pkt.ver

\* The write cursor, the count left and the area agree: flash_addr is in
\* the area of file_type, just past the units written there, and flash_addr
\* plus remain is the size process_download_type recorded.
CursorMatchesArea ==
    /\ flash_addr.at = file_type
    /\ area[file_type] = [ver |-> version, len |-> flash_addr.off]
    /\ flash_addr.off + remain = info_ram[file_type].size

\* While a download is under way (remain above 0 and not wrapped), the
\* cursor matches the area: download_file keeps them in step across
\* packets, resets and the other clients' commands.
WriteCursorConsistent == remain > 0 => CursorMatchesArea

\* After a power loss the settings in force are those in force before it,
\* or, when the power failed while set_wnc_config or user_init was saving
\* new ones, the new ones: the order of the erases and writes keeps one of
\* the two sectors valid, so get_wnc_config never falls back to
\* init_wnc_config (whose user_init also erases the list files).
ConfigSurvivesReboot ==
    [][reboots' > reboots => wnc' \in {wnc} \cup cfg_lost']_vars

\* g_wnc_config_bak, the copy the TCP setters edit and set_wnc_config
\* saves, agrees with g_wnc_config between commands.
BakMirrorsConfig == wnc_bak = wnc

\* After a boot, init_parking_lists builds the sensor list from a whole file
\* or finds none: the lists a power loss leaves are never part of a file or
\* read through a damaged info sector.
BootListsWhole ==
    [][reboots' > reboots => Whole(lists') \/ lists'.kind = "empty"]_vars

\* A well-formed first packet (pack_sn 1, a known type of a size that fits)
\* sent when the PC starts a download is never refused.
FreshDownloadAccepted ==
    [][(jobs' > jobs /\ Accepted(last_pkt')) => reply' # "DOWNLOAD_ERR"]_vars
====
