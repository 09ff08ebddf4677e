------------------------------ MODULE LogStore ------------------------------
(***************************************************************************)
(* The sector-ring log of log_base.c, as the work-state log uses it: the   *)
(* sysctrl thread appends records with log_write, the TCP thread uploads   *)
(* the log with prepare_read, calculate_file_size and log_read (through   *)
(* upload_file), and a reset may strike between any two flash operations, *)
(* after which logs_init recovers the write position from the flash.      *)
(*                                                                         *)
(* Data is abstracted to units: a sector holds a header of HDR units and  *)
(* SECTOR_UNITS - HDR data units. A programmed data unit holds its        *)
(* position in the history of all units ever programmed, so a piece of    *)
(* the log is intact exactly when its units are consecutive numbers. Log  *)
(* text never contains 0xff, which is what an erased unit reads as.       *)
(***************************************************************************)
EXTENDS Integers, Sequences, SequencesExt

CONSTANTS
    SECTOR_NUM,     \* sectors of the log (WORK_STATE_LOG_SCT_NUM)
    SECTOR_UNITS,   \* FLASH_BYTES_PER_SECTOR, in units
    RecordSizes,    \* sizes of the records log_write is given
    FirstChunkUnits,\* room for log data in the first upload packet
    ChunkUnits,     \* room for log data in a following packet
    MaxUnits,       \* bound on the units ever programmed
    MaxResets,      \* bound on resets
    ResetPoints     \* writer steps a reset may interrupt

HDR      == 1                              \* sizeof(struct sector_header)
DATA     == SECTOR_UNITS - HDR
MAX_SIZE == SECTOR_NUM * SECTOR_UNITS      \* WORK_STATE_LOG_MAX_SIZE
Sectors  == 0 .. SECTOR_NUM - 1

ERASED  == 0         \* an erased data unit (0xff bytes)
HEADER  == 0 - 1     \* header bytes read as data
BEYOND  == 0 - 2     \* bytes past the log's area

U16(x) == x % 65536
\* A rt_uint32_t difference. A negative one wraps to 2^32 minus at most
\* MAX_SIZE, which only meets min(buf_size, .) and a test against 0, so
\* the largest TLC integer stands in for it.
U32(x) == IF x >= 0 THEN x ELSE 2147483647
Int16(x) == IF x >= 32768 THEN x - 65536 ELSE x
MinOf(a, b) == IF a < b THEN a ELSE b

\* sn_after(a, b): "a is later than b", with both casts to rt_int16_t
\* done before the subtraction.
sn_after(a, b) == Int16(b) - Int16(a) < 0

ErasedSector == [used |-> FALSE, sn |-> 65535, data |-> [j \in 1..DATA |-> ERASED]]

VARIABLES
    flash,          \* flash[k]: sector k's header and data units
    next_sn,        \* log_info.next_sn
    write_offset,   \* log_info.write_offset
    read_offset,    \* log_info.read_offset
    wr,             \* the log_write in progress: pc, size left, chunk
                    \* units left, and the address being programmed
    up,             \* the upload: whether it runs or is done, remain,
                    \* the units sent, the log when it began, and whether
                    \* the log was left alone since
    written,        \* units ever programmed (the last one's number)
    resets

vars == <<flash, next_sn, write_offset, read_offset, wr, up, written, resets>>

\* The unit at log offset o as rt_device_read returns it.
UnitAt(o) ==
    IF o >= MAX_SIZE THEN BEYOND
    ELSE IF o % SECTOR_UNITS < HDR THEN HEADER
    ELSE flash[o \div SECTOR_UNITS].data[(o % SECTOR_UNITS) - HDR + 1]

-----------------------------------------------------------------------------
(* logs_init and perpare_write_info.                                       *)

\* The sector loop: the latest header by sn_after among the used sectors
\* before the first unused one.
RECURSIVE ScanWrite(_, _, _)
ScanWrite(i, max, off) ==
    IF i = SECTOR_NUM \/ ~flash[i].used THEN [i |-> i, max |-> max, off |-> off]
    ELSE IF i = 0 \/ sn_after(flash[i].sn, max)
         THEN ScanWrite(i + 1, flash[i].sn, i * SECTOR_UNITS)
         ELSE ScanWrite(i + 1, max, off)

\* The inner loop: the data units before the first erased one in sector k.
FilledUnits(k) ==
    LET e == {j \in 1..DATA : flash[k].data[j] = ERASED}
    IN IF e = {} THEN DATA ELSE Min(e) - 1

\* Mutant: the write offset resumes right after the header, without the
\* scan for the first 0xff byte.
WriteInfoNoScan ==
    LET r == ScanWrite(0, 0, 0)
    IN IF r.i = 0 THEN [next_sn |-> 0, write_offset |-> 0]
       ELSE [next_sn |-> U16(r.max + 1), write_offset |-> r.off + HDR]

\* perpare_write_info after the memset of logs_init: without a used first
\* sector it returns with next_sn and write_offset 0.
WriteInfo ==
    LET r == ScanWrite(0, 0, 0)
    IN IF r.i = 0 THEN [next_sn |-> 0, write_offset |-> 0]
       ELSE [next_sn |-> U16(r.max + 1),
             write_offset |-> r.off + HDR + FilledUnits(r.off \div SECTOR_UNITS)]

-----------------------------------------------------------------------------
(* prepare_read, calculate_file_size and log_read.                         *)

\* prepare_read's loop: the earliest header by sn_before; read_offset is
\* left as it was when the first sector is unused.
RECURSIVE ScanRead(_, _, _)
ScanRead(i, min, off) ==
    IF i = SECTOR_NUM \/ ~flash[i].used THEN off
    ELSE IF i = 0 \/ sn_after(min, flash[i].sn)
         THEN ScanRead(i + 1, flash[i].sn, i * SECTOR_UNITS)
         ELSE ScanRead(i + 1, min, off)

prepare_read == ScanRead(0, 0, read_offset)

calculate_file_size(ro, wo) ==
    LET sct_num == IF ro > wo THEN SECTOR_NUM - 1 ELSE wo \div SECTOR_UNITS
    IN sct_num * DATA
         + (IF wo % SECTOR_UNITS # 0 THEN (wo % SECTOR_UNITS) - HDR ELSE 0)

\* log_read(buf_size) from offset off: skip a header at a sector start
\* (wrapping at max_size), read to the end of the sector or, in the write
\* sector, up to write_offset (a uint32 difference), stop when that is 0.
RECURSIVE LogRead(_, _, _)
LogRead(off, buf, got) ==
    IF buf = 0 THEN [off |-> off, units |-> got]
    ELSE
      LET o   == IF off % SECTOR_UNITS = 0
                 THEN (IF off >= MAX_SIZE THEN 0 ELSE off) + HDR ELSE off
          tmp == IF o \div SECTOR_UNITS # write_offset \div SECTOR_UNITS
                 THEN SECTOR_UNITS - (o % SECTOR_UNITS)
                 ELSE U32(write_offset - o)
          n   == MinOf(buf, tmp)
      IN IF tmp = 0 THEN [off |-> o, units |-> got]
         ELSE LogRead(o + n, buf - n, got \o [j \in 1..n |-> UnitAt(o + j - 1)])

\* The wrappers upload_file calls: prepare_read_work_state_log gives the
\* read offset and the size, read_file of a WORKSTATE_LOG_FILE is
\* read_work_state_log, which is log_read.
prepare_read_work_state_log ==
    [ro |-> prepare_read, size |-> calculate_file_size(prepare_read, write_offset)]

read_work_state_log(off, max_size) == LogRead(off, max_size, <<>>)

read_file(off, max_size) == read_work_state_log(off, max_size)

-----------------------------------------------------------------------------
(* The units the log holds, and the reference an upload is compared with. *)

StoredUnits == {flash[k].data[j] : k \in Sectors, j \in 1..DATA} \ {ERASED}

\* The log's contents oldest first: the stored units in history order.
LogContents == SetToSortSeq(StoredUnits, <)

NoUpload == [active |-> FALSE, done |-> FALSE, remain |-> 0, sent |-> <<>>,
             expect |-> <<>>, quiet |-> TRUE]

Init ==
    /\ flash = [k \in Sectors |-> ErasedSector]
    /\ next_sn = 0
    /\ write_offset = 0
    /\ read_offset = 0
    /\ wr = [pc |-> "idle", size |-> 0, left |-> 0, addr |-> 0]
    /\ up = NoUpload
    /\ written = 0
    /\ resets = 0

-----------------------------------------------------------------------------
(* log_write, one flash operation per step. *)

\* A caller (work_state_time_period) hands log_write a record.
LogWriteStart ==
    \E n \in RecordSizes :
        /\ wr.pc = "idle"
        /\ written + n <= MaxUnits
        /\ wr' = [wr EXCEPT !.pc = "loop", !.size = n]
        /\ UNCHANGED <<flash, next_sn, write_offset, read_offset, up, written, resets>>

\* Mutant: the wrap tests write_offset > max_size.
LogWriteSectorWrapGt ==
    /\ wr.pc = "loop"
    /\ wr.size > 0
    /\ write_offset % SECTOR_UNITS = 0
    /\ LET off == IF write_offset > MAX_SIZE THEN 0 ELSE write_offset
       IN /\ write_offset' = off
          /\ flash' = [flash EXCEPT ![off \div SECTOR_UNITS] = ErasedSector]
    /\ wr' = [wr EXCEPT !.pc = "erased"]
    /\ up' = [up EXCEPT !.quiet = ~up.active /\ up.quiet]
    /\ UNCHANGED <<next_sn, read_offset, written, resets>>

\* Reaching a new sector: wrap at max_size, then erase the sector.
LogWriteSector ==
    /\ wr.pc = "loop"
    /\ wr.size > 0
    /\ write_offset % SECTOR_UNITS = 0
    /\ LET off == IF write_offset >= MAX_SIZE THEN 0 ELSE write_offset
       IN /\ write_offset' = off
          /\ flash' = [flash EXCEPT ![off \div SECTOR_UNITS] = ErasedSector]
    /\ wr' = [wr EXCEPT !.pc = "erased"]
    /\ up' = [up EXCEPT !.quiet = ~up.active /\ up.quiet]
    /\ UNCHANGED <<next_sn, read_offset, written, resets>>

\* The header with next_sn++ is written, and the offset moves past it.
LogWriteHeader ==
    /\ wr.pc = "erased"
    /\ flash' = [flash EXCEPT ![write_offset \div SECTOR_UNITS].used = TRUE,
                              ![write_offset \div SECTOR_UNITS].sn = next_sn]
    /\ next_sn' = U16(next_sn + 1)
    /\ write_offset' = write_offset + HDR
    /\ wr' = [wr EXCEPT !.pc = "loop"]
    /\ UNCHANGED <<read_offset, up, written, resets>>

\* free_size: the part of the record that fits in this sector.
LogWriteChunk ==
    /\ wr.pc = "loop"
    /\ wr.size > 0
    /\ write_offset % SECTOR_UNITS # 0
    /\ LET free == MinOf(SECTOR_UNITS - (write_offset % SECTOR_UNITS), wr.size)
       IN wr' = [pc |-> "program", size |-> wr.size - free, left |-> free,
                 addr |-> write_offset]
    /\ UNCHANGED <<flash, next_sn, write_offset, read_offset, up, written, resets>>

\* rt_device_write programs the chunk a unit at a time; after the last one
\* write_offset += free_size and the while loop tests size again.
ProgramUnit ==
    /\ wr.pc = "program"
    /\ flash' = [flash EXCEPT ![wr.addr \div SECTOR_UNITS].data[(wr.addr % SECTOR_UNITS) - HDR + 1]
                                  = written + 1]
    /\ written' = written + 1
    /\ up' = [up EXCEPT !.quiet = ~up.active /\ up.quiet]
    /\ IF wr.left = 1
       THEN /\ write_offset' = wr.addr + 1
            /\ wr' = [wr EXCEPT !.pc = IF wr.size = 0 THEN "idle" ELSE "loop",
                                !.left = 0, !.addr = 0]
       ELSE /\ wr' = [wr EXCEPT !.left = wr.left - 1, !.addr = wr.addr + 1]
            /\ UNCHANGED write_offset
    /\ UNCHANGED <<next_sn, read_offset, resets>>

-----------------------------------------------------------------------------
(* Power loss and restart: logs_init recovers the offsets from the flash, *)
(* and the upload, whose TCP connection is gone, is abandoned.            *)

Reset ==
    /\ wr.pc \in ResetPoints
    /\ resets < MaxResets
    /\ next_sn' = WriteInfo.next_sn
    /\ write_offset' = WriteInfo.write_offset
    /\ read_offset' = 0
    /\ wr' = [pc |-> "idle", size |-> 0, left |-> 0, addr |-> 0]
    /\ up' = NoUpload
    /\ resets' = resets + 1
    /\ UNCHANGED <<flash, written>>

-----------------------------------------------------------------------------
(* Upload of the work-state log over TCP: the CMD_CONFIGURE_FILES_OPT     *)
(* loop calls upload_file until it returns 0 and sleeps between packets,  *)
(* which is when the lower-priority sysctrl thread may write the log.     *)

\* Packet 1: prepare_read_work_state_log gives read_offset and the size,
\* and the first packet already carries log data.
UploadStart ==
    /\ ~up.active
    /\ LET p == prepare_read_work_state_log
           r == read_file(p.ro, MinOf(FirstChunkUnits, p.size))
       IN /\ read_offset' = r.off
          /\ up' = [active |-> TRUE, done |-> FALSE, remain |-> p.size - Len(r.units),
                    sent |-> r.units, expect |-> LogContents, quiet |-> wr.pc = "idle"]
    /\ UNCHANGED <<flash, next_sn, write_offset, wr, written, resets>>

\* A following packet; a read of 0 bytes ends the loop.
UploadChunk ==
    /\ up.active
    /\ up.remain > 0
    /\ LET r == read_file(read_offset, MinOf(ChunkUnits, up.remain))
       IN /\ read_offset' = r.off
          /\ up' = [up EXCEPT !.remain = up.remain - Len(r.units),
                              !.sent = up.sent \o r.units,
                              !.active = r.units # <<>>,
                              !.done = r.units = <<>>]
    /\ UNCHANGED <<flash, next_sn, write_offset, wr, written, resets>>

\* remain is 0: upload_file returns 0 and file_operate_reset follows.
UploadEnd ==
    /\ up.active
    /\ up.remain = 0
    /\ up' = [up EXCEPT !.active = FALSE, !.done = TRUE]
    /\ UNCHANGED <<flash, next_sn, write_offset, read_offset, wr, written, resets>>

Next ==
    \/ LogWriteStart \/ LogWriteSector \/ LogWriteHeader \/ LogWriteChunk
    \/ ProgramUnit \/ Reset
    \/ UploadStart \/ UploadChunk \/ UploadEnd

Spec == Init /\ [][Next]_vars

-----------------------------------------------------------------------------
(* Properties.                                                              *)

Units == (0 - 2) .. MaxUnits

TypeOK ==
    /\ flash \in [Sectors -> [used : BOOLEAN, sn : 0..65535,
                              data : [1..DATA -> 0..MaxUnits]]]
    /\ next_sn \in 0..65535
    /\ write_offset \in 0..MAX_SIZE
    /\ read_offset \in 0..MAX_SIZE + SECTOR_UNITS   \* log_read may run past the ring
    /\ wr.pc \in {"idle", "loop", "erased", "program"}
    /\ up.sent \in Seq(Units)
    /\ written \in 0..MaxUnits

\* Whatever resets interrupt log_write, and after logs_init resumes from
\* the flash, the log holds an unbroken run of the latest units written:
\* the ring only ever gives up its oldest sector.
FlashHoldsLogSuffix ==
    written > 0 => \E lo \in 1..written : StoredUnits = lo .. written

\* upload_file announces the size of the work-state log and sends the log:
\* an upload that overlaps no log_write sends every unit the log holds,
\* oldest first, and nothing else (no header, erased or foreign bytes).
UploadMatchesLog ==
    up.done /\ up.quiet => up.sent = up.expect

=============================================================================
