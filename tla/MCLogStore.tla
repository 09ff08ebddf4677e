----------------------------- MODULE MCLogStore -----------------------------
(* Model values for LogStore: a ring of three sectors of one header and    *)
(* two data units, so that a wrap, a full-sector boundary and an upload    *)
(* spanning sectors all happen within a few records.                       *)
EXTENDS LogStore

\* Writer steps a reset may interrupt in the run that holds: all but the
\* window between the sector erase and its header.
MCResetPointsNoErase == {"idle", "loop", "program"}
MCResetPointsAll     == {"idle", "loop", "erased", "program"}

=============================================================================
