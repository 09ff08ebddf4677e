--------------------------- MODULE MCProvisioning ---------------------------
(* Model-checking instances of Provisioning.                               *)
EXTENDS Provisioning

CONSTANTS p1, p2

MCPeers == {p1, p2}
\* A valid and an out-of-band frequency; a valid period.
MCFreqA == 470300000
MCFreqB == 480000000
MCFreqBad == 500000000
\* Range and by-id sessions over nodes 1 and 2, init sessions over node 3:
\* the groups are disjoint.
MCRequestsValid ==
    { [kind |-> "RANGE", first |-> 1, last |-> 2, ids |-> <<>>, freq |-> MCFreqA, period |-> 60],
      [kind |-> "BY_ID", first |-> 0, last |-> 0, ids |-> <<2>>, freq |-> MCFreqB, period |-> 60],
      [kind |-> "INIT",  first |-> 3, last |-> 3, ids |-> <<>>, freq |-> 0, period |-> 0] }
MCRequestsWithBad ==
    MCRequestsValid \cup
    { [kind |-> "RANGE", first |-> 1, last |-> 2, ids |-> <<>>, freq |-> MCFreqBad, period |-> 60] }
\* An init session over the nodes a range session configures.
MCRequestsOverlap ==
    { [kind |-> "RANGE", first |-> 1, last |-> 1, ids |-> <<>>, freq |-> MCFreqA, period |-> 60],
      [kind |-> "INIT",  first |-> 1, last |-> 1, ids |-> <<>>, freq |-> 0, period |-> 0] }

\* A by-id session whose second id is the byte swap of its first:
\* ntohl(2) = 33554432.
MCSwappedId == 33554432
MCNodeIdsSwapped == {2, MCSwappedId}
MCRequestsSwappedIds ==
    { [kind |-> "BY_ID", first |-> 0, last |-> 0, ids |-> <<2, MCSwappedId>>, freq |-> MCFreqB, period |-> 60] }

=============================================================================
