------------------------- MODULE ProvisioningSession -------------------------
(***************************************************************************)
(* What a provisioning session promises the TCP peer that asked for it     *)
(* (spec 4.5 and 8.8), independently of how the engine talks to the nodes.*)
(*                                                                         *)
(* A session is opened by one peer over a set of target ids and answered  *)
(* on that peer with sequence number 1. Each target is then reported done *)
(* at most once, on that same peer, with the next sequence number, and    *)
(* under the kind of session it belongs to. A rejected request is        *)
(* answered on the requesting peer and leaves the running session as it  *)
(* was. A receive-test session sends its reports to the peer that started *)
(* it; a second receive-test command ends it. Outside a session there is *)
(* no peer.                                                                *)
(***************************************************************************)
EXTENDS Integers, Sequences, FiniteSets

CONSTANTS Peers, NodeIds, NoPeer

ConfigKinds == {"RANGE", "BY_ID", "INIT"}
Kinds       == ConfigKinds \cup {"NORMAL", "RECV_TEST"}

\* A reply as the peer reads it: its peer, sequence number and meaning.
Reply(to, sn, tag, kind, id) ==
    [to |-> to, sn |-> sn, tag |-> tag, kind |-> kind, id |-> id]

VARIABLES
    mode,      \* the kind of the running session
    peer,      \* the peer the running session answers
    sn,        \* the sequence number of its next reply
    targets,   \* the ids of the running configuration session
    done,      \* the targets already reported done
    replies    \* every reply sent, in order

vars == <<mode, peer, sn, targets, done, replies>>

Init ==
    /\ mode = "NORMAL"
    /\ peer = NoPeer
    /\ sn = 1
    /\ targets = {}
    /\ done = {}
    /\ replies = <<>>

Open(p, k, ids) ==
    /\ k \in ConfigKinds
    /\ mode' = k
    /\ peer' = p
    /\ sn' = 2
    /\ targets' = ids
    /\ done' = {}
    /\ replies' = Append(replies, Reply(p, 1, "ok", "none", 0))

Reject(p) ==
    /\ replies' = Append(replies, Reply(p, 1, "refused", "none", 0))
    /\ UNCHANGED <<mode, peer, sn, targets, done>>

Complete(id) ==
    /\ mode \in ConfigKinds
    /\ id \in targets \ done
    /\ done' = done \cup {id}
    /\ sn' = (sn + 1) % 256
    /\ replies' = Append(replies, Reply(peer, sn, "done", mode, id))
    /\ UNCHANGED <<mode, peer, targets>>

StartTest(p) ==
    /\ mode # "RECV_TEST"
    /\ mode' = "RECV_TEST"
    /\ peer' = p
    /\ sn' = 1
    /\ UNCHANGED <<targets, done, replies>>

StopTest ==
    /\ mode = "RECV_TEST"
    /\ mode' = "NORMAL"
    /\ peer' = NoPeer
    /\ sn' = 1
    /\ UNCHANGED <<targets, done, replies>>

TestReport ==
    /\ mode = "RECV_TEST"
    /\ sn' = (sn + 1) % 256
    /\ replies' = Append(replies, Reply(peer, sn, "test", "none", 0))
    /\ UNCHANGED <<mode, peer, targets, done>>

Next ==
    \/ \E p \in Peers, k \in ConfigKinds, ids \in SUBSET NodeIds : Open(p, k, ids)
    \/ \E p \in Peers : Reject(p) \/ StartTest(p)
    \/ \E id \in NodeIds : Complete(id)
    \/ StopTest
    \/ TestReport

Spec == Init /\ [][Next]_vars

=============================================================================
