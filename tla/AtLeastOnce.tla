---------------------------- MODULE AtLeastOnce ----------------------------
(***************************************************************************)
(* What the outbox promises: an event becomes deliverable when the         *)
(* transaction that recorded it commits, it may be delivered any number of *)
(* times in any of the processes, to all their listeners or to some, and   *)
(* it is settled only after one delivery to all of them.                   *)
(***************************************************************************)
EXTENDS Naturals

CONSTANTS Events, Processes

VARIABLES
    stage,   \* per event: "unknown", "recorded" or "settled"
    copies,  \* per process and event: how often it has been delivered there
    complete \* the events that all listeners of one process have accepted

Init ==
    /\ stage = [e \in Events |-> "unknown"]
    /\ copies = [r \in Processes |-> [e \in Events |-> 0]]
    /\ complete = {}

Record(e) ==
    /\ stage[e] = "unknown"
    /\ stage' = [stage EXCEPT ![e] = "recorded"]
    /\ UNCHANGED <<copies, complete>>

Deliver(e, r) ==
    /\ stage[e] # "unknown"
    /\ copies' = [copies EXCEPT ![r][e] = @ + 1]
    /\ complete' \in {complete, complete \cup {e}}
    /\ UNCHANGED stage

Settle(e) ==
    /\ stage[e] = "recorded" /\ e \in complete
    /\ stage' = [stage EXCEPT ![e] = "settled"]
    /\ UNCHANGED <<copies, complete>>

Next == \E e \in Events : Record(e) \/ Settle(e) \/ \E r \in Processes : Deliver(e, r)

Spec == Init /\ [][Next]_<<stage, copies, complete>>
=============================================================================
