------------------------------- MODULE Outbox -------------------------------
(***************************************************************************)
(* The transactional outbox: pushEvent inserts an event in the transaction *)
(* of its caller, and on every replica a timer starts a scan that reads    *)
(* the oldest pending events, publishes them one by one on the event bus   *)
(* of its own process and marks each after its publication.                *)
(*                                                                         *)
(* isProcessing keeps the scans of one replica apart; nothing keeps those  *)
(* of different replicas apart.  Every await of the loop is an action.     *)
(***************************************************************************)
EXTENDS Naturals, Sequences, FiniteSets

CONSTANTS
    Events,
    Replicas,
    Poison,      \* events some listener always rejects
    Batch,       \* take: 20
    MaxTime,     \* bound: the last millisecond in which an event is inserted
    MaxFailures, \* bound: failed queries, failed publications of other events, crashes
    MaxRefusals  \* bound: rejections of an event that a replica counts

ASSUME BatchAssumption ==
    Batch \in Nat \ {0} /\ MaxTime \in Nat /\ MaxFailures \in Nat /\ MaxRefusals \in Nat
ASSUME EventsAssumption == IsFiniteSet(Events) /\ Poison \subseteq Events

\* Two scans per replica can be under way, as far as the timer is concerned.
Scans == Replicas \X {1, 2}
ReplicaOf(s) == s[1]

VARIABLES
    row,           \* per event: "none", "draft" (uncommitted), "pending" or "processed"
    createdAt,     \* the time of the insert; events of the same millisecond are equal
    isProcessing,  \* the flag of each replica
    pc,            \* the await a scan has reached
    batch,         \* pendingEvents from the one the loop has reached
    delivered,     \* auxiliary: publications per replica that reached a listener
    refused,       \* auxiliary: publications per replica that some listener rejected
    accepted,      \* auxiliary: the events all listeners of some replica have accepted
    tried,         \* auxiliary: the events some scan has tried to publish
    losses,        \* auxiliary: per replica, crashes and marks that failed
    before,        \* auxiliary: the events committed when an event was inserted
    failures

bus == <<delivered, refused, accepted>>
aux == <<bus, tried, losses, before>>
vars == <<row, createdAt, isProcessing, pc, batch, bus, tried, losses, before, failures>>

Labels == {"idle", "scan", "publish", "mark"}

OTypeOK ==
    /\ row \in [Events -> {"none", "draft", "pending", "processed"}]
    /\ createdAt \in [Events -> Nat]
    /\ isProcessing \in [Replicas -> BOOLEAN]
    /\ pc \in [Scans -> Labels]
    /\ batch \in [Scans -> Seq(Events)]
    /\ delivered \in [Replicas -> [Events -> Nat]]
    /\ refused \in [Replicas -> [Events -> Nat]]
    /\ accepted \subseteq Events
    /\ tried \subseteq Events
    /\ losses \in [Replicas -> Nat]
    /\ before \in [Events -> SUBSET Events]
    /\ failures \in Nat

Init ==
    /\ row = [e \in Events |-> "none"]
    /\ createdAt = [e \in Events |-> 0]
    /\ isProcessing = [r \in Replicas |-> FALSE]
    /\ pc = [s \in Scans |-> "idle"]
    /\ batch = [s \in Scans |-> <<>>]
    /\ delivered = [r \in Replicas |-> [e \in Events |-> 0]]
    /\ refused = [r \in Replicas |-> [e \in Events |-> 0]]
    /\ accepted = {}
    /\ tried = {}
    /\ losses = [r \in Replicas |-> 0]
    /\ before = [e \in Events |-> {}]
    /\ failures = 0

Failure == failures < MaxFailures /\ failures' = failures + 1

-----------------------------------------------------------------------------
(* pushEvent and the end of the transaction it is called in.               *)

Committed == {e \in Events : row[e] \in {"pending", "processed"}}
Inserted == {e \in Events : row[e] # "none"}
\* No earlier than the last insert, maybe in the same millisecond.
Present == {n \in 0..MaxTime : \A e \in Inserted : createdAt[e] <= n}

PushEvent(e) ==
    /\ row[e] = "none"
    /\ row' = [row EXCEPT ![e] = "draft"]
    /\ \E n \in Present : createdAt' = [createdAt EXCEPT ![e] = n]
    /\ before' = [before EXCEPT ![e] = Committed]
    /\ UNCHANGED <<isProcessing, pc, batch, bus, tried, losses, failures>>

Commit(e) ==
    /\ row[e] = "draft"
    /\ row' = [row EXCEPT ![e] = "pending"]
    /\ UNCHANGED <<createdAt, isProcessing, pc, batch, aux, failures>>

Rollback(e) ==
    /\ row[e] = "draft"
    /\ row' = [row EXCEPT ![e] = "none"]
    /\ createdAt' = [createdAt EXCEPT ![e] = 0]
    /\ before' = [before EXCEPT ![e] = {}]
    /\ UNCHANGED <<isProcessing, pc, batch, bus, tried, losses, failures>>

-----------------------------------------------------------------------------
(* scanAndPublishEvents.                                                   *)

Goto(s, label) == pc' = [pc EXCEPT ![s] = label]

\* The loop goes on with what is left of the batch; finally resets the flag.
GoOn(s, rest) ==
    /\ batch' = [batch EXCEPT ![s] = rest]
    /\ Goto(s, IF rest = <<>> THEN "idle" ELSE "publish")
    /\ isProcessing' = [isProcessing EXCEPT ![ReplicaOf(s)] = rest # <<>>]

\* Mutant of Poll: the flag is not looked at.
PollUnguarded(s) ==
    /\ pc[s] = "idle"
    /\ isProcessing' = [isProcessing EXCEPT ![ReplicaOf(s)] = TRUE]
    /\ Goto(s, "scan")
    /\ UNCHANGED <<row, createdAt, batch, aux, failures>>
Poll(s) ==
    /\ pc[s] = "idle" /\ ~isProcessing[ReplicaOf(s)]
    /\ isProcessing' = [isProcessing EXCEPT ![ReplicaOf(s)] = TRUE]
    /\ Goto(s, "scan")
    /\ UNCHANGED <<row, createdAt, batch, aux, failures>>

\* where: { isProcessed: false }
Pending == {e \in Events : row[e] = "pending"}

\* Mutant of Older: orderBy createdAt desc.
Newer(e, f) == createdAt[e] >= createdAt[f]
\* orderBy: { createdAt: 'asc' }; rows of one millisecond come in any order.
Older(e, f) == createdAt[e] <= createdAt[f]

PageSize == IF Cardinality(Pending) < Batch THEN Cardinality(Pending) ELSE Batch
Pages == {q \in [1..PageSize -> Pending] :
    /\ \A i, j \in 1..PageSize : i < j => q[i] # q[j] /\ Older(q[i], q[j])
    /\ \A i \in 1..PageSize, f \in Pending \ {q[j] : j \in 1..PageSize} : Older(q[i], f)}

Scan(s) ==
    /\ pc[s] = "scan"
    /\ \/ \E q \in Pages : GoOn(s, q) /\ UNCHANGED failures
       \/ Failure /\ GoOn(s, <<>>)
    /\ UNCHANGED <<row, createdAt, aux>>

\* Every listener of replica r has accepted e.
Accept(r, e) ==
    /\ e \notin Poison
    /\ delivered' = [delivered EXCEPT ![r][e] = @ + 1]
    /\ accepted' = accepted \cup {e}
    /\ UNCHANGED <<refused, failures>>

\* emitAsync rejects if one listener does, but it has called the others as well; of a
\* single listener nothing is left.  Past the bound rejections are no longer counted.
Refuse(r, e) ==
    /\ IF e \in Poison THEN UNCHANGED failures ELSE Failure
    /\ IF refused[r][e] < MaxRefusals
       THEN /\ refused' = [refused EXCEPT ![r][e] = @ + 1]
            /\ \E n \in {0, 1} : delivered' = [delivered EXCEPT ![r][e] = @ + n]
       ELSE UNCHANGED <<refused, delivered>>
    /\ UNCHANGED accepted

\* Mutant of Publish: a rejected event ends the loop.
PublishStopping(s) == LET e == Head(batch[s]) r == ReplicaOf(s) IN
    /\ pc[s] = "publish"
    /\ tried' = tried \cup {e}
    /\ \/ Accept(r, e) /\ Goto(s, "mark") /\ UNCHANGED <<batch, isProcessing>>
       \/ Refuse(r, e) /\ GoOn(s, <<>>)
    /\ UNCHANGED <<row, createdAt, losses, before>>
\* A rejection is logged and the loop goes on; the event stays pending, so that the next
\* scan publishes it to all listeners again.
Publish(s) == LET e == Head(batch[s]) r == ReplicaOf(s) IN
    /\ pc[s] = "publish"
    /\ tried' = tried \cup {e}
    /\ \/ Accept(r, e) /\ Goto(s, "mark") /\ UNCHANGED <<batch, isProcessing>>
       \/ Refuse(r, e) /\ GoOn(s, Tail(batch[s]))
    /\ UNCHANGED <<row, createdAt, losses, before>>

\* Mutant of Mark: the whole batch is marked after its first event.
MarkBatch(s) ==
    /\ pc[s] = "mark"
    /\ row' = [e \in Events |-> IF \E i \in 1..Len(batch[s]) : batch[s][i] = e
                                THEN "processed" ELSE row[e]]
    /\ GoOn(s, Tail(batch[s]))
    /\ UNCHANGED <<createdAt, aux, failures>>
Mark(s) ==
    /\ pc[s] = "mark"
    /\ \/ /\ row' = [row EXCEPT ![Head(batch[s])] = "processed"]
          /\ UNCHANGED <<losses, failures>>
       \/ /\ Failure
          /\ losses' = [losses EXCEPT ![ReplicaOf(s)] = @ + 1]
          /\ UNCHANGED row
    /\ GoOn(s, Tail(batch[s]))
    /\ UNCHANGED <<createdAt, bus, tried, before>>

-----------------------------------------------------------------------------
\* The process of r ends and is started again; its timer and its flag are new.
Crash(r) ==
    /\ Failure
    /\ \E s \in Scans : ReplicaOf(s) = r /\ pc[s] # "idle"
    /\ losses' = [losses EXCEPT ![r] = @ + 1]
    /\ isProcessing' = [isProcessing EXCEPT ![r] = FALSE]
    /\ pc' = [s \in Scans |-> IF ReplicaOf(s) = r THEN "idle" ELSE pc[s]]
    /\ batch' = [s \in Scans |-> IF ReplicaOf(s) = r THEN <<>> ELSE batch[s]]
    /\ UNCHANGED <<row, createdAt, bus, tried, before>>

Step(s) == Scan(s) \/ Publish(s) \/ Mark(s)

Next ==
    \/ \E e \in Events : PushEvent(e) \/ Commit(e) \/ Rollback(e)
    \/ \E s \in Scans : Poll(s) \/ Step(s)
    \/ \E r \in Replicas : Crash(r)

Spec == Init /\ [][Next]_vars

\* The timer of every replica keeps firing and the loop runs as long as its process.
FairSpec ==
    /\ Spec
    /\ \A r \in Replicas : WF_vars(Poll(<<r, 1>>) \/ Poll(<<r, 2>>))
    /\ \A s \in Scans : WF_vars(Step(s))
=============================================================================
