-------------------------- MODULE OutboxProperties --------------------------
(***************************************************************************)
(* Properties of the outbox and its refinement of AtLeastOnce.             *)
(***************************************************************************)
EXTENDS Outbox

Active(s) == pc[s] # "idle"
InBatch(s) == {batch[s][i] : i \in 1..Len(batch[s])}
\* The events the loop of s has still to publish.
Waiting(s) == {batch[s][i] : i \in (IF pc[s] = "mark" THEN 2 ELSE 1)..Len(batch[s])}
Marking(r, e) == \E s \in Scans : ReplicaOf(s) = r /\ pc[s] = "mark" /\ Head(batch[s]) = e

(***************************************************************************)
(* The parts of the inductive invariant.  OneScan is what isProcessing is  *)
(* for; BatchShape says what a batch is while scans of other replicas      *)
(* work on the same rows; MarkedIsAccepted, AgainForAReason and            *)
(* TriedInOrder relate it to what has been published.                      *)
(***************************************************************************)
OneScan == \A s, t \in Scans :
    /\ Active(s) => isProcessing[ReplicaOf(s)]
    /\ Active(s) /\ Active(t) /\ ReplicaOf(s) = ReplicaOf(t) => s = t

BatchShape == \A s \in Scans :
    /\ pc[s] \in {"publish", "mark"} <=> batch[s] # <<>>
    /\ InBatch(s) \subseteq Committed
    /\ \A i, j \in 1..Len(batch[s]) : i < j => batch[s][i] # batch[s][j]

MarkedIsAccepted ==
    /\ \A s \in Scans : pc[s] = "mark" => Head(batch[s]) \in accepted
    /\ \A e \in Events : row[e] = "processed" => e \in accepted
    /\ accepted \subseteq tried

(***************************************************************************)
(* A replica calls the listeners of an event again only for a reason: it   *)
(* crashed or failed to mark since, or one of them had rejected the event, *)
(* which makes all of them hear it once more at every scan.  Nothing else  *)
(* repeats an event, as the flag keeps the scans of a replica from reading *)
(* one pending row twice.  Concerns scanAndPublishEvents run by several    *)
(* replicas.                                                               *)
(***************************************************************************)
Reasons(r, e) == losses[r] + refused[r][e]

DuplicatesAreExplained == \A r \in Replicas, e \in Events :
    delivered[r][e] <= 1 + Reasons(r, e)

AgainForAReason == \A r \in Replicas, e \in Events :
    \/ delivered[r][e] <= Reasons(r, e)
    \/ /\ delivered[r][e] = Reasons(r, e) + 1
       /\ row[e] = "processed" \/ Marking(r, e)
       /\ \A s \in Scans : ReplicaOf(s) = r => e \notin Waiting(s)

(***************************************************************************)
(* No overtaking: by the time anybody has tried to publish an event, every *)
(* event that was committed before it was inserted, in an earlier          *)
(* millisecond, has been tried too; for a batch is a prefix of what is     *)
(* pending and is worked off in order, on every replica.                   *)
(***************************************************************************)
NoOvertaking == \A f \in tried : \A e \in before[f] :
    createdAt[e] < createdAt[f] => e \in tried

TriedInOrder ==
    /\ NoOvertaking
    /\ tried \subseteq Committed
    /\ \A f \in Inserted : before[f] \subseteq Committed
    /\ \A s \in Scans : \A i \in 1..Len(batch[s]) : \A e \in before[batch[s][i]] :
           createdAt[e] < createdAt[batch[s][i]] =>
               e \in tried \/ \E j \in 1..(i - 1) : batch[s][j] = e

(***************************************************************************)
(* The inductive invariant of Outbox, about every await of the loop.       *)
(***************************************************************************)
OutboxInv ==
    OTypeOK /\ OneScan /\ BatchShape /\ MarkedIsAccepted /\ AgainForAReason /\ TriedInOrder

(***************************************************************************)
(* The outbox keeps the promise of AtLeastOnce: nothing is delivered       *)
(* before its transaction commits or after it rolled back, and nothing is  *)
(* marked that was not accepted by all listeners of one process, whatever  *)
(* rejections, scans of other replicas or crashes come in between.         *)
(***************************************************************************)
Promise == INSTANCE AtLeastOnce WITH
    Processes <- Replicas,
    stage <- [e \in Events |-> IF row[e] = "pending" THEN "recorded"
                               ELSE IF row[e] = "processed" THEN "settled" ELSE "unknown"],
    copies <- delivered,
    complete <- accepted

DeliversAtLeastOnce == Promise!Spec

(***************************************************************************)
(* Every committed event that the listeners accept is marked in the end,   *)
(* if fewer events than a batch holds are rejected for good: the rejected  *)
(* ones are the oldest of every scan, and with Batch of them no other      *)
(* event is ever read.                                                     *)
(***************************************************************************)
EventuallyProcessed == \A e \in Events \ Poison :
    Cardinality(Poison) < Batch => (row[e] = "pending" ~> row[e] = "processed")
=============================================================================
