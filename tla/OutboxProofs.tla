---------------------------- MODULE OutboxProofs ----------------------------
(***************************************************************************)
(* OutboxInv, and with it NoOvertaking, DuplicatesAreExplained and the     *)
(* refinement of AtLeastOnce, for any number of events, replicas and       *)
(* failures and any size of a batch.  What a committed event is never      *)
(* changes (Moves), so the scans a step leaves alone keep what is true of  *)
(* them (OthersKeep), and each step of the loop is about one scan.         *)
(***************************************************************************)
EXTENDS OutboxProperties, FiniteSetTheorems, TLAPS

\* The two parts of the invariant that speak of one scan.
Shape(s) ==
    /\ pc[s] \in {"publish", "mark"} <=> batch[s] # <<>>
    /\ InBatch(s) \subseteq Committed
    /\ \A i, j \in 1..Len(batch[s]) : i < j => batch[s][i] # batch[s][j]
InOrder(s) == \A i \in 1..Len(batch[s]) : \A e \in before[batch[s][i]] :
    createdAt[e] < createdAt[batch[s][i]] =>
        e \in tried \/ \E j \in 1..(i - 1) : batch[s][j] = e

LEMMA ByScan ==
    /\ BatchShape <=> \A s \in Scans : Shape(s)
    /\ TriedInOrder <=> /\ NoOvertaking /\ tried \subseteq Committed
                        /\ \A f \in Inserted : before[f] \subseteq Committed
                        /\ \A s \in Scans : InOrder(s)
  BY DEF BatchShape, Shape, TriedInOrder, InOrder

\* A batch with its first event taken off (the for loop of outbox.worker.ts).
LEMMA TakenOff ==
    ASSUME NEW q \in Seq(Events), q # <<>>
    PROVE  /\ Head(q) = q[1] /\ Head(q) \in Events /\ Len(q) \in Nat /\ Len(q) >= 1
           /\ Tail(q) \in Seq(Events) /\ Len(Tail(q)) = Len(q) - 1
           /\ \A i \in 1..Len(Tail(q)) : Tail(q)[i] = q[i + 1] /\ i + 1 \in 1..Len(q)
  OBVIOUS

\* What the loop leaves behind when it goes on with the rest of its batch.
LEMMA GoneOn ==
    ASSUME OTypeOK, NEW s \in Scans, NEW rest \in Seq(Events), GoOn(s, rest)
    PROVE  /\ batch' \in [Scans -> Seq(Events)] /\ batch'[s] = rest
           /\ pc' \in [Scans -> Labels]
           /\ pc'[s] = IF rest = <<>> THEN "idle" ELSE "publish"
           /\ \A t \in Scans \ {s} : batch'[t] = batch[t] /\ pc'[t] = pc[t]
           /\ isProcessing' \in [Replicas -> BOOLEAN]
           /\ isProcessing'[ReplicaOf(s)] = (rest # <<>>)
           /\ \A r \in Replicas \ {ReplicaOf(s)} : isProcessing'[r] = isProcessing[r]
<1>1. ReplicaOf(s) \in Replicas
  BY DEF ReplicaOf, Scans
<1>. QED BY <1>1 DEF OTypeOK, GoOn, Goto, Labels

-----------------------------------------------------------------------------
(* Types.                                                                  *)

LEMMA OutboxTypesInit == Init => OTypeOK
  BY BatchAssumption DEF Init, OTypeOK, Labels

LEMMA TypesEvent ==
    ASSUME OTypeOK, NEW e \in Events, PushEvent(e) \/ Commit(e) \/ Rollback(e)
    PROVE  OTypeOK'
<1>1. CASE PushEvent(e)
  <2>1. \A n \in Present : n \in Nat
    BY BatchAssumption DEF Present
  <2>. QED BY <1>1, <2>1 DEF PushEvent, OTypeOK, Committed, bus
<1>2. CASE Commit(e)
  BY <1>2 DEF Commit, aux, bus, OTypeOK
<1>3. CASE Rollback(e)
  BY <1>3 DEF Rollback, bus, OTypeOK
<1>. QED BY <1>1, <1>2, <1>3

\* A page is a batch of pending events, finite since the table is.
LEMMA PageShape ==
    ASSUME OTypeOK, NEW q \in Pages
    PROVE  /\ q \in Seq(Events) /\ Len(q) \in Nat
           /\ \A i \in 1..Len(q) : q[i] \in Pending
           /\ \A i, j \in 1..Len(q) : i < j => q[i] # q[j] /\ Older(q[i], q[j])
           /\ \A i \in 1..Len(q), f \in Pending :
                (\E j \in 1..Len(q) : q[j] = f) \/ Older(q[i], f)
<1>1. IsFiniteSet(Pending)
  BY EventsAssumption, FS_Subset DEF Pending
<1>2. PageSize \in Nat
  BY <1>1, FS_CardinalityType, BatchAssumption DEF PageSize
<1>3. q \in [1..PageSize -> Pending]
  BY DEF Pages
<1>4. q \in Seq(Pending) /\ Len(q) = PageSize
  BY <1>2, <1>3
<1>5. Pending \subseteq Events
  BY DEF Pending
<1>6. /\ \A i, j \in 1..PageSize : i < j => q[i] # q[j] /\ Older(q[i], q[j])
      /\ \A i \in 1..PageSize, f \in Pending \ {q[j] : j \in 1..PageSize} : Older(q[i], f)
  BY DEF Pages
<1>. QED BY <1>2, <1>3, <1>4, <1>5, <1>6

LEMMA TypesScan ==
    ASSUME OTypeOK, NEW s \in Scans, Poll(s) \/ Step(s),
           pc[s] \in {"publish", "mark"} => batch[s] # <<>>
    PROVE  OTypeOK'
<1>0. /\ ReplicaOf(s) \in Replicas /\ batch[s] \in Seq(Events) /\ <<>> \in Seq(Events)
      /\ Failure => failures' \in Nat
  BY DEF ReplicaOf, Scans, OTypeOK, Failure
<1>1. CASE Poll(s)
  BY <1>0, <1>1 DEF Poll, Goto, Labels, aux, bus, OTypeOK
<1>2. CASE Scan(s)
  <2>1. \E rest \in Seq(Events) : GoOn(s, rest)
    BY <1>0, <1>2, PageShape DEF Scan
  <2>2. failures' \in Nat
    BY <1>0, <1>2 DEF Scan, OTypeOK
  <2>. QED BY <1>2, <2>1, <2>2, GoneOn DEF Scan, aux, bus, OTypeOK
<1>3. CASE Publish(s)
  <2>1. Head(batch[s]) \in Events /\ Tail(batch[s]) \in Seq(Events)
    BY <1>0, <1>3, TakenOff DEF Publish
  <2>2. tried' \subseteq Events
    BY <1>3, <2>1 DEF Publish, OTypeOK
  <2>3. CASE Accept(ReplicaOf(s), Head(batch[s])) /\ Goto(s, "mark") /\ UNCHANGED <<batch, isProcessing>>
    <3>1. delivered' \in [Replicas -> [Events -> Nat]] /\ accepted' \subseteq Events
      BY <1>0, <2>1, <2>3 DEF Accept, OTypeOK
    <3>. QED BY <1>0, <1>3, <2>2, <2>3, <3>1 DEF Publish, Accept, Goto, Labels, OTypeOK
  <2>4. CASE Refuse(ReplicaOf(s), Head(batch[s])) /\ GoOn(s, Tail(batch[s]))
    <3>1. failures' \in Nat
      BY <1>0, <2>4 DEF OTypeOK, Refuse
    <3>2. /\ delivered' \in [Replicas -> [Events -> Nat]] /\ refused' \in [Replicas -> [Events -> Nat]]
          /\ accepted' \subseteq Events
      <4>. DEFINE r == ReplicaOf(s)
                  e == Head(batch[s])
      <4>1. /\ delivered \in [Replicas -> [Events -> Nat]] /\ refused \in [Replicas -> [Events -> Nat]]
            /\ accepted' \subseteq Events /\ r \in Replicas /\ e \in Events
        BY <1>0, <2>1, <2>4 DEF OTypeOK, Refuse
      <4>2. \/ UNCHANGED <<refused, delivered>>
            \/ /\ refused' = [refused EXCEPT ![r][e] = @ + 1]
               /\ \E n \in {0, 1} : delivered' = [delivered EXCEPT ![r][e] = @ + n]
        BY <2>4 DEF Refuse
      <4>. HIDE DEF r, e
      <4>3. \A n \in {0, 1} : [delivered EXCEPT ![r][e] = @ + n] \in [Replicas -> [Events -> Nat]]
        BY <4>1
      <4>4. [refused EXCEPT ![r][e] = @ + 1] \in [Replicas -> [Events -> Nat]]
        BY <4>1
      <4>. QED BY <4>1, <4>2, <4>3, <4>4
    <3>. QED BY <1>3, <2>1, <2>2, <2>4, <3>1, <3>2, GoneOn DEF Publish, OTypeOK
  <2>. QED BY <1>3, <2>3, <2>4 DEF Publish
<1>4. CASE Mark(s)
  <2>1. Head(batch[s]) \in Events /\ Tail(batch[s]) \in Seq(Events)
    BY <1>0, <1>4, TakenOff DEF Mark
  <2>2. row' \in [Events -> {"none", "draft", "pending", "processed"}]
    BY <1>4, <2>1 DEF Mark, OTypeOK
  <2>3. losses' \in [Replicas -> Nat] /\ failures' \in Nat
    <3>1. CASE UNCHANGED <<losses, failures>>
      BY <3>1 DEF OTypeOK
    <3>2. CASE Failure /\ losses' = [losses EXCEPT ![ReplicaOf(s)] = @ + 1]
      BY <1>0, <3>2 DEF OTypeOK
    <3>. QED BY <1>4, <3>1, <3>2 DEF Mark
  <2>. QED BY <1>4, <2>1, <2>2, <2>3, GoneOn DEF Mark, bus, OTypeOK
<1>. QED BY <1>1, <1>2, <1>3, <1>4 DEF Step

LEMMA TypesCrash ==
    ASSUME OTypeOK, NEW r \in Replicas, Crash(r)
    PROVE  OTypeOK'
<1>1. /\ failures' \in Nat
      /\ losses' \in [Replicas -> Nat]
      /\ isProcessing' \in [Replicas -> BOOLEAN]
  BY DEF Crash, Failure, OTypeOK
<1>2. pc' \in [Scans -> Labels] /\ batch' \in [Scans -> Seq(Events)]
  BY DEF Crash, OTypeOK, Labels
<1>. QED BY <1>1, <1>2 DEF Crash, bus, OTypeOK

-----------------------------------------------------------------------------
(* What no step takes back.                                                *)

\* Of a committed event nothing changes but that it is marked; an event inserted later
\* only knows committed ones before it (outbox.service.ts, outbox.worker.ts).
LEMMA Moves ==
    ASSUME OutboxInv, Next
    PROVE  /\ \A e \in Committed : /\ e \in Committed' /\ createdAt'[e] = createdAt[e]
                                   /\ before'[e] = before[e]
                                   /\ row[e] = "processed" => row'[e] = "processed"
           /\ \A f \in Inserted' : before'[f] \subseteq Committed'
           /\ tried \subseteq tried'
<1>. DEFINE Stays == \A e \in Committed : /\ e \in Committed' /\ createdAt'[e] = createdAt[e]
                                          /\ before'[e] = before[e]
                                          /\ row[e] = "processed" => row'[e] = "processed"
            Knows == \A f \in Inserted' : before'[f] \subseteq Committed'
            Goal == Stays /\ Knows /\ tried \subseteq tried'
<1>0. /\ \A f \in Inserted : before[f] \subseteq Committed
      /\ Committed \subseteq Inserted /\ Inserted \subseteq Events
  BY DEF OutboxInv, TriedInOrder, Committed, Inserted
<1>1. ASSUME NEW e \in Events, PushEvent(e) PROVE Goal
  <2>1. /\ e \notin Committed /\ Committed' = Committed /\ Inserted' = Inserted \cup {e}
        /\ tried' = tried
    BY <1>1 DEF PushEvent, OutboxInv, OTypeOK, Committed, Inserted
  <2>2. /\ before'[e] = Committed
        /\ \A f \in Events \ {e} : /\ row'[f] = row[f] /\ createdAt'[f] = createdAt[f]
                                   /\ before'[f] = before[f]
    BY <1>1 DEF PushEvent, OutboxInv, OTypeOK
  <2>. QED BY <1>0, <2>1, <2>2
<1>2. ASSUME NEW e \in Events, Commit(e) PROVE Goal
  BY <1>0, <1>2 DEF Commit, aux, OutboxInv, OTypeOK, Committed, Inserted
<1>3. ASSUME NEW e \in Events, Rollback(e) PROVE Goal
  <2>1. /\ e \notin Committed /\ Committed' = Committed /\ Inserted' = Inserted \ {e}
        /\ tried' = tried
    BY <1>3 DEF Rollback, OutboxInv, OTypeOK, Committed, Inserted
  <2>2. \A f \in Events \ {e} : /\ row'[f] = row[f] /\ createdAt'[f] = createdAt[f]
                                /\ before'[f] = before[f]
    BY <1>3 DEF Rollback, OutboxInv, OTypeOK
  <2>. QED BY <1>0, <2>1, <2>2
<1>4. ASSUME NEW s \in Scans, Poll(s) \/ Step(s) PROVE Goal
  <2>1. CASE Poll(s) \/ Scan(s) \/ Publish(s)
    <3>1. UNCHANGED <<row, createdAt, before>> /\ tried \subseteq tried'
      BY <2>1 DEF Poll, Scan, Publish, aux
    <3>. QED BY <1>0, <3>1 DEF Committed, Inserted
  <2>2. CASE Mark(s)
    <3>. DEFINE h == Head(batch[s])
    <3>1. /\ pc[s] = "mark" /\ UNCHANGED <<createdAt, before, tried>>
          /\ row' = [row EXCEPT ![h] = "processed"] \/ row' = row
      BY <2>2 DEF Mark
    <3>2. h \in Committed
      <4>1. batch[s] # <<>> /\ batch[s] \in Seq(Events) /\ InBatch(s) \subseteq Committed
        BY <3>1, ByScan DEF OutboxInv, OTypeOK, Shape
      <4>. QED BY <4>1, TakenOff DEF InBatch
    <3>. HIDE DEF h
    <3>3. Committed' = Committed /\ Inserted' = Inserted
      BY <3>1, <3>2 DEF OutboxInv, OTypeOK, Committed, Inserted
    <3>4. \A e \in Events : row[e] = "processed" => row'[e] = "processed"
      BY <3>1 DEF OutboxInv, OTypeOK
    <3>. QED BY <1>0, <3>1, <3>3, <3>4
  <2>. QED BY <1>4, <2>1, <2>2 DEF Step
<1>5. ASSUME NEW r \in Replicas, Crash(r) PROVE Goal
  BY <1>0, <1>5 DEF Crash, Committed, Inserted
<1>. QED BY <1>1, <1>2, <1>3, <1>4, <1>5 DEF Next

\* The scans that a step leaves where they are.
LEMMA OthersKeep ==
    ASSUME OutboxInv, Next, NEW t \in Scans, pc'[t] = pc[t], batch'[t] = batch[t]
    PROVE  Shape(t)' /\ InOrder(t)'
<1>1. Shape(t) /\ InOrder(t) /\ batch[t] \in Seq(Events)
  BY ByScan DEF OutboxInv, OTypeOK
<1>2. Shape(t)'
  BY <1>1, Moves DEF Shape, InBatch
<1>3. \A i \in 1..Len(batch[t]) : batch[t][i] \in Committed
  BY <1>1 DEF Shape, InBatch
<1>4. \A i \in 1..Len(batch[t]) : \A e \in before[batch[t][i]] : e \in Committed
  BY <1>3 DEF OutboxInv, TriedInOrder, Committed, Inserted
<1>5. \A i \in 1..Len(batch[t]) : /\ before'[batch[t][i]] = before[batch[t][i]]
                                  /\ createdAt'[batch[t][i]] = createdAt[batch[t][i]]
  BY <1>3, Moves
<1>6. \A i \in 1..Len(batch[t]) : \A e \in before[batch[t][i]] : createdAt'[e] = createdAt[e]
  BY <1>4, Moves
<1>7. tried \subseteq tried'
  BY Moves
<1>8. ASSUME NEW i \in 1..Len(batch[t]), NEW e \in before[batch[t][i]],
             createdAt[e] < createdAt[batch[t][i]]
      PROVE  e \in tried' \/ \E j \in 1..(i - 1) : batch'[t][j] = e
  BY <1>1, <1>7, <1>8 DEF InOrder
<1>9. InOrder(t)'
  BY <1>5, <1>6, <1>8 DEF InOrder
<1>. QED BY <1>2, <1>9

\* What has been tried stays in order as long as nothing new is tried.
LEMMA TriedKeeps ==
    ASSUME OutboxInv, Next, tried' = tried
    PROVE  NoOvertaking' /\ tried' \subseteq Committed'
<1>1. tried \subseteq Committed /\ NoOvertaking
  BY DEF OutboxInv, TriedInOrder
<1>2. \A f \in tried : before[f] \subseteq Committed
  BY <1>1 DEF OutboxInv, TriedInOrder, Committed, Inserted
<1>. QED BY <1>1, <1>2, Moves DEF NoOvertaking

LEMMA Assembled ==
    ASSUME OutboxInv, Next, OTypeOK', OneScan', MarkedIsAccepted', AgainForAReason',
           NoOvertaking', tried' \subseteq Committed',
           \A s \in Scans : Shape(s)' /\ InOrder(s)'
    PROVE  OutboxInv'
<1>1. BatchShape'
  BY DEF BatchShape, Shape
<1>2. TriedInOrder'
  BY Moves DEF TriedInOrder, InOrder
<1>. QED BY <1>1, <1>2 DEF OutboxInv

-----------------------------------------------------------------------------
(* One lemma per kind of step.                                             *)

\* outbox.service.ts: the rows of a transaction are no business of the loop.
LEMMA EventKeeps ==
    ASSUME OutboxInv, NEW e \in Events, PushEvent(e) \/ Commit(e) \/ Rollback(e)
    PROVE  OutboxInv'
<1>1. UNCHANGED <<isProcessing, pc, batch, delivered, refused, accepted, tried, losses>>
  BY DEF PushEvent, Commit, Rollback, aux, bus
<1>2. Next /\ OTypeOK'
  BY TypesEvent DEF OutboxInv, Next
<1>3. \A f \in Events : row'[f] = "processed" <=> row[f] = "processed"
  BY DEF PushEvent, Commit, Rollback, OutboxInv, OTypeOK
<1>4. OneScan' /\ MarkedIsAccepted'
  BY <1>1, <1>3 DEF OutboxInv, OneScan, Active, MarkedIsAccepted
<1>5. AgainForAReason'
  BY <1>1, <1>3 DEF OutboxInv, AgainForAReason, Reasons, Marking, Waiting
<1>. QED BY <1>1, <1>2, <1>4, <1>5, Assembled, OthersKeep, TriedKeeps

LEMMA PollKeeps ==
    ASSUME OutboxInv, NEW s \in Scans, Poll(s)
    PROVE  OutboxInv'
<1>1. Next /\ OTypeOK' /\ ReplicaOf(s) \in Replicas
  BY TypesScan, ByScan DEF OutboxInv, Next, Shape, ReplicaOf, Scans
<1>2. /\ pc[s] = "idle" /\ pc'[s] = "scan" /\ \A t \in Scans \ {s} : pc'[t] = pc[t]
      /\ batch' = batch /\ row' = row /\ delivered' = delivered /\ tried' = tried
      /\ losses' = losses /\ refused' = refused /\ accepted' = accepted
  BY DEF Poll, Goto, aux, bus, OutboxInv, OTypeOK
<1>3. /\ ~isProcessing[ReplicaOf(s)] /\ isProcessing'[ReplicaOf(s)]
      /\ \A r \in Replicas : isProcessing[r] => isProcessing'[r]
  BY <1>1 DEF Poll, OutboxInv, OTypeOK
<1>4. OneScan'
  <2>1. \A t \in Scans : Active(t)' => t = s \/ Active(t)
    BY <1>2 DEF Active
  <2>2. \A t \in Scans : Active(t) => ReplicaOf(t) # ReplicaOf(s) /\ isProcessing[ReplicaOf(t)]
    BY <1>3 DEF OutboxInv, OneScan
  <2>3. \A t \in Scans : ReplicaOf(t) \in Replicas
    BY DEF ReplicaOf, Scans
  <2>. QED BY <1>3, <2>1, <2>2, <2>3 DEF OutboxInv, OneScan
<1>5. MarkedIsAccepted'
  BY <1>2 DEF OutboxInv, MarkedIsAccepted
<1>6. batch[s] = <<>>
  BY <1>2, ByScan DEF OutboxInv, Shape
<1>7. \A t \in Scans : Waiting(t)' = Waiting(t)
  <2>1. Waiting(s) = {} /\ Waiting(s)' = {}
    BY <1>2, <1>6 DEF Waiting
  <2>2. \A t \in Scans \ {s} : Waiting(t)' = Waiting(t)
    BY <1>2 DEF Waiting
  <2>. QED BY <2>1, <2>2
<1>8. \A r \in Replicas, e \in Events : Marking(r, e) => Marking(r, e)'
  BY <1>2 DEF Marking
<1>9. AgainForAReason'
  BY <1>2, <1>7, <1>8 DEF OutboxInv, AgainForAReason, Reasons
<1>10. Shape(s)' /\ InOrder(s)'
  BY <1>2, <1>6 DEF Shape, InOrder, InBatch
<1>. QED BY <1>1, <1>2, <1>4, <1>5, <1>9, <1>10, Assembled, OthersKeep, TriedKeeps

\* finally resets the flag only when no scan of the replica is left (outbox.worker.ts).
LEMMA OneScanKeeps ==
    ASSUME OutboxInv, NEW s \in Scans, pc[s] # "idle", NEW rest \in Seq(Events), GoOn(s, rest)
    PROVE  OneScan'
<1>1. \A t \in Scans \ {s} : Active(t) => ReplicaOf(t) # ReplicaOf(s)
  BY DEF OutboxInv, OneScan, Active
<1>2. \A t \in Scans : ReplicaOf(t) \in Replicas
  BY DEF ReplicaOf, Scans
<1>3. Active(s)' => rest # <<>>
  BY GoneOn DEF OutboxInv, Active
<1>4. \A t \in Scans \ {s} : Active(t)' <=> Active(t)
  BY GoneOn DEF OutboxInv, Active
<1>5. \A t \in Scans : Active(t)' => isProcessing'[ReplicaOf(t)]
  BY <1>1, <1>2, <1>3, <1>4, GoneOn DEF OutboxInv, OneScan
<1>6. \A t, u \in Scans : Active(t)' /\ Active(u)' /\ ReplicaOf(t) = ReplicaOf(u) => t = u
  BY <1>1, <1>4 DEF OutboxInv, OneScan
<1>. QED BY <1>5, <1>6 DEF OneScan

\* A page is in order: what was committed before one of its events, and is not tried, is
\* pending and older, so it is on the page and before it (findMany, outbox.worker.ts).
LEMMA PageInOrder ==
    ASSUME OutboxInv, NEW q \in Pages, NEW i \in 1..Len(q), NEW e \in before[q[i]],
           createdAt[e] < createdAt[q[i]]
    PROVE  e \in tried \/ \E j \in 1..(i - 1) : q[j] = e
<1>1. q[i] \in Pending /\ Pending \subseteq Events
  BY PageShape DEF OutboxInv, Pending
<1>2. e \in Committed
  BY <1>1 DEF OutboxInv, TriedInOrder, Inserted, Pending
<1>3. CASE row[e] = "processed"
  BY <1>2, <1>3 DEF OutboxInv, MarkedIsAccepted, Committed
<1>4. CASE e \in Pending
  <2>1. createdAt[e] \in Nat /\ createdAt[q[i]] \in Nat
    BY <1>1, <1>4 DEF OutboxInv, OTypeOK, Pending
  <2>2. ~Older(q[i], e)
    BY <2>1 DEF Older
  <2>3. PICK j \in 1..Len(q) : q[j] = e
    BY <1>4, <2>2, PageShape DEF OutboxInv
  <2>4. ~(i < j) /\ i # j
    BY <2>2, <2>3, <2>1, PageShape DEF OutboxInv
  <2>. QED BY <2>3, <2>4, PageShape DEF OutboxInv
<1>. QED BY <1>2, <1>3, <1>4 DEF Committed, Pending

LEMMA ScanKeeps ==
    ASSUME OutboxInv, NEW s \in Scans, Scan(s)
    PROVE  OutboxInv'
<1>1. Next /\ OTypeOK'
  BY TypesScan, ByScan DEF OutboxInv, Next, Step, Shape
<1>2. PICK rest \in Pages \cup {<<>>} : GoOn(s, rest)
  BY DEF Scan
<1>3. /\ rest \in Seq(Events)
      /\ \A i \in 1..Len(rest) : rest[i] \in Pending
      /\ \A i, j \in 1..Len(rest) : i < j => rest[i] # rest[j]
  <2>1. CASE rest = <<>>
    BY <2>1
  <2>2. CASE rest \in Pages
    BY <2>2, PageShape DEF OutboxInv
  <2>. QED BY <2>1, <2>2
<1>4. /\ batch'[s] = rest /\ pc'[s] = IF rest = <<>> THEN "idle" ELSE "publish"
      /\ \A t \in Scans \ {s} : batch'[t] = batch[t] /\ pc'[t] = pc[t]
      /\ UNCHANGED <<row, createdAt, delivered, refused, accepted, tried, losses, before>>
      /\ pc[s] = "scan"
  BY <1>2, <1>3, GoneOn DEF OutboxInv, Scan, aux, bus
<1>5. OneScan'
  BY <1>2, <1>3, <1>4, OneScanKeeps
<1>6. MarkedIsAccepted'
  BY <1>4 DEF OutboxInv, MarkedIsAccepted
<1>7. Shape(s)'
  BY <1>3, <1>4 DEF Shape, InBatch, Committed, Pending
<1>8. InOrder(s)'
  BY <1>2, <1>4, PageInOrder DEF InOrder
<1>9. AgainForAReason'
  <2>. SUFFICES ASSUME NEW r \in Replicas, NEW e \in Events, ~(delivered[r][e] <= Reasons(r, e))
                PROVE  /\ delivered[r][e] = Reasons(r, e) + 1
                       /\ row[e] = "processed" \/ Marking(r, e)'
                       /\ \A t \in Scans : ReplicaOf(t) = r => e \notin Waiting(t)'
    BY <1>4 DEF AgainForAReason, Reasons
  <2>1. /\ delivered[r][e] = Reasons(r, e) + 1
        /\ row[e] = "processed" \/ Marking(r, e)
        /\ \A t \in Scans : ReplicaOf(t) = r => e \notin Waiting(t)
    BY DEF OutboxInv, AgainForAReason
  <2>2. Marking(r, e) => Marking(r, e)'
    BY <1>4 DEF Marking
  <2>3. ReplicaOf(s) = r => ~Marking(r, e)
    BY <1>4 DEF Marking, OutboxInv, OneScan, Active
  <2>4. ReplicaOf(s) = r => e \notin Waiting(s)'
    BY <1>3, <1>4, <2>1, <2>3 DEF Waiting, Pending
  <2>5. \A t \in Scans \ {s} : Waiting(t)' = Waiting(t)
    BY <1>4 DEF Waiting
  <2>. QED BY <2>1, <2>2, <2>4, <2>5
<1>. QED BY <1>1, <1>4, <1>5, <1>6, <1>7, <1>8, <1>9, Assembled, OthersKeep, TriedKeeps

\* The batch of a scan after its first event was tried.
LEMMA RestOfBatch ==
    ASSUME OutboxInv, Next, NEW s \in Scans, pc[s] \in {"publish", "mark"},
           batch'[s] = Tail(batch[s]), Head(batch[s]) \in tried'
    PROVE  /\ InBatch(s)' \subseteq Committed'
           /\ \A i, j \in 1..Len(batch'[s]) : i < j => batch'[s][i] # batch'[s][j]
           /\ InOrder(s)'
<1>. DEFINE b == batch[s]
            c == Tail(batch[s])
<1>1. b \in Seq(Events) /\ b # <<>> /\ Shape(s) /\ InOrder(s)
  BY ByScan DEF OutboxInv, OTypeOK, Shape
<1>2. /\ c \in Seq(Events) /\ Len(c) \in Nat /\ Head(b) = b[1]
      /\ \A i \in 1..Len(c) : c[i] = b[i + 1] /\ i + 1 \in 1..Len(b)
  BY <1>1, TakenOff
<1>3. \A i \in 1..Len(b) : b[i] \in Committed /\ \A e \in before[b[i]] : e \in Committed
  BY <1>1 DEF Shape, InBatch, OutboxInv, TriedInOrder, Committed, Inserted
<1>4. InBatch(s)' \subseteq Committed'
  BY <1>2, <1>3, Moves DEF InBatch
<1>5. \A i, j \in 1..Len(c) : i < j => c[i] # c[j]
  BY <1>1, <1>2 DEF Shape
<1>6. ASSUME NEW i \in 1..Len(c), NEW e \in before'[c[i]], createdAt'[e] < createdAt'[c[i]]
      PROVE  e \in tried' \/ \E j \in 1..(i - 1) : c[j] = e
  <2>1. /\ i + 1 \in 1..Len(b) /\ c[i] = b[i + 1] /\ before'[c[i]] = before[b[i + 1]]
        /\ createdAt'[c[i]] = createdAt[b[i + 1]] /\ createdAt'[e] = createdAt[e]
    BY <1>2, <1>3, <1>6, Moves
  <2>2. e \in tried \/ \E j \in 1..i : b[j] = e
    BY <1>1, <1>6, <2>1 DEF InOrder
  <2>3. ASSUME NEW j \in 1..i, b[j] = e
        PROVE  e \in tried' \/ \E m \in 1..(i - 1) : c[m] = e
    <3>1. CASE j = 1
      BY <1>2, <2>3, <3>1
    <3>2. CASE j # 1
      <4>1. j - 1 \in 1..(i - 1) /\ j - 1 \in 1..Len(c) /\ c[j - 1] = b[(j - 1) + 1]
        BY <1>2, <3>2
      <4>. QED BY <2>3, <4>1
    <3>. QED BY <3>1, <3>2
  <2>. QED BY <2>2, <2>3, Moves
<1>. QED BY <1>4, <1>5, <1>6 DEF InOrder

\* What waits behind the first event of a batch is what waits when it is taken off.
LEMMA WaitingRest ==
    ASSUME OutboxInv, NEW s \in Scans, pc[s] \in {"publish", "mark"}
    PROVE  LET b == batch[s] IN
           /\ {Tail(b)[i] : i \in 1..Len(Tail(b))} = {b[i] : i \in 2..Len(b)}
           /\ Head(b) \notin {b[i] : i \in 2..Len(b)}
           /\ {b[i] : i \in 2..Len(b)} \subseteq {b[i] : i \in 1..Len(b)}
           /\ Head(b) \in {b[i] : i \in 1..Len(b)}
<1>. DEFINE b == batch[s]
<1>1. b \in Seq(Events) /\ b # <<>> /\ Shape(s)
  BY ByScan DEF OutboxInv, OTypeOK, Shape
<1>2. /\ Head(b) = b[1] /\ Len(b) \in Nat /\ Len(b) >= 1 /\ Len(Tail(b)) = Len(b) - 1
      /\ \A i \in 1..Len(Tail(b)) : Tail(b)[i] = b[i + 1] /\ i + 1 \in 2..Len(b)
  BY <1>1, TakenOff
<1>3. \A i \in 2..Len(b) : i - 1 \in 1..Len(Tail(b)) /\ Tail(b)[i - 1] = b[i]
  BY <1>2
<1>4. \A i \in 2..Len(b) : b[i] # b[1]
  BY <1>1, <1>2 DEF Shape
<1>. QED BY <1>2, <1>3, <1>4

\* Trying the next event keeps the order: everything it had to wait for is tried.
LEMMA PublishInOrder ==
    ASSUME OutboxInv, NEW s \in Scans, Publish(s)
    PROVE  NoOvertaking' /\ tried' \subseteq Committed'
<1>. DEFINE h == Head(batch[s])
<1>1. Next
  BY DEF Next, Step
<1>2. /\ batch[s] \in Seq(Events) /\ batch[s] # <<>> /\ Shape(s) /\ InOrder(s)
      /\ tried' = tried \cup {h} /\ UNCHANGED <<row, createdAt, before>>
  BY ByScan DEF OutboxInv, OTypeOK, Shape, Publish
<1>3. h = batch[s][1] /\ 1 \in 1..Len(batch[s])
  BY <1>2, TakenOff
<1>4. h \in Committed
  BY <1>2, <1>3 DEF Shape, InBatch
<1>5. \A e \in before[h] : createdAt[e] < createdAt[h] => e \in tried
  BY <1>2, <1>3 DEF InOrder
<1>. QED BY <1>2, <1>4, <1>5 DEF NoOvertaking, Committed, OutboxInv, TriedInOrder

LEMMA PublishKeeps ==
    ASSUME OutboxInv, NEW s \in Scans, Publish(s)
    PROVE  OutboxInv'
<1>. DEFINE h == Head(batch[s])
            x == ReplicaOf(s)
<1>0. /\ Next /\ OTypeOK' /\ x \in Replicas /\ pc[s] = "publish"
      /\ UNCHANGED <<row, createdAt, losses, before>> /\ tried' = tried \cup {h}
      /\ batch[s] \in Seq(Events) /\ batch[s] # <<>>
      /\ h \in Events /\ Tail(batch[s]) \in Seq(Events)
  BY TypesScan, ByScan, TakenOff
  DEF OutboxInv, OTypeOK, Next, Step, Shape, Publish, ReplicaOf, Scans
<1>1. CASE Accept(x, h) /\ Goto(s, "mark") /\ UNCHANGED <<batch, isProcessing>>
  <2>1. /\ pc'[s] = "mark" /\ \A t \in Scans \ {s} : pc'[t] = pc[t]
        /\ delivered'[x][h] = delivered[x][h] + 1
        /\ \A r \in Replicas, e \in Events : r # x \/ e # h => delivered'[r][e] = delivered[r][e]
        /\ \A r \in Replicas, e \in Events : delivered[r][e] \in Nat /\ Reasons(r, e) \in Nat
        /\ accepted' = accepted \cup {h} /\ refused' = refused
    BY <1>0, <1>1 DEF Accept, Goto, OutboxInv, OTypeOK, Reasons
  <2>2. OneScan'
    BY <1>0, <1>1, <2>1 DEF OutboxInv, OneScan, Active
  <2>4. MarkedIsAccepted'
    <3>1. \A t \in Scans : pc'[t] = "mark" => Head(batch'[t]) \in accepted'
      BY <1>1, <2>1 DEF OutboxInv, MarkedIsAccepted
    <3>2. /\ \A e \in Events : row'[e] = "processed" => e \in accepted'
          /\ accepted' \subseteq tried'
      BY <1>0, <2>1 DEF OutboxInv, MarkedIsAccepted
    <3>. QED BY <3>1, <3>2 DEF MarkedIsAccepted
  <2>5. \A t \in Scans : Waiting(t)' \subseteq Waiting(t)
    <3>1. Waiting(s)' = {batch[s][i] : i \in 2..Len(batch[s])}
      BY <1>1, <2>1 DEF Waiting
    <3>2. Waiting(s) = {batch[s][i] : i \in 1..Len(batch[s])}
      BY <1>0 DEF Waiting
    <3>3. Waiting(s)' \subseteq Waiting(s)
      BY <1>0, <3>1, <3>2, WaitingRest
    <3>4. \A t \in Scans \ {s} : Waiting(t)' = Waiting(t)
      BY <1>1, <2>1 DEF Waiting
    <3>. QED BY <3>3, <3>4
  <2>6. AgainForAReason'
    <3>. SUFFICES ASSUME NEW r \in Replicas, NEW e \in Events, ~(delivered'[r][e] <= Reasons(r, e))
                  PROVE  /\ delivered'[r][e] = Reasons(r, e) + 1
                         /\ row[e] = "processed" \/ Marking(r, e)'
                         /\ \A t \in Scans : ReplicaOf(t) = r => e \notin Waiting(t)'
      BY <1>0, <2>1 DEF AgainForAReason, Reasons
    <3>1. CASE r = x /\ e = h
      <4>1. h \in Waiting(s)
        BY <1>0, WaitingRest DEF Waiting
      <4>2. delivered[x][h] <= Reasons(x, h)
        BY <1>0, <4>1 DEF OutboxInv, AgainForAReason
      <4>3. delivered'[r][e] = Reasons(r, e) + 1
        BY <1>0, <2>1, <3>1, <4>2
      <4>4. Marking(r, e)'
        BY <1>1, <2>1, <3>1 DEF Marking
      <4>5. h \notin Waiting(s)'
        <5>1. Waiting(s)' = {batch[s][i] : i \in 2..Len(batch[s])}
          BY <1>1, <2>1 DEF Waiting
        <5>. QED BY <1>0, <5>1, WaitingRest
      <4>6. \A t \in Scans \ {s} : ReplicaOf(t) = x => h \notin Waiting(t)'
        <5>. SUFFICES ASSUME NEW t \in Scans \ {s}, ReplicaOf(t) = x PROVE h \notin Waiting(t)'
          OBVIOUS
        <5>1. pc[t] = "idle"
          BY <1>0 DEF OutboxInv, OneScan, Active
        <5>2. batch[t] = <<>>
          BY <5>1, ByScan DEF OutboxInv, Shape
        <5>. QED BY <1>1, <2>1, <5>1, <5>2 DEF Waiting
      <4>. QED BY <3>1, <4>3, <4>4, <4>5, <4>6
    <3>2. CASE r # x \/ e # h
      <4>1. /\ delivered[r][e] = Reasons(r, e) + 1 /\ delivered'[r][e] = delivered[r][e]
            /\ row[e] = "processed" \/ Marking(r, e)
            /\ \A t \in Scans : ReplicaOf(t) = r => e \notin Waiting(t)
        BY <2>1, <3>2 DEF OutboxInv, AgainForAReason
      <4>2. Marking(r, e) => Marking(r, e)'
        BY <1>0, <1>1, <2>1 DEF Marking
      <4>. QED BY <2>5, <4>1, <4>2
    <3>. QED BY <3>1, <3>2
  <2>7. Shape(s)' /\ InOrder(s)'
    <3>1. Shape(s) /\ InOrder(s)
      BY ByScan DEF OutboxInv
    <3>2. InOrder(s)'
      BY <1>0, <1>1, <3>1 DEF InOrder
    <3>. QED BY <1>0, <1>1, <2>1, <3>1, <3>2 DEF Shape, InBatch, Committed
  <2>. QED BY <1>0, <1>1, <2>1, <2>2, <2>4, <2>6, <2>7, Assembled, OthersKeep, PublishInOrder
<1>2. CASE Refuse(x, h) /\ GoOn(s, Tail(batch[s]))
  <2>1. /\ batch'[s] = Tail(batch[s])
        /\ pc'[s] = IF Tail(batch[s]) = <<>> THEN "idle" ELSE "publish"
        /\ \A t \in Scans \ {s} : batch'[t] = batch[t] /\ pc'[t] = pc[t]
    BY <1>0, <1>2, GoneOn DEF OutboxInv
  <2>2. OneScan'
    BY <1>0, <1>2, OneScanKeeps
  <2>3. MarkedIsAccepted'
    BY <1>0, <1>2, <2>1 DEF OutboxInv, MarkedIsAccepted, Refuse
  <2>4. \A t \in Scans : Waiting(t)' \subseteq Waiting(t)
    <3>1. Waiting(s)' = {Tail(batch[s])[i] : i \in 1..Len(Tail(batch[s]))}
      BY <2>1 DEF Waiting
    <3>2. Waiting(s) = {batch[s][i] : i \in 1..Len(batch[s])}
      BY <1>0 DEF Waiting
    <3>3. Waiting(s)' \subseteq Waiting(s)
      BY <1>0, <3>1, <3>2, WaitingRest
    <3>4. \A t \in Scans \ {s} : Waiting(t)' = Waiting(t)
      BY <2>1 DEF Waiting
    <3>. QED BY <3>3, <3>4
  <2>5. \A r \in Replicas, e \in Events : Marking(r, e) => Marking(r, e)'
    BY <1>0, <2>1 DEF Marking
  <2>6. AgainForAReason'
    <3>1. /\ delivered \in [Replicas -> [Events -> Nat]] /\ refused \in [Replicas -> [Events -> Nat]]
          /\ losses \in [Replicas -> Nat] /\ losses' = losses /\ row' = row
      BY <1>0 DEF OutboxInv, OTypeOK
    <3>2. delivered[x][h] <= Reasons(x, h)
      <4>1. h \in Waiting(s)
        BY <1>0, WaitingRest DEF Waiting
      <4>. QED BY <1>0, <4>1 DEF OutboxInv, AgainForAReason
    <3>3. CASE UNCHANGED <<refused, delivered>>
      BY <1>0, <2>4, <2>5, <3>1, <3>3 DEF OutboxInv, AgainForAReason, Reasons
    <3>4. CASE /\ refused' = [refused EXCEPT ![x][h] = @ + 1]
               /\ \E n \in {0, 1} : delivered' = [delivered EXCEPT ![x][h] = @ + n]
      <4>1. PICK n \in {0, 1} : delivered' = [delivered EXCEPT ![x][h] = @ + n]
        BY <3>4
      <4>. HIDE DEF x, h
      <4>2. /\ refused'[x][h] = refused[x][h] + 1 /\ delivered'[x][h] = delivered[x][h] + n
            /\ \A r \in Replicas, e \in Events : r # x \/ e # h =>
                  refused'[r][e] = refused[r][e] /\ delivered'[r][e] = delivered[r][e]
        BY <1>0, <3>1, <3>4, <4>1
      <4>3. refused[x][h] \in Nat /\ losses[x] \in Nat /\ delivered[x][h] \in Nat
        BY <1>0, <3>1
      <4>4. delivered'[x][h] <= losses'[x] + refused'[x][h]
        BY <3>1, <3>2, <4>2, <4>3 DEF Reasons
      <4>5. ASSUME NEW r \in Replicas, NEW e \in Events, r # x \/ e # h
            PROVE  \/ delivered'[r][e] <= Reasons(r, e)'
                   \/ /\ delivered'[r][e] = Reasons(r, e)' + 1
                      /\ row'[e] = "processed" \/ Marking(r, e)'
                      /\ \A t \in Scans : ReplicaOf(t) = r => e \notin Waiting(t)'
        <5>1. delivered'[r][e] = delivered[r][e] /\ losses'[r] + refused'[r][e] = losses[r] + refused[r][e]
          BY <3>1, <4>2, <4>5
        <5>2. \/ delivered[r][e] <= losses[r] + refused[r][e]
              \/ /\ delivered[r][e] = losses[r] + refused[r][e] + 1
                 /\ row[e] = "processed" \/ Marking(r, e)
                 /\ \A t \in Scans : ReplicaOf(t) = r => e \notin Waiting(t)
          BY DEF OutboxInv, AgainForAReason, Reasons
        <5>. QED BY <2>4, <2>5, <3>1, <5>1, <5>2 DEF Reasons
      <4>. QED BY <4>4, <4>5 DEF AgainForAReason, Reasons
    <3>. QED BY <1>2, <3>3, <3>4 DEF Refuse
  <2>7. Shape(s)' /\ InOrder(s)'
    BY <1>0, <2>1, RestOfBatch DEF Shape
  <2>. QED BY <1>0, <2>1, <2>2, <2>3, <2>6, <2>7, Assembled, OthersKeep, PublishInOrder
<1>. QED BY <1>1, <1>2 DEF Publish

LEMMA MarkKeeps ==
    ASSUME OutboxInv, NEW s \in Scans, Mark(s)
    PROVE  OutboxInv'
<1>. DEFINE h == Head(batch[s])
            x == ReplicaOf(s)
<1>0. /\ Next /\ OTypeOK' /\ x \in Replicas /\ pc[s] = "mark"
      /\ UNCHANGED <<createdAt, delivered, refused, accepted, tried, before>>
      /\ GoOn(s, Tail(batch[s]))
      /\ batch[s] \in Seq(Events) /\ batch[s] # <<>>
      /\ h \in Events /\ Tail(batch[s]) \in Seq(Events)
  BY TypesScan, ByScan, TakenOff
  DEF OutboxInv, OTypeOK, Next, Step, Shape, Mark, bus, ReplicaOf, Scans
<1>1. /\ batch'[s] = Tail(batch[s])
      /\ pc'[s] = IF Tail(batch[s]) = <<>> THEN "idle" ELSE "publish"
      /\ \A t \in Scans \ {s} : batch'[t] = batch[t] /\ pc'[t] = pc[t]
  BY <1>0, GoneOn DEF OutboxInv
<1>2. OneScan'
  BY <1>0, OneScanKeeps
<1>3. h \in accepted /\ h \in tried
  BY <1>0 DEF OutboxInv, MarkedIsAccepted
<1>4. \A e \in Events : row'[e] = "processed" => row[e] = "processed" \/ e = h
  BY <1>0 DEF Mark, OutboxInv, OTypeOK
<1>5. MarkedIsAccepted'
  <2>1. \A t \in Scans : pc'[t] = "mark" => Head(batch'[t]) \in accepted
    BY <1>1 DEF OutboxInv, MarkedIsAccepted
  <2>2. \A e \in Events : row'[e] = "processed" => e \in accepted
    BY <1>0, <1>3, <1>4 DEF OutboxInv, MarkedIsAccepted
  <2>. QED BY <1>0, <2>1, <2>2 DEF OutboxInv, MarkedIsAccepted
<1>6. \A t \in Scans : Waiting(t)' = Waiting(t)
  <2>1. Waiting(s)' = {Tail(batch[s])[i] : i \in 1..Len(Tail(batch[s]))}
    BY <1>1 DEF Waiting
  <2>2. Waiting(s) = {batch[s][i] : i \in 2..Len(batch[s])}
    BY <1>0 DEF Waiting
  <2>3. Waiting(s)' = Waiting(s)
    BY <1>0, <2>1, <2>2, WaitingRest
  <2>4. \A t \in Scans \ {s} : Waiting(t)' = Waiting(t)
    BY <1>1 DEF Waiting
  <2>. QED BY <2>3, <2>4
<1>7. AgainForAReason'
  <2>. SUFFICES ASSUME NEW r \in Replicas, NEW e \in Events, ~(delivered[r][e] <= Reasons(r, e)')
                PROVE  /\ delivered[r][e] = Reasons(r, e)' + 1
                       /\ row'[e] = "processed" \/ Marking(r, e)'
                       /\ \A t \in Scans : ReplicaOf(t) = r => e \notin Waiting(t)'
    BY <1>0 DEF AgainForAReason
  <2>0. delivered[r][e] \in Nat /\ Reasons(r, e) \in Nat /\ losses[r] \in Nat /\ refused[r][e] \in Nat
    BY DEF OutboxInv, OTypeOK, Reasons
  <2>1. \/ losses' = losses /\ row' = [row EXCEPT ![h] = "processed"]
        \/ losses' = [losses EXCEPT ![x] = @ + 1] /\ row' = row
    BY DEF Mark
  <2>2. Reasons(r, e)' = Reasons(r, e) \/ (r = x /\ Reasons(r, e)' = Reasons(r, e) + 1 /\ row' = row)
    <3>. HIDE DEF x
    <3>1. CASE losses' = losses
      BY <1>0, <3>1 DEF Reasons
    <3>2. CASE losses' = [losses EXCEPT ![x] = @ + 1] /\ row' = row
      <4>1. losses'[r] = losses[r] \/ (r = x /\ losses'[r] = losses[r] + 1)
        BY <1>0, <3>2 DEF OutboxInv, OTypeOK
      <4>. QED BY <1>0, <2>0, <3>2, <4>1 DEF Reasons
    <3>. QED BY <2>1, <3>1, <3>2
  <2>3. Reasons(r, e) <= Reasons(r, e)'
    BY <2>0, <2>2
  <2>4. ~(delivered[r][e] <= Reasons(r, e))
    BY <2>0, <2>2
  <2>5. /\ delivered[r][e] = Reasons(r, e) + 1
        /\ row[e] = "processed" \/ Marking(r, e)
        /\ \A t \in Scans : ReplicaOf(t) = r => e \notin Waiting(t)
    BY <2>4 DEF OutboxInv, AgainForAReason
  <2>6. Reasons(r, e)' = Reasons(r, e)
    BY <2>0, <2>2, <2>5
  <2>7. ASSUME Marking(r, e) PROVE row'[e] = "processed" \/ Marking(r, e)'
    <3>1. PICK t \in Scans : ReplicaOf(t) = r /\ pc[t] = "mark" /\ Head(batch[t]) = e
      BY <2>7 DEF Marking
    <3>2. CASE t = s
      <4>0. losses'[r] = losses[r]
        BY <1>0, <2>0, <2>1, <2>6, <3>1, <3>2 DEF OutboxInv, OTypeOK, Reasons
      <4>1. losses' = losses
        BY <1>0, <2>0, <2>1, <3>1, <3>2, <4>0 DEF OutboxInv, OTypeOK
      <4>2. row' = [row EXCEPT ![h] = "processed"]
        BY <1>0, <2>0, <2>1, <3>1, <3>2, <4>0, <4>1 DEF OutboxInv, OTypeOK
      <4>. QED BY <3>1, <3>2, <4>2 DEF OutboxInv, OTypeOK
    <3>3. CASE t # s
      BY <1>1, <3>1, <3>3 DEF Marking
    <3>. QED BY <3>2, <3>3
  <2>8. row[e] = "processed" => row'[e] = "processed"
    BY <1>0, <2>1 DEF OutboxInv, OTypeOK
  <2>. QED BY <1>6, <2>5, <2>6, <2>7, <2>8
<1>8. Shape(s)' /\ InOrder(s)'
  BY <1>0, <1>1, <1>3, RestOfBatch DEF Shape
<1>. QED BY <1>0, <1>1, <1>2, <1>5, <1>7, <1>8, Assembled, OthersKeep, TriedKeeps

\* A process that ends takes its scan along; its replica may publish once more for it.
LEMMA CrashKeeps ==
    ASSUME OutboxInv, NEW x \in Replicas, Crash(x)
    PROVE  OutboxInv'
<1>0. Next /\ OTypeOK' /\ UNCHANGED <<row, createdAt, delivered, refused, accepted, tried, before>>
  BY TypesCrash DEF OutboxInv, Next, Crash, bus
<1>1. /\ \A t \in Scans : ReplicaOf(t) = x => pc'[t] = "idle" /\ batch'[t] = <<>>
      /\ \A t \in Scans : ReplicaOf(t) # x => pc'[t] = pc[t] /\ batch'[t] = batch[t]
      /\ \A r \in Replicas \ {x} : isProcessing'[r] = isProcessing[r] /\ losses'[r] = losses[r]
      /\ losses'[x] = losses[x] + 1
  BY DEF Crash, OutboxInv, OTypeOK
<1>2. \A t \in Scans : ReplicaOf(t) \in Replicas
  BY DEF ReplicaOf, Scans
<1>3. OneScan'
  <2>1. \A t \in Scans : Active(t)' => Active(t) /\ ReplicaOf(t) # x
    BY <1>1 DEF Active
  <2>. QED BY <1>1, <1>2, <2>1 DEF OutboxInv, OneScan
<1>4. MarkedIsAccepted'
  BY <1>0, <1>1 DEF OutboxInv, MarkedIsAccepted
<1>5. AgainForAReason'
  <2>. SUFFICES ASSUME NEW r \in Replicas, NEW e \in Events, ~(delivered[r][e] <= Reasons(r, e)')
                PROVE  /\ delivered[r][e] = Reasons(r, e)' + 1
                       /\ row[e] = "processed" \/ Marking(r, e)'
                       /\ \A t \in Scans : ReplicaOf(t) = r => e \notin Waiting(t)'
    BY <1>0 DEF AgainForAReason
  <2>0. /\ delivered[r][e] \in Nat /\ Reasons(r, e) \in Nat /\ losses[r] \in Nat /\ refused[r][e] \in Nat
        /\ Reasons(r, e)' = losses'[r] + refused[r][e]
    BY <1>0 DEF OutboxInv, OTypeOK, Reasons
  <2>1. r # x
    BY <1>1, <2>0 DEF OutboxInv, AgainForAReason, Reasons
  <2>2. Reasons(r, e)' = Reasons(r, e)
    BY <1>1, <2>0, <2>1 DEF Reasons
  <2>3. /\ delivered[r][e] = Reasons(r, e) + 1
        /\ row[e] = "processed" \/ Marking(r, e)
        /\ \A t \in Scans : ReplicaOf(t) = r => e \notin Waiting(t)
    BY <2>2 DEF OutboxInv, AgainForAReason
  <2>4. Marking(r, e) => Marking(r, e)'
    BY <1>1, <2>1 DEF Marking
  <2>5. \A t \in Scans : ReplicaOf(t) = r => Waiting(t)' = Waiting(t)
    BY <1>1, <2>1 DEF Waiting
  <2>. QED BY <2>2, <2>3, <2>4, <2>5
<1>6. \A t \in Scans : Shape(t)' /\ InOrder(t)'
  <2>. TAKE t \in Scans
  <2>1. CASE ReplicaOf(t) = x
    BY <1>1, <2>1 DEF Shape, InOrder, InBatch
  <2>2. CASE ReplicaOf(t) # x
    BY <1>0, <1>1, <2>2, OthersKeep
  <2>. QED BY <2>1, <2>2
<1>. QED BY <1>0, <1>3, <1>4, <1>5, <1>6, Assembled, TriedKeeps

-----------------------------------------------------------------------------
(* The theorems.                                                           *)

LEMMA OutboxInit == Init => OutboxInv
<1>. SUFFICES ASSUME Init PROVE OutboxInv
  OBVIOUS
<1>1. OTypeOK
  BY OutboxTypesInit
<1>2. OneScan /\ BatchShape
  BY DEF Init, OneScan, Active, BatchShape, InBatch
<1>3. MarkedIsAccepted
  BY DEF Init, MarkedIsAccepted
<1>4. AgainForAReason
  BY DEF Init, AgainForAReason, Reasons
<1>5. TriedInOrder
  BY DEF Init, TriedInOrder, NoOvertaking, Inserted
<1>. QED BY <1>1, <1>2, <1>3, <1>4, <1>5 DEF OutboxInv

LEMMA OutboxNext == OutboxInv /\ [Next]_vars => OutboxInv'
<1>. SUFFICES ASSUME OutboxInv, [Next]_vars PROVE OutboxInv'
  OBVIOUS
<1>1. CASE Next
  BY <1>1, EventKeeps, PollKeeps, ScanKeeps, PublishKeeps, MarkKeeps, CrashKeeps DEF Next, Step
<1>2. CASE UNCHANGED vars
  <2>1. UNCHANGED <<row, createdAt, isProcessing, pc, batch, delivered, refused, accepted, tried,
                    losses, before, failures>>
    BY <1>2 DEF vars, bus
  <2>2. OTypeOK' /\ OneScan'
    BY <2>1 DEF OutboxInv, OTypeOK, OneScan, Active
  <2>3. BatchShape'
    BY <2>1 DEF OutboxInv, BatchShape, InBatch, Committed
  <2>4. MarkedIsAccepted' /\ AgainForAReason'
    BY <2>1 DEF OutboxInv, MarkedIsAccepted, AgainForAReason, Reasons, Marking, Waiting
  <2>5. TriedInOrder'
    BY <2>1 DEF OutboxInv, TriedInOrder, NoOvertaking, Inserted, Committed
  <2>. QED BY <2>2, <2>3, <2>4, <2>5 DEF OutboxInv
<1>. QED BY <1>1, <1>2

\* The inductive invariant holds at every await of the loop, on every replica.
THEOREM OutboxInvariant == Spec => []OutboxInv
<1>. QED BY OutboxInit, OutboxNext, PTL DEF Spec

\* No event is tried before one that was committed before it was inserted, in an earlier
\* millisecond (orderBy createdAt, outbox.worker.ts).
THEOREM NoneOvertakes == Spec => []NoOvertaking
<1>1. OutboxInv => NoOvertaking
  BY DEF OutboxInv, TriedInOrder
<1>. QED BY <1>1, OutboxInvariant, PTL

\* A replica publishes an event once, and once more for each crash or failed mark of its
\* own and for each time one of its listeners rejected it (isProcessing, outbox.worker.ts).
THEOREM DuplicatesExplained == Spec => []DuplicatesAreExplained
<1>1. OutboxInv => DuplicatesAreExplained
  <2>. SUFFICES ASSUME OutboxInv, NEW r \in Replicas, NEW e \in Events
                PROVE  delivered[r][e] <= 1 + Reasons(r, e)
    BY DEF DuplicatesAreExplained
  <2>1. delivered[r][e] \in Nat /\ Reasons(r, e) \in Nat
    BY DEF OutboxInv, OTypeOK, Reasons
  <2>. QED BY <2>1 DEF OutboxInv, AgainForAReason
<1>. QED BY <1>1, OutboxInvariant, PTL

-----------------------------------------------------------------------------
(* Refinement: every step of the outbox is a step of AtLeastOnce, or none. *)

StageOf == [e \in Events |-> IF row[e] = "pending" THEN "recorded"
                             ELSE IF row[e] = "processed" THEN "settled" ELSE "unknown"]

LEMMA StagesMove ==
    ASSUME OutboxInv, NEW e \in Events, NEW value,
           row' = [row EXCEPT ![e] = value]
    PROVE  StageOf' = [StageOf EXCEPT ![e] = IF value = "pending" THEN "recorded"
                                             ELSE IF value = "processed" THEN "settled"
                                             ELSE "unknown"]
  BY DEF StageOf, OutboxInv, OTypeOK

LEMMA StepsAreKept ==
    ASSUME OutboxInv, [Next]_vars
    PROVE  Promise!Next \/ UNCHANGED <<StageOf, delivered, accepted>>
<1>1. ASSUME NEW e \in Events, PushEvent(e) \/ Rollback(e)
      PROVE  UNCHANGED <<StageOf, delivered, accepted>>
  <2>1. /\ delivered' = delivered /\ accepted' = accepted
        /\ row[e] \in {"none", "draft"}
        /\ row' = [row EXCEPT ![e] = "draft"] \/ row' = [row EXCEPT ![e] = "none"]
    BY <1>1 DEF PushEvent, Rollback, bus
  <2>. QED BY <2>1 DEF StageOf, OutboxInv, OTypeOK
<1>2. ASSUME NEW e \in Events, Commit(e) PROVE Promise!Next
  <2>1. StageOf[e] = "unknown" /\ delivered' = delivered /\ accepted' = accepted
    BY <1>2 DEF Commit, aux, bus, StageOf
  <2>2. StageOf' = [StageOf EXCEPT ![e] = "recorded"]
    BY <1>2, StagesMove DEF Commit
  <2>. QED BY <2>1, <2>2 DEF Promise!Next, Promise!Record, StageOf
<1>3. ASSUME NEW s \in Scans, Poll(s) \/ Scan(s) PROVE UNCHANGED <<StageOf, delivered, accepted>>
  BY <1>3 DEF Poll, Scan, aux, bus, StageOf
<1>4. ASSUME NEW s \in Scans, Publish(s)
      PROVE  Promise!Next \/ UNCHANGED <<StageOf, delivered, accepted>>
  <2>. DEFINE h == Head(batch[s])
              x == ReplicaOf(s)
  <2>1. /\ row' = row /\ x \in Replicas /\ accepted' \in {accepted, accepted \cup {h}}
        /\ \/ delivered' = [delivered EXCEPT ![x][h] = @ + 1]
           \/ delivered' = delivered /\ accepted' = accepted
    <3>1. row' = row /\ x \in Replicas /\ (Accept(x, h) \/ Refuse(x, h))
      BY <1>4 DEF Publish, ReplicaOf, Scans
    <3>2. CASE Accept(x, h)
      BY <3>1, <3>2 DEF Accept
    <3>3. CASE Refuse(x, h)
      <4>1. CASE UNCHANGED <<refused, delivered>>
        BY <3>1, <3>3, <4>1 DEF Refuse
      <4>2. CASE \E n \in {0, 1} : delivered' = [delivered EXCEPT ![x][h] = @ + n]
        <5>1. delivered \in [Replicas -> [Events -> Nat]]
          BY DEF OutboxInv, OTypeOK
        <5>2. [delivered EXCEPT ![x][h] = @ + 0] = delivered
          BY <5>1
        <5>. QED BY <3>1, <3>3, <4>2, <5>2 DEF Refuse
      <4>. QED BY <3>3, <4>1, <4>2 DEF Refuse
    <3>. QED BY <3>1, <3>2, <3>3
  <2>2. h \in Committed
    <3>1. batch[s] \in Seq(Events) /\ batch[s] # <<>> /\ InBatch(s) \subseteq Committed
      BY <1>4, ByScan DEF Publish, OutboxInv, OTypeOK, Shape
    <3>. QED BY <3>1, TakenOff DEF InBatch
  <2>3. h \in Events /\ StageOf[h] # "unknown"
    BY <2>2 DEF Committed, StageOf
  <2>4. StageOf' = StageOf
    BY <2>1 DEF StageOf
  <2>. QED BY <2>1, <2>3, <2>4 DEF Promise!Next, Promise!Deliver, StageOf
<1>5. ASSUME NEW s \in Scans, Mark(s)
      PROVE  Promise!Next \/ UNCHANGED <<StageOf, delivered, accepted>>
  <2>. DEFINE h == Head(batch[s])
  <2>1. /\ delivered' = delivered /\ accepted' = accepted
        /\ row' = [row EXCEPT ![h] = "processed"] \/ row' = row
    BY <1>5 DEF Mark, bus
  <2>2. h \in Committed /\ h \in accepted
    <3>1. /\ batch[s] \in Seq(Events) /\ batch[s] # <<>> /\ InBatch(s) \subseteq Committed
          /\ pc[s] = "mark"
      BY <1>5, ByScan DEF Mark, OutboxInv, OTypeOK, Shape
    <3>. QED BY <3>1, TakenOff DEF InBatch, OutboxInv, MarkedIsAccepted
  <2>3. CASE row' = row
    BY <2>1, <2>3 DEF StageOf
  <2>4. CASE row' = [row EXCEPT ![h] = "processed"]
    <3>1. h \in Events /\ StageOf' = [StageOf EXCEPT ![h] = "settled"]
      BY <2>2, <2>4, StagesMove DEF Committed
    <3>2. CASE row[h] = "processed"
      BY <2>1, <2>4, <3>1, <3>2 DEF StageOf, OutboxInv, OTypeOK
    <3>3. CASE row[h] = "pending"
      <4>1. StageOf[h] = "recorded"
        BY <3>1, <3>3 DEF StageOf
      <4>. QED BY <2>1, <2>2, <3>1, <4>1 DEF Promise!Next, Promise!Settle, StageOf
    <3>. QED BY <2>2, <3>2, <3>3 DEF Committed
  <2>. QED BY <2>1, <2>3, <2>4
<1>6. ASSUME NEW r \in Replicas, Crash(r) PROVE UNCHANGED <<StageOf, delivered, accepted>>
  BY <1>6 DEF Crash, bus, StageOf
<1>7. CASE UNCHANGED vars
  BY <1>7 DEF vars, bus, StageOf
<1>. QED BY <1>1, <1>2, <1>3, <1>4, <1>5, <1>6, <1>7 DEF Next, Step

\* The polling outbox implements at-least-once delivery, whatever the replicas do to each
\* other's rows and whenever they crash.
THEOREM OutboxDelivers == Spec => DeliversAtLeastOnce
<1>1. Init => Promise!Init
  BY DEF Init, Promise!Init
<1>2. OutboxInv /\ [Next]_vars => [Promise!Next]_<<StageOf, delivered, accepted>>
  BY StepsAreKept
<1>. QED BY <1>1, <1>2, OutboxInvariant, PTL DEF Spec, DeliversAtLeastOnce, Promise!Spec, StageOf
=============================================================================
