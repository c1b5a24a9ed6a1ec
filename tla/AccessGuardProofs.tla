------------------------- MODULE AccessGuardProofs -------------------------
(***************************************************************************)
(* GuardInv, and the two bounds on staleness, for any number of users,     *)
(* requests and versions, any life of an entry and any delay of a reader.  *)
(* The argument is the sum of EntriesExpire: a tick ages a superseded      *)
(* version by at most one and takes exactly one from the life of its entry.*)
(***************************************************************************)
EXTENDS AccessGuardProperties, TLAPS

\* The constants as the provers need them.
LEMMA Numbers ==
    /\ TTL \in Nat /\ TTL >= 1 /\ Lag \in Nat /\ AccessLife \in Nat /\ AccessLife >= 1
    /\ MaxVersion \in Nat /\ MaxVersion >= 1
    /\ Horizon \in Nat /\ Horizon = TTL + 2 * Lag
    /\ \A v \in Versions : v \in Nat /\ v >= 1 /\ v <= MaxVersion /\ v # None
    /\ \A n \in Ages : n \in Nat
    /\ 1 \in Versions /\ 0 \in Ages
  BY ClockAssumption, VersionAssumption, NoneAssumption DEF Horizon, Versions, Ages

-----------------------------------------------------------------------------
(* What the helpers of the clock do to one number (users.repository.ts:57, *)
(* the option EX of a cached account, and the wait of a request).          *)

LEMMA OlderStep ==
    ASSUME NEW n \in Ages
    PROVE  /\ Older(n) \in Ages /\ n <= Older(n) /\ Older(n) <= n + 1
           /\ \A m \in Ages : m <= n => Older(m) <= Older(n)
  BY Numbers DEF Older, Ages

LEMMA AgedEntry ==
    ASSUME NEW e \in Entry \cup {None}
    PROVE  /\ Aged(e) \in Entry \cup {None}
           /\ Aged(e) # None => e # None /\ e \in Entry /\ Aged(e).ver = e.ver
                                /\ Aged(e).left = e.left - 1
<1>1. CASE e = None \/ e.left = 1
  BY <1>1 DEF Aged
<1>2. CASE e # None /\ e.left # 1
  <2>1. e \in Entry /\ Aged(e) = [e EXCEPT !.left = e.left - 1]
    BY <1>2 DEF Aged
  <2>2. e.left - 1 \in 1..TTL
    BY <1>2, <2>1, Numbers DEF Entry
  <2>. QED BY <1>2, <2>1, <2>2 DEF Entry
<1>. QED BY <1>1, <1>2

-----------------------------------------------------------------------------
(* Types.                                                                  *)

\* A snapshot just taken is of age 0 and changes nothing else of the request.
LEMMA SnapshotTaken ==
    ASSUME GTypeOK, NEW p \in Requests, NEW v \in Versions \cup {None}, Snapshot(p, v)
    PROVE  /\ req' \in [Requests -> Request]
           /\ req'[p].snap = v /\ req'[p].age = 0 /\ req'[p].key = req[p].key
           /\ req'[p].user = req[p].user /\ req'[p].ver = req[p].ver
           /\ \A q \in Requests \ {p} : req'[q] = req[q]
<1>. DEFINE r == [req[p] EXCEPT !.snap = v, !.age = 0]
<1>1. req[p] \in Request /\ 0 \in 0..Lag
  BY Numbers DEF GTypeOK
<1>2. /\ r \in Request
      /\ r.snap = v /\ r.age = 0 /\ r.key = req[p].key
      /\ r.user = req[p].user /\ r.ver = req[p].ver
  BY <1>1 DEF Request
<1>3. req' = [req EXCEPT ![p] = r]
  BY DEF Snapshot
<1>. HIDE DEF r
<1>. QED BY <1>2, <1>3 DEF GTypeOK

LEMMA TypesInit == Init => GTypeOK
  BY Numbers DEF Init, GTypeOK, Keys, Labels, Request, Blank

\* A change keeps the versions within their bound; a deletion leaves None.
LEMMA TypesDatabase ==
    ASSUME GTypeOK,
           \E u \in Users : Delete(u) \/ \E k \in Keys : Change(k, u) \/ Lose(k, u)
    PROVE  GTypeOK'
<1>. PICK u \in Users : Delete(u) \/ \E k \in Keys : Change(k, u) \/ Lose(k, u)
  OBVIOUS
<1>1. CASE Delete(u)
  BY <1>1 DEF Delete, GTypeOK
<1>2. ASSUME NEW k \in Keys, Change(k, u) PROVE GTypeOK'
  <2>1. current[k][u] + 1 \in Versions
    BY <1>2, Numbers DEF GTypeOK, Change, Versions
  <2>. QED BY <1>2, <2>1 DEF GTypeOK, Change
<1>3. ASSUME NEW k \in Keys, Lose(k, u) PROVE GTypeOK'
  BY <1>3 DEF GTypeOK, Lose
<1>. QED BY <1>1, <1>2, <1>3

LEMMA TypesTick ==
    ASSUME GTypeOK, Tick
    PROVE  GTypeOK'
<1>1. since' \in [Keys -> [Users -> [Versions -> Ages]]]
  BY OlderStep, Numbers DEF GTypeOK, Tick
<1>2. cache' \in [Keys -> [Users -> Entry \cup {None}]]
  <2>1. \A k \in Keys, u \in Users : Aged(cache[k][u]) \in Entry \cup {None}
    BY AgedEntry DEF GTypeOK
  <2>. QED BY <2>1 DEF Tick
<1>3. issued' \in [Users -> [Versions -> 0..AccessLife]]
  <2>1. \A n \in 0..AccessLife : Sooner(n) \in 0..AccessLife
    BY Numbers DEF Sooner
  <2>. QED BY <2>1 DEF GTypeOK, Tick
<1>4. req' \in [Requests -> Request]
  <2>1. ASSUME NEW p \in Requests, Holding(p)
        PROVE  [req[p] EXCEPT !.age = @ + 1] \in Request
    <3>1. req[p].age + 1 \in 0..Lag
      BY <2>1, Numbers DEF GTypeOK, Tick, Request
    <3>. QED BY <2>1, <3>1 DEF GTypeOK, Request
  <2>. QED BY <2>1 DEF GTypeOK, Tick
<1>. QED BY <1>1, <1>2, <1>3, <1>4 DEF GTypeOK, Tick

\* The steps of a request, whatever key it reads.
LEMMA TypesRequest ==
    ASSUME GTypeOK, NEW p \in Requests, Login(p) \/ Present(p) \/ Step(p),
           pc[p] # "idle" => req[p].user \in Users /\ req[p].ver # None,
           pc[p] = "fill" => req[p].snap # None
    PROVE  GTypeOK'
<1>0. Blank \in Request
  BY Numbers DEF Blank, Request, Keys
<1>1. CASE Login(p)
  <2>. PICK u \in Users : /\ current["unique"][u] # None
                          /\ Goto(p, "sign")
                          /\ req' = [req EXCEPT ![p] = [Blank EXCEPT !.user = u,
                                                        !.ver = current["unique"][u]]]
                          /\ UNCHANGED <<current, since, cache, issued>>
    BY <1>1 DEF Login
  <2>1. current["unique"][u] \in Versions
    BY DEF GTypeOK, Keys
  <2>2. [Blank EXCEPT !.user = u, !.ver = current["unique"][u]] \in Request
    BY <1>0, <2>1 DEF Request
  <2>. QED BY <2>2 DEF GTypeOK, Goto, Labels
<1>2. CASE Present(p)
  <2>. PICK u \in Users, v \in Versions :
         /\ Goto(p, "lookup")
         /\ req' = [req EXCEPT ![p] = [Blank EXCEPT !.user = u, !.ver = v]]
         /\ UNCHANGED <<current, since, cache, issued>>
    BY <1>2 DEF Present
  <2>1. [Blank EXCEPT !.user = u, !.ver = v] \in Request
    BY <1>0 DEF Request
  <2>. QED BY <2>1 DEF GTypeOK, Goto, Labels
<1>3. CASE Sign(p)
  BY <1>0, <1>3, Numbers DEF GTypeOK, Sign, Answer, Goto, Labels, Request
<1>4. CASE UserLookup(p)
  <2>1. CASE cache[req[p].key][req[p].user] # None /\ Snapshot(p, cache[req[p].key][req[p].user].ver)
             /\ Goto(p, "answer")
    <3>1. cache[req[p].key][req[p].user].ver \in Versions
      BY <1>4, <2>1 DEF GTypeOK, Request, Entry, UserLookup
    <3>2. req' \in [Requests -> Request]
      BY <2>1, <3>1, SnapshotTaken
    <3>. QED BY <1>4, <2>1, <3>2 DEF GTypeOK, UserLookup, Goto, Labels
  <2>. QED BY <1>4, <2>1 DEF GTypeOK, UserLookup, Goto, Labels
<1>5. CASE UserRead(p)
  <2>1. current[req[p].key][req[p].user] \in Versions \cup {None}
    BY <1>5 DEF GTypeOK, Request, UserRead
  <2>2. req' \in [Requests -> Request]
    BY <1>5, <2>1, SnapshotTaken DEF UserRead
  <2>3. pc' \in [Requests -> Labels]
    BY <1>5 DEF GTypeOK, UserRead, Goto, Labels
  <2>. QED BY <1>5, <2>2, <2>3 DEF GTypeOK, UserRead
<1>6. CASE UserFill(p)
  <2>1. NewEntry(req[p].snap) \in Entry
    BY <1>6, Numbers DEF GTypeOK, UserFill, NewEntry, Entry, Request
  <2>2. cache' \in [Keys -> [Users -> Entry \cup {None}]]
    <3>1. req[p].key \in Keys /\ req[p].user \in Users
      BY <1>6 DEF GTypeOK, Request, UserFill
    <3>2. CASE cache' = [cache EXCEPT ![req[p].key][req[p].user] = NewEntry(req[p].snap)]
      BY <2>1, <3>1, <3>2 DEF GTypeOK
    <3>. QED BY <1>6, <3>2 DEF GTypeOK, UserFill
  <2>. QED BY <1>6, <2>2 DEF GTypeOK, UserFill, Goto, Labels
<1>7. CASE Validate(p)
  <2>1. CASE Refuses(p) /\ Answer(p)
    BY <1>0, <1>7, <2>1 DEF GTypeOK, Validate, Answer, Goto, Labels
  <2>2. CASE /\ Goto(p, "lookup")
             /\ req' = [req EXCEPT ![p].key = "permissions", ![p].snap = None, ![p].age = 0]
    <3>1. req[p] \in Request /\ 0 \in 0..Lag /\ "permissions" \in Keys
      BY Numbers DEF GTypeOK, Keys
    <3>2. [req[p] EXCEPT !.key = "permissions", !.snap = None, !.age = 0] \in Request
      BY <3>1 DEF Request
    <3>. QED BY <1>7, <2>2, <3>2 DEF GTypeOK, Validate, Goto, Labels
  <2>. QED BY <1>7, <2>1, <2>2 DEF Validate
<1>8. CASE Me(p)
  BY <1>0, <1>8 DEF GTypeOK, Me, Answer, Goto, Labels
<1>. QED BY <1>1, <1>2, <1>3, <1>4, <1>5, <1>6, <1>7, <1>8 DEF Step

-----------------------------------------------------------------------------
(* The rest of GuardInv, by kind of step.                                  *)

GuardRest == EntriesExpire /\ SnapshotsAge /\ CurrentIsFresh /\ SupersededInOrder /\ NothingIsAhead

\* Where the indices of since, cache and current lie.
LEMMA Reading ==
    ASSUME GTypeOK, NEW p \in Requests, req[p].user \in Users
    PROVE  /\ req[p].key \in Keys /\ req[p].age \in 0..Lag
           /\ req[p].ver \in Versions \cup {None} /\ req[p].snap \in Versions \cup {None}
           /\ req[p].snap # None => SinceSnapshot(p) \in Ages
           /\ CurrentOf(p) \in Versions \cup {None}
  BY DEF GTypeOK, Request, SinceSnapshot, CurrentOf

LEMMA EntryRead ==
    ASSUME GTypeOK, NEW k \in Keys, NEW u \in Users, cache[k][u] # None
    PROVE  /\ cache[k][u] \in Entry /\ cache[k][u].ver \in Versions
           /\ cache[k][u].left \in 1..TTL /\ SinceEntry(k, u) \in Ages
  BY DEF GTypeOK, Entry, SinceEntry

\* A write of an account cannot touch the cache: it only moves on what is current
\* (users.service.ts, roles.service.ts).
LEMMA RestDatabase ==
    ASSUME GTypeOK, GuardRest,
           \E u \in Users : Delete(u) \/ \E k \in Keys : Change(k, u) \/ Lose(k, u)
    PROVE  GuardRest'
<1>1. /\ UNCHANGED <<since, pc, req>>
      /\ \A k \in Keys, u \in Users :
           /\ cache'[k][u] = cache[k][u] \/ cache'[k][u] = None
           /\ current'[k][u] # None => /\ current[k][u] # None
                                       /\ current[k][u] <= current'[k][u]
  <2>. PICK u \in Users : Delete(u) \/ \E k \in Keys : Change(k, u) \/ Lose(k, u)
    OBVIOUS
  <2>0. \A k \in Keys, w \in Users : current[k][w] # None => current[k][w] \in Nat
    BY Numbers DEF GTypeOK
  <2>1. CASE Delete(u)
    BY <2>0, <2>1 DEF Delete, GTypeOK
  <2>2. ASSUME NEW k \in Keys, Change(k, u) PROVE <1>1
    BY <2>0, <2>2 DEF Change, GTypeOK
  <2>3. ASSUME NEW k \in Keys, Lose(k, u) PROVE <1>1
    BY <2>0, <2>3 DEF Lose, GTypeOK
  <2>. QED BY <2>1, <2>2, <2>3
<1>2. GTypeOK'
  BY TypesDatabase
<1>3. EntriesExpire'
  BY <1>1 DEF GuardRest, EntriesExpire, SinceEntry
<1>4. SnapshotsAge'
  BY <1>1 DEF GuardRest, SnapshotsAge, SinceSnapshot
<1>5. CurrentIsFresh'
  <2>. SUFFICES ASSUME NEW k \in Keys, NEW u \in Users, NEW v \in Versions,
                       ~Superseded(k, u, v)'
                PROVE  since[k][u][v] = 0
    BY <1>1 DEF CurrentIsFresh
  <2>1. current[k][u] \in Nat /\ current'[k][u] \in Nat /\ v \in Nat
    BY <1>1, <1>2, Numbers DEF GTypeOK, Superseded
  <2>2. ~Superseded(k, u, v)
    BY <1>1, <2>1 DEF Superseded
  <2>. QED BY <2>2 DEF GuardRest, CurrentIsFresh
<1>6. SupersededInOrder'
  BY <1>1 DEF GuardRest, SupersededInOrder
<1>7. NothingIsAhead'
  <2>1. ASSUME NEW k \in Keys, NEW u \in Users, cache'[k][u] # None, current'[k][u] # None
        PROVE  cache'[k][u].ver <= current'[k][u]
    <3>1. /\ current[k][u] \in Nat /\ current'[k][u] \in Nat /\ cache[k][u].ver \in Nat
          /\ cache'[k][u] = cache[k][u]
      BY <1>1, <1>2, <2>1, EntryRead, Numbers DEF GTypeOK
    <3>. QED BY <1>1, <2>1, <3>1 DEF GuardRest, NothingIsAhead
  <2>2. ASSUME NEW p \in Requests, Holding(p)', CurrentOf(p)' # None
        PROVE  req'[p].snap # None /\ req'[p].snap <= CurrentOf(p)'
    <3>1. Holding(p) /\ req[p].user \in Users
      BY <1>1, <2>2 DEF Holding, GuardRest, SnapshotsAge
    <3>2. CurrentOf(p) # None /\ CurrentOf(p) <= CurrentOf(p)'
      BY <1>1, <2>2, <3>1, Reading DEF CurrentOf
    <3>3. CurrentOf(p) \in Nat /\ CurrentOf(p)' \in Nat /\ req[p].snap \in Versions \cup {None}
      BY <1>1, <1>2, <2>2, <3>1, <3>2, Reading, Numbers DEF GTypeOK, CurrentOf
    <3>4. req[p].snap # None /\ req[p].snap <= CurrentOf(p)
      BY <3>1, <3>2 DEF GuardRest, NothingIsAhead
    <3>. QED BY <1>1, <3>2, <3>3, <3>4, Numbers
  <2>. QED BY <2>1, <2>2 DEF NothingIsAhead
<1>. QED BY <1>3, <1>4, <1>5, <1>6, <1>7 DEF GuardRest

\* One tick ages a superseded version by at most one, and takes one from every entry.
LEMMA RestTick ==
    ASSUME GTypeOK, GuardRest, Tick
    PROVE  GuardRest'
<1>1. \A k \in Keys, u \in Users, v \in Versions :
        /\ since'[k][u][v] = IF Superseded(k, u, v) THEN Older(since[k][u][v]) ELSE 0
        /\ since[k][u][v] \in Ages /\ since'[k][u][v] \in Ages
        /\ since'[k][u][v] <= since[k][u][v] + 1
  <2>. TAKE k \in Keys, u \in Users, v \in Versions
  <2>1. since'[k][u][v] = IF Superseded(k, u, v) THEN Older(since[k][u][v]) ELSE 0
    BY DEF Tick
  <2>2. since[k][u][v] \in Ages
    BY DEF GTypeOK
  <2>. QED BY <2>1, <2>2, OlderStep, Numbers DEF Ages
<1>2. /\ UNCHANGED <<current, pc>>
      /\ \A p \in Requests : /\ req'[p].user = req[p].user /\ req'[p].ver = req[p].ver
                             /\ req'[p].key = req[p].key /\ req'[p].snap = req[p].snap
                             /\ Holding(p) => req'[p].age = req[p].age + 1
  BY DEF Tick, GTypeOK, Request
<1>3. EntriesExpire'
  <2>. SUFFICES ASSUME NEW k \in Keys, NEW u \in Users, cache'[k][u] # None
                PROVE  SinceEntry(k, u)' + cache'[k][u].left <= TTL + Lag
    BY DEF EntriesExpire
  <2>1. cache'[k][u] = Aged(cache[k][u]) /\ cache[k][u] \in Entry \cup {None}
    BY DEF Tick, GTypeOK
  <2>2. /\ cache[k][u] # None /\ cache'[k][u].ver = cache[k][u].ver
        /\ cache'[k][u].left = cache[k][u].left - 1
    BY <2>1, AgedEntry
  <2>3. cache[k][u].ver \in Versions /\ cache[k][u].left \in 1..TTL
    BY <2>2, EntryRead
  <2>4. since[k][u][cache[k][u].ver] + cache[k][u].left <= TTL + Lag
    BY <2>2 DEF GuardRest, EntriesExpire, SinceEntry
  <2>5. SinceEntry(k, u)' = since'[k][u][cache[k][u].ver]
    BY <2>2 DEF SinceEntry
  <2>. QED BY <1>1, <2>2, <2>3, <2>4, <2>5, Numbers
<1>4. SnapshotsAge'
  <2>. SUFFICES ASSUME NEW p \in Requests, pc[p] # "idle"
                PROVE  /\ req'[p].user \in Users /\ req'[p].ver # None
                       /\ pc[p] = "fill" => /\ req'[p].snap # None
                                            /\ SinceSnapshot(p)' <= req'[p].age
                       /\ pc[p] = "answer" /\ req'[p].snap # None =>
                            SinceSnapshot(p)' < TTL + Lag + req'[p].age
    BY <1>2 DEF SnapshotsAge
  <2>1. req[p].user \in Users /\ req[p].ver # None
    BY DEF GuardRest, SnapshotsAge
  <2>2. ASSUME Holding(p), req[p].snap # None
        PROVE  /\ SinceSnapshot(p)' <= SinceSnapshot(p) + 1
               /\ req'[p].age = req[p].age + 1
               /\ SinceSnapshot(p) \in Nat /\ SinceSnapshot(p)' \in Nat /\ req[p].age \in Nat
    BY <1>1, <1>2, <2>1, <2>2, Reading, Numbers DEF SinceSnapshot
  <2>3. ASSUME pc[p] = "fill"
        PROVE  req'[p].snap # None /\ SinceSnapshot(p)' <= req'[p].age
    <3>1. req[p].snap # None /\ SinceSnapshot(p) <= req[p].age
      BY <2>3 DEF GuardRest, SnapshotsAge
    <3>. QED BY <1>2, <2>2, <2>3, <3>1 DEF Holding
  <2>4. ASSUME pc[p] = "answer", req'[p].snap # None
        PROVE  SinceSnapshot(p)' < TTL + Lag + req'[p].age
    <3>1. req[p].snap # None /\ SinceSnapshot(p) < TTL + Lag + req[p].age
      BY <1>2, <2>4 DEF GuardRest, SnapshotsAge
    <3>. QED BY <2>2, <2>4, <3>1, Numbers DEF Holding
  <2>. QED BY <1>2, <2>1, <2>3, <2>4
<1>5. CurrentIsFresh'
  BY <1>1, <1>2 DEF CurrentIsFresh, Superseded
<1>6. SupersededInOrder'
  <2>. SUFFICES ASSUME NEW k \in Keys, NEW u \in Users, NEW v \in Versions, NEW w \in Versions,
                       v <= w
                PROVE  since'[k][u][w] <= since'[k][u][v]
    BY DEF SupersededInOrder
  <2>1. current[k][u] \in Versions \cup {None}
    BY DEF GTypeOK
  <2>2. Superseded(k, u, w) => Superseded(k, u, v)
    BY <2>1, Numbers DEF Superseded
  <2>3. since[k][u][w] <= since[k][u][v]
    BY DEF GuardRest, SupersededInOrder
  <2>4. Older(since[k][u][w]) <= Older(since[k][u][v])
    BY <1>1, <2>3, OlderStep
  <2>5. 0 <= since'[k][u][v]
    BY <1>1 DEF Ages
  <2>. QED BY <1>1, <2>2, <2>4, <2>5
<1>7. NothingIsAhead'
  <2>1. ASSUME NEW k \in Keys, NEW u \in Users, cache'[k][u] # None, current'[k][u] # None
        PROVE  cache'[k][u].ver <= current'[k][u]
    <3>1. cache'[k][u] = Aged(cache[k][u]) /\ cache[k][u] \in Entry \cup {None}
      BY DEF Tick, GTypeOK
    <3>2. cache[k][u] # None /\ cache'[k][u].ver = cache[k][u].ver
      BY <2>1, <3>1, AgedEntry
    <3>. QED BY <1>2, <2>1, <3>2 DEF GuardRest, NothingIsAhead
  <2>2. ASSUME NEW p \in Requests, Holding(p)', CurrentOf(p)' # None
        PROVE  req'[p].snap # None /\ req'[p].snap <= CurrentOf(p)'
    BY <1>2, <2>2 DEF GuardRest, NothingIsAhead, Holding, CurrentOf
  <2>. QED BY <2>1, <2>2 DEF NothingIsAhead
<1>. QED BY <1>3, <1>4, <1>5, <1>6, <1>7 DEF GuardRest

\* What SnapshotsAge and NothingIsAhead say of one request.
Aging(p) ==
    /\ pc[p] # "idle" => req[p].user \in Users /\ req[p].ver # None
    /\ pc[p] = "fill" => req[p].snap # None /\ SinceSnapshot(p) <= req[p].age
    /\ pc[p] = "answer" /\ req[p].snap # None => SinceSnapshot(p) < TTL + Lag + req[p].age
NotAhead(p) ==
    Holding(p) /\ CurrentOf(p) # None => req[p].snap # None /\ req[p].snap <= CurrentOf(p)

\* A step of one request leaves the others, the database and the clock alone.
LEMMA OneRequest ==
    ASSUME GTypeOK, GuardRest, NEW p \in Requests,
           UNCHANGED <<current, since>>,
           \A q \in Requests \ {p} : pc'[q] = pc[q] /\ req'[q] = req[q],
           Aging(p)', NotAhead(p)',
           \A k \in Keys, u \in Users : cache'[k][u] # None =>
             \/ cache'[k][u] = cache[k][u]
             \/ /\ SinceEntry(k, u)' + cache'[k][u].left <= TTL + Lag
                /\ current[k][u] # None => cache'[k][u].ver <= current[k][u]
    PROVE  GuardRest'
<1>1. \A q \in Requests : Aging(q)'
  <2>. TAKE q \in Requests
  <2>1. CASE q # p
    BY <2>1 DEF GuardRest, SnapshotsAge, Aging, SinceSnapshot
  <2>. QED BY <2>1
<1>2. \A q \in Requests : NotAhead(q)'
  <2>. TAKE q \in Requests
  <2>1. CASE q # p
    BY <2>1 DEF GuardRest, NothingIsAhead, NotAhead, Holding, CurrentOf
  <2>. QED BY <2>1
<1>3. SnapshotsAge'
  BY <1>1 DEF SnapshotsAge, Aging
<1>4. EntriesExpire'
  BY DEF GuardRest, EntriesExpire, SinceEntry
<1>5. NothingIsAhead'
  BY <1>2 DEF GuardRest, NothingIsAhead, NotAhead
<1>6. CurrentIsFresh' /\ SupersededInOrder'
  BY DEF GuardRest, CurrentIsFresh, Superseded, SupersededInOrder
<1>. QED BY <1>3, <1>4, <1>5, <1>6 DEF GuardRest

\* The awaits of CachedRepository.getOrSet (cached-repository.ts) and of the guard.
LEMMA RestRequest ==
    ASSUME GTypeOK, GuardRest, NEW p \in Requests, Login(p) \/ Present(p) \/ Step(p)
    PROVE  GuardRest'
<1>0. /\ pc[p] # "idle" => req[p].user \in Users /\ req[p].ver # None
      /\ pc[p] = "fill" => req[p].snap # None
  BY DEF GuardRest, SnapshotsAge
<1>t. GTypeOK'
  BY <1>0, TypesRequest
<1>1. CASE Login(p)
  <2>. PICK u \in Users : /\ current["unique"][u] # None
                          /\ Goto(p, "sign")
                          /\ req' = [req EXCEPT ![p] = [Blank EXCEPT !.user = u,
                                                        !.ver = current["unique"][u]]]
                          /\ UNCHANGED <<current, since, cache, issued>>
    BY <1>1 DEF Login
  <2>1. pc'[p] = "sign" /\ req'[p].user = u /\ req'[p].ver # None
    BY DEF GTypeOK, Goto, Blank
  <2>2. Aging(p)' /\ NotAhead(p)'
    BY <2>1 DEF Aging, NotAhead, Holding
  <2>. QED BY <2>2, OneRequest DEF GTypeOK, Goto
<1>2. CASE Present(p)
  <2>. PICK u \in Users, v \in Versions :
         /\ Goto(p, "lookup")
         /\ req' = [req EXCEPT ![p] = [Blank EXCEPT !.user = u, !.ver = v]]
         /\ UNCHANGED <<current, since, cache, issued>>
    BY <1>2 DEF Present
  <2>1. pc'[p] = "lookup" /\ req'[p].user = u /\ req'[p].ver # None
    BY Numbers DEF GTypeOK, Goto, Blank
  <2>2. Aging(p)' /\ NotAhead(p)'
    BY <2>1 DEF Aging, NotAhead, Holding
  <2>. QED BY <2>2, OneRequest DEF GTypeOK, Goto
<1>3. CASE Answer(p) /\ UNCHANGED <<current, since, cache>>
  <2>1. pc'[p] = "idle"
    BY <1>3 DEF GTypeOK, Answer, Goto
  <2>2. Aging(p)' /\ NotAhead(p)'
    BY <2>1 DEF Aging, NotAhead, Holding
  <2>. QED BY <1>3, <2>2, OneRequest DEF GTypeOK, Answer, Goto
<1>4. CASE UserLookup(p)
  <2>. DEFINE k == req[p].key
              u == req[p].user
  <2>1. k \in Keys /\ u \in Users /\ req[p].ver # None
    BY <1>0, <1>4, Reading DEF UserLookup
  <2>2. CASE cache[k][u] # None /\ Snapshot(p, cache[k][u].ver) /\ Goto(p, "answer")
    <3>1. /\ cache[k][u].ver \in Versions /\ cache[k][u].left \in 1..TTL
          /\ SinceEntry(k, u) \in Ages
      BY <2>1, <2>2, EntryRead
    <3>2. /\ req'[p].user = u /\ req'[p].key = k /\ req'[p].ver = req[p].ver
          /\ req'[p].snap = cache[k][u].ver /\ req'[p].age = 0
          /\ \A q \in Requests \ {p} : req'[q] = req[q]
      BY <2>2, <3>1, SnapshotTaken
    <3>3. pc'[p] = "answer"
      BY <2>2 DEF GTypeOK, Goto
    <3>4. UNCHANGED <<current, since, cache>>
      BY <1>4 DEF UserLookup
    <3>5. SinceEntry(k, u) < TTL + Lag + 0
      BY <2>1, <2>2, <3>1, Numbers DEF GuardRest, EntriesExpire
    <3>6. Aging(p)'
      BY <2>1, <3>2, <3>3, <3>4, <3>5 DEF Aging, SinceSnapshot, SinceEntry
    <3>7. NotAhead(p)'
      BY <2>1, <2>2, <3>1, <3>2, <3>4, Numbers
      DEF NotAhead, CurrentOf, GuardRest, NothingIsAhead
    <3>. QED BY <2>2, <3>2, <3>4, <3>6, <3>7, OneRequest DEF GTypeOK, Goto
  <2>3. CASE Goto(p, "read") /\ UNCHANGED req
    <3>1. pc'[p] = "read"
      BY <2>3 DEF GTypeOK, Goto
    <3>2. Aging(p)' /\ NotAhead(p)'
      BY <2>1, <2>3, <3>1 DEF Aging, NotAhead, Holding
    <3>. QED BY <1>4, <2>3, <3>2, OneRequest DEF GTypeOK, Goto, UserLookup
  <2>. QED BY <1>4, <2>2, <2>3 DEF UserLookup
<1>5. CASE UserRead(p)
  <2>. DEFINE k == req[p].key
              u == req[p].user
  <2>1. k \in Keys /\ u \in Users /\ req[p].ver # None
    BY <1>0, <1>5, Reading DEF UserRead
  <2>2. current[k][u] \in Versions \cup {None}
    BY <2>1 DEF GTypeOK
  <2>3. /\ req'[p].user = u /\ req'[p].key = k /\ req'[p].ver = req[p].ver
        /\ req'[p].snap = current[k][u] /\ req'[p].age = 0
        /\ \A q \in Requests \ {p} : req'[q] = req[q]
    BY <1>5, <2>2, SnapshotTaken DEF UserRead
  <2>4. /\ pc'[p] = IF current[k][u] = None THEN "answer" ELSE "fill"
        /\ \A q \in Requests \ {p} : pc'[q] = pc[q]
        /\ UNCHANGED <<current, since, cache>>
    BY <1>5 DEF GTypeOK, UserRead, Goto
  <2>5. current[k][u] # None => since[k][u][current[k][u]] = 0
    BY <2>1, <2>2, Numbers DEF GuardRest, CurrentIsFresh, Superseded
  <2>6. Aging(p)'
    BY <2>1, <2>2, <2>3, <2>4, <2>5 DEF Aging, SinceSnapshot
  <2>7. NotAhead(p)'
    BY <2>2, <2>3, <2>4, Numbers DEF NotAhead, CurrentOf
  <2>. QED BY <2>3, <2>4, <2>6, <2>7, OneRequest
<1>6. CASE UserFill(p)
  <2>. DEFINE k == req[p].key
              u == req[p].user
              e == NewEntry(req[p].snap)
  <2>1. /\ k \in Keys /\ u \in Users /\ req[p].ver # None /\ req[p].snap # None
        /\ req[p].snap \in Versions /\ req[p].age \in 0..Lag /\ SinceSnapshot(p) \in Ages
    BY <1>0, <1>6, Reading DEF UserFill
  <2>2. /\ pc'[p] = "answer" /\ \A q \in Requests \ {p} : pc'[q] = pc[q]
        /\ UNCHANGED <<current, since, req>>
    BY <1>6 DEF GTypeOK, UserFill, Goto
  <2>3. SinceSnapshot(p) <= req[p].age
    BY <1>6 DEF UserFill, GuardRest, SnapshotsAge
  <2>4. SinceSnapshot(p) < TTL + Lag + req[p].age
    BY <2>1, <2>3, Numbers
  <2>5. Aging(p)'
    BY <2>1, <2>2, <2>4 DEF Aging, SinceSnapshot
  <2>6. current[k][u] # None => req[p].snap <= current[k][u]
    BY <1>6 DEF UserFill, Holding, GuardRest, NothingIsAhead, CurrentOf
  <2>7. NotAhead(p)'
    BY <2>1, <2>2, <2>6 DEF NotAhead, CurrentOf
  <2>8. e.ver = req[p].snap /\ e.left = TTL
    BY DEF NewEntry
  <2>9. since[k][u][req[p].snap] + TTL <= TTL + Lag
    BY <2>1, <2>3, Numbers DEF SinceSnapshot
  <2>10. ASSUME NEW j \in Keys, NEW w \in Users, cache'[j][w] # cache[j][w]
         PROVE  j = k /\ w = u /\ cache'[j][w] = e
    <3>. HIDE DEF e, k, u
    <3>1. cache' = [cache EXCEPT ![k][u] = e]
      BY <1>6, <2>10 DEF UserFill, e, k, u
    <3>. QED BY <2>1, <2>10, <3>1 DEF GTypeOK
  <2>11. \A j \in Keys, w \in Users : cache'[j][w] # None =>
           \/ cache'[j][w] = cache[j][w]
           \/ /\ SinceEntry(j, w)' + cache'[j][w].left <= TTL + Lag
              /\ current[j][w] # None => cache'[j][w].ver <= current[j][w]
    BY <2>2, <2>6, <2>8, <2>9, <2>10 DEF SinceEntry
  <2>. QED BY <2>2, <2>5, <2>7, <2>11, OneRequest
<1>7. CASE Validate(p) /\ ~Answer(p)
  <2>1. /\ Goto(p, "lookup")
        /\ req' = [req EXCEPT ![p].key = "permissions", ![p].snap = None, ![p].age = 0]
        /\ UNCHANGED <<current, since, cache>>
        /\ pc[p] = "answer"
    BY <1>7 DEF Validate, Accepts, Refuses, Guarding
  <2>2. pc'[p] = "lookup" /\ req'[p].user \in Users /\ req'[p].ver # None
    BY <1>0, <2>1 DEF GTypeOK, Goto, Request
  <2>3. Aging(p)' /\ NotAhead(p)'
    BY <2>2 DEF Aging, NotAhead, Holding
  <2>. QED BY <2>1, <2>3, OneRequest DEF GTypeOK, Goto
<1>. QED BY <1>1, <1>2, <1>3, <1>4, <1>5, <1>6, <1>7 DEF Step, Sign, Validate, Me

-----------------------------------------------------------------------------
(* The theorems.                                                           *)

\* Every state of Spec satisfies the inductive invariant: the life of an entry and
\* the age of what it holds never add up to more than TTL + Lag (cached-repository.ts).
THEOREM GuardInvariant == Spec => []GuardInv
<1>. DEFINE I == GTypeOK /\ GuardRest
<1>1. Init => I
  <2>. SUFFICES ASSUME Init PROVE I
    OBVIOUS
  <2>1. GTypeOK
    BY TypesInit
  <2>2. EntriesExpire /\ SnapshotsAge /\ CurrentIsFresh /\ SupersededInOrder
    BY Numbers DEF Init, EntriesExpire, SnapshotsAge, CurrentIsFresh, SupersededInOrder
  <2>3. NothingIsAhead
    BY DEF Init, NothingIsAhead, Holding
  <2>. QED BY <2>1, <2>2, <2>3 DEF GuardRest
<1>2. I /\ [Next]_vars => I'
  <2>. SUFFICES ASSUME I, [Next]_vars PROVE I'
    OBVIOUS
  <2>1. CASE \E p \in Requests : Login(p) \/ Present(p) \/ Step(p)
    <3>1. PICK p \in Requests : Login(p) \/ Present(p) \/ Step(p)
      BY <2>1
    <3>2. /\ pc[p] # "idle" => req[p].user \in Users /\ req[p].ver # None
          /\ pc[p] = "fill" => req[p].snap # None
      BY DEF GuardRest, SnapshotsAge
    <3>. QED BY <3>1, <3>2, TypesRequest, RestRequest
  <2>2. CASE \E u \in Users : Delete(u) \/ \E k \in Keys : Change(k, u) \/ Lose(k, u)
    BY <2>2, TypesDatabase, RestDatabase
  <2>3. CASE Tick
    BY <2>3, TypesTick, RestTick
  <2>4. CASE UNCHANGED vars
    <3>1. UNCHANGED <<current, since, cache, issued, pc, req>>
      BY <2>4 DEF vars
    <3>2. GTypeOK'
      BY <3>1 DEF GTypeOK
    <3>3. EntriesExpire' /\ SnapshotsAge'
      BY <3>1 DEF GuardRest, EntriesExpire, SinceEntry, SnapshotsAge, SinceSnapshot
    <3>4. CurrentIsFresh' /\ SupersededInOrder' /\ NothingIsAhead'
      BY <3>1 DEF GuardRest, CurrentIsFresh, Superseded, SupersededInOrder, NothingIsAhead,
                  Holding, CurrentOf
    <3>. QED BY <3>2, <3>3, <3>4 DEF GuardRest
  <2>. QED BY <2>1, <2>2, <2>3, <2>4 DEF Next
<1>3. I => GuardInv
  BY DEF GuardInv, GuardRest
<1>. QED BY <1>1, <1>2, <1>3, PTL DEF Spec

\* Whatever is answered from the cache or the database was current less than TTL + 2 Lag
\* ticks ago, for any life of an entry (users.repository.ts:57).
THEOREM AnswersRecent == Spec => []AnswersAreRecent
<1>1. GuardInv => AnswersAreRecent
  <2>. SUFFICES ASSUME GuardInv, NEW p \in Requests, pc[p] = "answer", req[p].snap # None
                PROVE  SinceSnapshot(p) < Horizon
    BY DEF AnswersAreRecent
  <2>1. req[p].user \in Users /\ SinceSnapshot(p) < TTL + Lag + req[p].age
    BY DEF GuardInv, SnapshotsAge
  <2>2. req[p].age \in 0..Lag /\ SinceSnapshot(p) \in Ages
    BY <2>1, Reading DEF GuardInv
  <2>. QED BY <2>1, <2>2, Numbers
<1>. QED BY <1>1, GuardInvariant, PTL

\* A token of the current version is refused only within TTL + 2 Lag ticks after the
\* version before it was superseded (access-token.strategy.ts).
THEOREM RefusedBriefly == Spec => []CurrentTokensRefusedBriefly
<1>1. GuardInv => CurrentTokensRefusedBriefly
  <2>. SUFFICES ASSUME GuardInv, NEW p \in Requests, Refuses(p), req[p].ver = CurrentOf(p)
                PROVE  /\ req[p].ver > 1
                       /\ since["unique"][req[p].user][req[p].ver - 1] < Horizon
    BY DEF CurrentTokensRefusedBriefly
  <2>1. /\ pc[p] = "answer" /\ req[p].key = "unique" /\ req[p].snap # req[p].ver
        /\ req[p].user \in Users /\ req[p].ver # None
    BY DEF Refuses, Guarding, GuardInv, SnapshotsAge
  <2>2. req[p].ver \in Versions /\ req[p].snap \in Versions \cup {None}
    BY <2>1, Reading DEF GuardInv
  <2>3. req[p].snap # None /\ req[p].snap <= req[p].ver
    BY <2>1 DEF Holding, GuardInv, NothingIsAhead
  <2>4. /\ req[p].snap \in Versions /\ req[p].ver - 1 \in Versions
        /\ req[p].snap <= req[p].ver - 1 /\ req[p].ver > 1
    BY <2>1, <2>2, <2>3, VersionAssumption DEF Versions
  <2>5. since["unique"][req[p].user][req[p].ver - 1] <= SinceSnapshot(p)
    BY <2>1, <2>4 DEF GuardInv, SupersededInOrder, SinceSnapshot, Keys
  <2>6. SinceSnapshot(p) < Horizon
    <3>1. SinceSnapshot(p) < TTL + Lag + req[p].age
      BY <2>1, <2>3 DEF GuardInv, SnapshotsAge
    <3>2. req[p].age \in 0..Lag /\ SinceSnapshot(p) \in Ages
      BY <2>1, <2>3, Reading DEF GuardInv
    <3>. QED BY <3>1, <3>2, Numbers
  <2>7. since["unique"][req[p].user][req[p].ver - 1] \in Nat /\ SinceSnapshot(p) \in Nat
    BY <2>1, <2>3, <2>4, Reading, Numbers DEF GuardInv, GTypeOK, Keys
  <2>. QED BY <2>4, <2>5, <2>6, <2>7, Numbers
<1>. QED BY <1>1, GuardInvariant, PTL
=============================================================================
