----------------------- MODULE AccessGuardProperties -----------------------
(***************************************************************************)
(* What a cache without invalidation still promises: staleness is bounded  *)
(* by the life of an entry and the delays of the readers, in both          *)
(* directions.                                                             *)
(***************************************************************************)
EXTENDS AccessGuard

SinceSnapshot(p) == since[req[p].key][req[p].user][req[p].snap]
SinceEntry(k, u) == since[k][u][cache[k][u].ver]
CurrentOf(p) == current[req[p].key][req[p].user]

(***************************************************************************)
(* The inductive invariant.  The age of a superseded version and the       *)
(* remaining life of its entry never add up to more than TTL + Lag,        *)
(* because a reader writes what it found at most Lag ticks ago; what a     *)
(* request holds is at most its own age older than that.  Concerns         *)
(* CachedRepository.getOrSet against every concurrent write.               *)
(***************************************************************************)
EntriesExpire == \A k \in Keys, u \in Users :
    cache[k][u] # None => SinceEntry(k, u) + cache[k][u].left <= TTL + Lag

SnapshotsAge == \A p \in Requests :
    /\ pc[p] # "idle" => req[p].user \in Users /\ req[p].ver # None
    /\ pc[p] = "fill" => req[p].snap # None /\ SinceSnapshot(p) <= req[p].age
    /\ pc[p] = "answer" /\ req[p].snap # None => SinceSnapshot(p) < TTL + Lag + req[p].age

CurrentIsFresh == \A k \in Keys, u \in Users, v \in Versions :
    ~Superseded(k, u, v) => since[k][u][v] = 0

\* Versions are superseded in their order, and nobody knows of a later one.
SupersededInOrder == \A k \in Keys, u \in Users : \A v, w \in Versions :
    v <= w => since[k][u][w] <= since[k][u][v]

NothingIsAhead ==
    /\ \A k \in Keys, u \in Users :
         cache[k][u] # None /\ current[k][u] # None => cache[k][u].ver <= current[k][u]
    /\ \A p \in Requests :
         Holding(p) /\ CurrentOf(p) # None => req[p].snap # None /\ req[p].snap <= CurrentOf(p)

GuardInv ==
    /\ GTypeOK /\ EntriesExpire /\ SnapshotsAge
    /\ CurrentIsFresh /\ SupersededInOrder /\ NothingIsAhead

(***************************************************************************)
(* What a request is answered from, be it the account the guard compares   *)
(* or the permissions /me shows, was in the database less than Horizon     *)
(* ticks ago.  In particular an access token whose version was superseded, *)
(* or whose account was deleted, is accepted no longer than that.          *)
(***************************************************************************)
AnswersAreRecent == \A p \in Requests :
    pc[p] = "answer" /\ req[p].snap # None => SinceSnapshot(p) < Horizon

(***************************************************************************)
(* The other direction: a token that carries the current version is        *)
(* refused only within Horizon ticks after the change that made the        *)
(* version current.  A user who logs in after a password change is let in  *)
(* again without anybody evicting the cached account.                      *)
(***************************************************************************)
CurrentTokensRefusedBriefly == \A p \in Requests :
    Refuses(p) /\ req[p].ver = CurrentOf(p) =>
        /\ req[p].ver > 1
        /\ since["unique"][req[p].user][req[p].ver - 1] < Horizon

(***************************************************************************)
(* Once changes have stopped, every entry ends up agreeing with the        *)
(* database, however often the entry is read: expiry is not extended by    *)
(* hits, and no reader holds an old snapshot for ever.                     *)
(***************************************************************************)
CacheConverges == \A k \in Keys, u \in Users :
    <>[](cache[k][u] # None => cache[k][u].ver = current[k][u])
=============================================================================
