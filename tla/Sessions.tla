------------------------------ MODULE Sessions ------------------------------
(***************************************************************************)
(* Accounts and refresh tokens of the API, at the granularity of its       *)
(* database statements: login, refresh with rotation and replay detection, *)
(* logout, password change, and the administrator's PATCH and DELETE of a  *)
(* user, served concurrently by several replicas of one NestJS process     *)
(* over one PostgreSQL database at READ COMMITTED.                         *)
(*                                                                         *)
(* Every `await` on the database or on Redis is an action.  A row that an  *)
(* open transaction has written is a draft: only its writer sees it, and   *)
(* another writer of that row waits until the draft is gone.  An UPDATE    *)
(* that had to wait evaluates its WHERE again on the row it then finds.    *)
(***************************************************************************)
EXTENDS Naturals, FiniteSets

CONSTANTS
    Users,       \* accounts, all created before the first step
    Tokens,      \* identities of refresh-token rows; a family is named by its first token
    Requests,    \* slots for requests being served, over all replicas
    Passwords,
    None,        \* no row, no draft, no parent, a field the request leaves out
    Grace,       \* AUTH_REFRESH_GRACE_PERIOD_SECONDS
    Lifetime,    \* jwt.refresh.ttlDays
    MaxTime,     \* bound: the clock stops here
    MaxAccountRequests \* bound: requests received for /users/:id and change-password

ASSUME DurationsAssumption ==
    Grace \in Nat /\ Lifetime \in Nat /\ MaxTime \in Nat /\ MaxAccountRequests \in Nat
ASSUME NoneAssumption ==
    /\ None \notin Users /\ None \notin Tokens /\ None \notin Passwords
    /\ None \notin BOOLEAN /\ None \notin Nat

VARIABLES
    users,       \* committed rows of "users"
    tokens,      \* committed rows of "refresh_tokens"; None before the insert commits
    draftUsers,  \* the uncommitted version of a row and the request that wrote it
    draftTokens,
    cached,      \* Redis, key user:id:<u>: the hashed password in the snapshot
    pc,          \* the statement a request executes next
    req,         \* what the request was given and what it has read
    now,         \* the clock of the replicas
    served,      \* requests counted by MaxAccountRequests
    bumps        \* auxiliary: credential changes committed per user

rows == <<users, tokens>>
drafts == <<draftUsers, draftTokens>>
bounds == <<now, served>>
vars == <<users, tokens, draftUsers, draftTokens, cached, pc, req, now, served, bumps>>

Reads == {"login_read", "login_create", "logout", "user_lookup", "user_read",
          "user_fill"}                                    \* outside a transaction
TxSteps == {"refresh_claim", "refresh_owner", "refresh_create", "refresh_status",
            "replay_revoke", "replay_bump", "change_update", "change_scan",
            "change_revoke", "patch_write", "patch_reload", "not_found",
            "remove_check", "remove_write", "rollback", "commit"}
Labels == {"idle"} \cup Reads \cup TxSteps
Ops == {"none", "login", "refresh", "logout", "get", "change", "patch", "remove"}

\* deleted stands for deletedAt # null; pw for hashed_password.
UserRow == [pw : Passwords, ver : Nat, active : BOOLEAN, deleted : BOOLEAN]
\* parent is auxiliary: the token whose rotation inserted this row.
TokenRow == [user : Users, family : Tokens, parent : Tokens \cup {None},
             revoked : BOOLEAN, usedAt : Nat \cup {None}, expiresAt : Nat]
Draft(rowSet) == [by : Requests, row : rowSet]
ASSUME NoRowAssumption ==
    None \notin TokenRow /\ None \notin Draft(TokenRow) /\ None \notin Draft(UserRow)

\* at is the `now` the request captured, ver and hash what it read of the user,
\* scan the rows an UPDATE has yet to reach; dead is auxiliary: the request
\* arrived when its refresh token was spent or its owner deleted.
Request == [op : Ops, user : Users \cup {None}, token : Tokens \cup {None},
            cur : Passwords \cup {None}, new : Passwords \cup {None},
            flag : BOOLEAN \cup {None}, at : Nat, ver : Nat,
            hash : Passwords \cup {None}, scan : SUBSET Tokens, dead : BOOLEAN]
Blank == [op |-> "none", user |-> None, token |-> None, cur |-> None, new |-> None,
          flag |-> None, at |-> 0, ver |-> 0, hash |-> None, scan |-> {}, dead |-> FALSE]

TypeOK ==
    /\ users \in [Users -> UserRow]
    /\ tokens \in [Tokens -> TokenRow \cup {None}]
    /\ draftUsers \in [Users -> Draft(UserRow) \cup {None}]
    /\ draftTokens \in [Tokens -> Draft(TokenRow) \cup {None}]
    /\ cached \in [Users -> Passwords \cup {None}]
    /\ pc \in [Requests -> Labels]
    /\ req \in [Requests -> Request]
    /\ now \in Nat /\ served \in Nat
    /\ bumps \in [Users -> Nat]

Init ==
    /\ \E pw \in [Users -> Passwords] :
           users = [u \in Users |-> [pw |-> pw[u], ver |-> 1, active |-> TRUE, deleted |-> FALSE]]
    /\ tokens = [t \in Tokens |-> None]
    /\ draftUsers = [u \in Users |-> None]
    /\ draftTokens = [t \in Tokens |-> None]
    /\ cached = [u \in Users |-> None]
    /\ pc = [p \in Requests |-> "idle"]
    /\ req = [p \in Requests |-> Blank]
    /\ now = 0 /\ served = 0
    /\ bumps = [u \in Users |-> 0]

-----------------------------------------------------------------------------
(* Rows and requests.                                                      *)

Issued(t) == tokens[t] # None
\* Mutant of Fresh: the identity may be one that an open transaction inserts.
FreshCommitted == {t \in Tokens : tokens[t] = None}
Fresh == {t \in Tokens : tokens[t] = None /\ draftTokens[t] = None}
Live(t) == Issued(t) /\ ~tokens[t].revoked
TokensOf(u) == {t \in Tokens : Issued(t) /\ tokens[t].user = u}
FamilyOf(t) == {x \in Tokens : Issued(x) /\ tokens[x].family = tokens[t].family}
Alive(row) == row.active /\ ~row.deleted

\* Mutants of NewRow: a rotation that names the family after the spent token, a
\* login that forgets the family.
NewRowOfParent(u, family, parent) ==
    [user |-> u, family |-> IF parent = None THEN family ELSE parent, parent |-> parent,
     revoked |-> FALSE, usedAt |-> None, expiresAt |-> now + Lifetime]
NewRowWithoutFamily(u, family, parent) ==
    [user |-> u, family |-> IF parent = None THEN None ELSE family, parent |-> parent,
     revoked |-> FALSE, usedAt |-> None, expiresAt |-> now + Lifetime]
\* data of the insert in persistRefreshToken and in login
NewRow(u, family, parent) ==
    [user |-> u, family |-> family, parent |-> parent, revoked |-> FALSE,
     usedAt |-> None, expiresAt |-> now + Lifetime]
\* data: { is_revoked: true, used_at: at }
Spent(row, at) == [row EXCEPT !.revoked = TRUE, !.usedAt = at]

\* data of the updates of a user: token_version: { increment: 1 } and what goes with it
Bumped(row) == [row EXCEPT !.ver = @ + 1]
\* Mutant of WithPassword: the version is left alone.
WithPasswordOnly(row, pw) == [row EXCEPT !.pw = pw]
WithPassword(row, pw) == [Bumped(row) EXCEPT !.pw = pw]
Removed(row) == [Bumped(row) EXCEPT !.deleted = TRUE, !.active = FALSE]

Goto(p, label) == pc' = [pc EXCEPT ![p] = label]
Answer(p) == Goto(p, "idle") /\ req' = [req EXCEPT ![p] = Blank]

\* The open transaction of p writes a row nobody else is writing.
WriteUser(p, u, row) ==
    /\ draftUsers[u] = None
    /\ draftUsers' = [draftUsers EXCEPT ![u] = [by |-> p, row |-> row]]
    /\ UNCHANGED draftTokens
WriteToken(p, t, row) ==
    /\ draftTokens[t] = None
    /\ draftTokens' = [draftTokens EXCEPT ![t] = [by |-> p, row |-> row]]
    /\ UNCHANGED draftUsers

Mine(p, draft) == draft # None /\ draft.by = p
\* Mutant of Discard: the drafts of tokens stay behind.
DiscardUsersOnly(p) ==
    /\ draftUsers' = [u \in Users |-> IF Mine(p, draftUsers[u]) THEN None ELSE draftUsers[u]]
    /\ UNCHANGED draftTokens
Discard(p) ==
    /\ draftUsers' = [u \in Users |-> IF Mine(p, draftUsers[u]) THEN None ELSE draftUsers[u]]
    /\ draftTokens' = [t \in Tokens |-> IF Mine(p, draftTokens[t]) THEN None ELSE draftTokens[t]]

-----------------------------------------------------------------------------
(* Arrival of requests.  The identity of the new row is random, so an      *)
(* issuing request is received only while the pool has an identity for it. *)

Begin(p, label, r) ==
    /\ pc[p] = "idle"
    /\ Goto(p, label)
    /\ req' = [req EXCEPT ![p] = r]
    /\ UNCHANGED <<rows, drafts, cached, now, bumps>>

Issuing(p) == req[p].op = "login" \/ (req[p].op = "refresh" /\ req[p].token # None /\ Live(req[p].token))
Room == Cardinality({p \in Requests : Issuing(p)}) < Cardinality({t \in Tokens : tokens[t] = None})

ReceiveLogin(p) == \E u \in Users, pw \in Passwords :
    /\ Room
    /\ Begin(p, "login_read", [Blank EXCEPT !.op = "login", !.user = u, !.cur = pw])
    /\ UNCHANGED served

\* None: a cookie whose hash is in no row.
ReceiveRefresh(p) == \E t \in {x \in Tokens : Issued(x)} \cup {None} :
    /\ t # None /\ Live(t) => Room
    /\ Begin(p, "refresh_claim",
             [Blank EXCEPT !.op = "refresh", !.token = t, !.at = now,
                           !.dead = t # None /\ (tokens[t].revoked \/ users[tokens[t].user].deleted)])
    /\ UNCHANGED served

ReceiveLogout(p) == \E t \in {x \in Tokens : Issued(x)} :
    /\ Begin(p, "logout", [Blank EXCEPT !.op = "logout", !.token = t, !.at = now])
    /\ UNCHANGED served

CountRequest == served < MaxAccountRequests /\ served' = served + 1

ReceiveGet(p) == \E u \in Users :
    /\ CountRequest
    /\ Begin(p, "user_lookup", [Blank EXCEPT !.op = "get", !.user = u])

\* The caller holds an access token, so a session of u was opened.
ReceiveChangePassword(p) ==
    \E u \in {x \in Users : TokensOf(x) # {}}, cur, new \in Passwords :
        /\ cur # new
        /\ CountRequest
        /\ Begin(p, "user_lookup",
                 [Blank EXCEPT !.op = "change", !.user = u, !.cur = cur, !.new = new])

ReceivePatch(p) ==
    \E u \in Users, pw \in Passwords \cup {None}, flag \in BOOLEAN \cup {None} :
        /\ CountRequest
        /\ Begin(p, "patch_write",
                 [Blank EXCEPT !.op = "patch", !.user = u, !.new = pw, !.flag = flag])

ReceiveRemove(p) == \E u \in Users :
    /\ CountRequest
    /\ Begin(p, "remove_check", [Blank EXCEPT !.op = "remove", !.user = u])

-----------------------------------------------------------------------------
(* login: two autocommitted statements.                                    *)

LoginRead(p) ==
    LET row == users[req[p].user] IN
    /\ pc[p] = "login_read"
    /\ \/ /\ row.pw = req[p].cur /\ Alive(row)
          /\ Goto(p, "login_create")
          /\ req' = [req EXCEPT ![p].ver = row.ver]
       \/ /\ ~(row.pw = req[p].cur /\ Alive(row))
          /\ Answer(p)
    /\ UNCHANGED <<rows, drafts, cached, bounds, bumps>>

LoginCreate(p) ==
    /\ pc[p] = "login_create"
    /\ \E t \in Fresh : tokens' = [tokens EXCEPT ![t] = NewRow(req[p].user, t, None)]
    /\ Answer(p)
    /\ UNCHANGED <<users, drafts, cached, bounds, bumps>>

-----------------------------------------------------------------------------
(* refresh: one transaction.                                               *)

\* Mutant of Claimable: a WHERE without used_at and is_revoked.
ClaimableUnchecked(t, at) == t # None /\ Issued(t) /\ tokens[t].expiresAt > at
\* WHERE token_hash = h AND used_at IS NULL AND NOT is_revoked AND expires_at > at
Claimable(t, at) ==
    /\ t # None
    /\ Issued(t)
    /\ tokens[t].usedAt = None
    /\ ~tokens[t].revoked
    /\ tokens[t].expiresAt > at

\* Mutant of RefreshClaim: a row another transaction has locked counts as not matched.
RefreshClaimSkipLocked(p) ==
    LET t == req[p].token  at == req[p].at IN
    /\ pc[p] = "refresh_claim"
    /\ \/ Claimable(t, at) /\ WriteToken(p, t, Spent(tokens[t], at)) /\ Goto(p, "refresh_owner")
       \/ /\ Claimable(t, at) => draftTokens[t] # None
          /\ Goto(p, "refresh_status") /\ UNCHANGED drafts
    /\ UNCHANGED <<rows, cached, req, bounds, bumps>>
RefreshClaim(p) ==
    LET t == req[p].token  at == req[p].at IN
    /\ pc[p] = "refresh_claim"
    /\ \/ /\ Claimable(t, at)
          /\ WriteToken(p, t, Spent(tokens[t], at))
          /\ Goto(p, "refresh_owner")
       \/ /\ ~Claimable(t, at)
          /\ Goto(p, "refresh_status")
          /\ UNCHANGED drafts
    /\ UNCHANGED <<rows, cached, req, bounds, bumps>>

RefreshOwner(p) ==
    LET owner == users[tokens[req[p].token].user] IN
    /\ pc[p] = "refresh_owner"
    /\ \/ /\ Alive(owner)
          /\ Goto(p, "refresh_create")
          /\ req' = [req EXCEPT ![p].ver = owner.ver]
       \/ /\ ~Alive(owner)
          /\ Goto(p, "rollback")
          /\ UNCHANGED req
    /\ UNCHANGED <<rows, drafts, cached, bounds, bumps>>

RefreshCreate(p) ==
    LET used == req[p].token IN
    /\ pc[p] = "refresh_create"
    /\ \E t \in Fresh :
           WriteToken(p, t, NewRow(tokens[used].user, tokens[used].family, used))
    /\ Goto(p, "commit")
    /\ UNCHANGED <<rows, cached, req, bounds, bumps>>

\* A spent token presented again once the grace period is over.
IsReplay(t, at) ==
    /\ t # None
    /\ Issued(t)
    /\ tokens[t].expiresAt > at
    /\ tokens[t].usedAt # None \/ tokens[t].revoked
    /\ tokens[t].usedAt # None => at >= tokens[t].usedAt + Grace

\* Mutant of RefreshStatus: a refresh that missed its claim tries again.
RefreshStatusRetry(p) ==
    /\ pc[p] = "refresh_status"
    /\ Goto(p, "refresh_claim")
    /\ UNCHANGED <<rows, drafts, cached, req, bounds, bumps>>
\* The transactions that answer here have written nothing: their rollback is unseen.
RefreshStatus(p) ==
    LET t == req[p].token IN
    /\ pc[p] = "refresh_status"
    /\ \/ /\ IsReplay(t, req[p].at)
          /\ Goto(p, "replay_revoke")
          /\ req' = [req EXCEPT ![p] = [@ EXCEPT !.scan = FamilyOf(t), !.at = now]]
       \/ /\ ~IsReplay(t, req[p].at)
          /\ Answer(p)
    /\ UNCHANGED <<rows, drafts, cached, bounds, bumps>>

\* One row of the UPDATE behind revokeFamily and revokeAllForUser; it reaches the
\* rows its snapshot saw, waiting for those other transactions have written.
RevokeRow(p, t, done) ==
    /\ WriteToken(p, t, Spent(tokens[t], req[p].at))
    /\ req' = [req EXCEPT ![p].scan = @ \ {t}]
    /\ \/ req[p].scan = {t} /\ Goto(p, done)
       \/ req[p].scan # {t} /\ UNCHANGED pc
    /\ UNCHANGED <<rows, cached, bounds, bumps>>

ReplayRevoke(p) == pc[p] = "replay_revoke" /\ \E t \in req[p].scan : RevokeRow(p, t, "replay_bump")

\* Mutant of ReplayBump: the exception is raised after the COMMIT.
ReplayBumpCommitted(p) ==
    LET u == tokens[req[p].token].user IN
    /\ pc[p] = "replay_bump"
    /\ WriteUser(p, u, Bumped(users[u]))
    /\ Goto(p, "commit")
    /\ UNCHANGED <<rows, cached, req, bounds, bumps>>
\* The exception that follows the update leaves the transaction: ROLLBACK.
ReplayBump(p) ==
    LET u == tokens[req[p].token].user IN
    /\ pc[p] = "replay_bump"
    /\ WriteUser(p, u, Bumped(users[u]))
    /\ Goto(p, "rollback")
    /\ UNCHANGED <<rows, cached, req, bounds, bumps>>

-----------------------------------------------------------------------------
(* logout: one autocommitted UPDATE, whatever the state of the row.        *)

\* Mutant of Logout: it does not wait for a transaction that has written the row.
LogoutUnlocked(p) ==
    /\ pc[p] = "logout"
    /\ tokens' = [tokens EXCEPT ![req[p].token] = Spent(@, req[p].at)]
    /\ Answer(p)
    /\ UNCHANGED <<users, drafts, cached, bounds, bumps>>
Logout(p) ==
    LET t == req[p].token IN
    /\ pc[p] = "logout"
    /\ draftTokens[t] = None
    /\ tokens' = [tokens EXCEPT ![t] = Spent(@, req[p].at)]
    /\ Answer(p)
    /\ UNCHANGED <<users, drafts, cached, bounds, bumps>>

-----------------------------------------------------------------------------
(* findByIdWithRoles through Redis, for GET /users/:id and changePassword. *)

\* What the caller does with the user it got.
Proceed(p, hash) ==
    \/ /\ req[p].op = "change" /\ req[p].cur = hash
       /\ Goto(p, "change_update")
       /\ UNCHANGED req
    \/ /\ ~(req[p].op = "change" /\ req[p].cur = hash)
       /\ Answer(p)

UserLookup(p) ==
    LET hit == cached[req[p].user] IN
    /\ pc[p] = "user_lookup"
    /\ \/ hit # None /\ Proceed(p, hit)
       \/ hit = None /\ Goto(p, "user_read") /\ UNCHANGED req
    /\ UNCHANGED <<rows, drafts, cached, bounds, bumps>>

UserRead(p) ==
    LET row == users[req[p].user] IN
    /\ pc[p] = "user_read"
    /\ \/ /\ Alive(row)
          /\ Goto(p, "user_fill")
          /\ req' = [req EXCEPT ![p].hash = row.pw]
       \/ ~Alive(row) /\ Answer(p)
    /\ UNCHANGED <<rows, drafts, cached, bounds, bumps>>

\* A Redis error is logged and the value used all the same.
UserFill(p) ==
    /\ pc[p] = "user_fill"
    /\ \/ cached' = [cached EXCEPT ![req[p].user] = req[p].hash]
       \/ UNCHANGED cached
    /\ Proceed(p, req[p].hash)
    /\ UNCHANGED <<rows, drafts, bounds, bumps>>

\* TTL, allkeys-lru, or a failing read: the next lookup misses.
Evict(u) ==
    /\ cached' = [cached EXCEPT ![u] = None]
    /\ UNCHANGED <<rows, drafts, pc, req, bounds, bumps>>

-----------------------------------------------------------------------------
(* changePassword: the transaction.                                        *)

ChangeUpdate(p) ==
    LET u == req[p].user IN
    /\ pc[p] = "change_update"
    /\ WriteUser(p, u, WithPassword(users[u], req[p].new))
    /\ Goto(p, "change_scan")
    /\ UNCHANGED <<rows, cached, req, bounds, bumps>>

ChangeScan(p) ==
    /\ pc[p] = "change_scan"
    /\ req' = [req EXCEPT ![p] = [@ EXCEPT !.scan = TokensOf(req[p].user), !.at = now]]
    /\ Goto(p, "change_revoke")
    /\ UNCHANGED <<rows, drafts, cached, bounds, bumps>>

ChangeRevoke(p) == pc[p] = "change_revoke" /\ \E t \in req[p].scan : RevokeRow(p, t, "commit")

-----------------------------------------------------------------------------
(* PATCH /users/:id and DELETE /users/:id.                                 *)

\* Mutant of Patched: reactivating an account restores it.
PatchedReviving(row, r) ==
    LET changed == IF r.new = None THEN row ELSE WithPassword(row, r.new)
    IN  IF r.flag = None THEN changed
        ELSE [changed EXCEPT !.active = r.flag, !.deleted = @ /\ ~r.flag]
Patched(row, r) ==
    LET changed == IF r.new = None THEN row ELSE WithPassword(row, r.new)
    IN  IF r.flag = None THEN changed ELSE [changed EXCEPT !.active = r.flag]

PatchWrite(p) ==
    LET u == req[p].user IN
    /\ pc[p] = "patch_write"
    /\ WriteUser(p, u, Patched(users[u], req[p]))
    /\ Goto(p, "patch_reload")
    /\ UNCHANGED <<rows, cached, req, bounds, bumps>>

\* Mutant of PatchReload: the row is returned as it was written.
PatchReloadUnchecked(p) ==
    /\ pc[p] = "patch_reload"
    /\ Goto(p, "commit")
    /\ UNCHANGED <<rows, drafts, cached, req, bounds, bumps>>
\* findUserOrThrow inside the transaction sees the draft.
PatchReload(p) ==
    LET row == draftUsers[req[p].user].row IN
    /\ pc[p] = "patch_reload"
    /\ Goto(p, IF Alive(row) THEN "commit" ELSE "not_found")
    /\ UNCHANGED <<rows, drafts, cached, req, bounds, bumps>>

RemoveCheck(p) ==
    /\ pc[p] = "remove_check"
    /\ \/ Alive(users[req[p].user]) /\ Goto(p, "remove_write") /\ UNCHANGED req
       \/ ~Alive(users[req[p].user]) /\ Answer(p)
    /\ UNCHANGED <<rows, drafts, cached, bounds, bumps>>

RemoveWrite(p) ==
    LET u == req[p].user IN
    /\ pc[p] = "remove_write"
    /\ WriteUser(p, u, Removed(users[u]))
    /\ Goto(p, "commit")
    /\ UNCHANGED <<rows, cached, req, bounds, bumps>>

-----------------------------------------------------------------------------
(* Ends of transactions and requests.                                      *)

ChangesCredentials(r) == r.op \in {"change", "remove"} \/ (r.op = "patch" /\ r.new # None)

Commit(p) ==
    /\ pc[p] = "commit"
    /\ users' = [u \in Users |-> IF Mine(p, draftUsers[u]) THEN draftUsers[u].row ELSE users[u]]
    /\ tokens' = [t \in Tokens |-> IF Mine(p, draftTokens[t]) THEN draftTokens[t].row ELSE tokens[t]]
    /\ bumps' = [u \in Users |-> IF u = req[p].user /\ ChangesCredentials(req[p])
                                 THEN bumps[u] + 1 ELSE bumps[u]]
    /\ Discard(p)
    /\ Answer(p)
    /\ UNCHANGED <<cached, bounds>>

Rollback(p) ==
    /\ pc[p] \in {"rollback", "not_found"}
    /\ Discard(p)
    /\ Answer(p)
    /\ UNCHANGED <<rows, cached, bounds, bumps>>

\* The replica dies, the connection is lost, PostgreSQL picks a deadlock victim
\* or Prisma closes an interactive transaction after 5 seconds.
Fail(p) ==
    /\ pc[p] # "idle"
    /\ Discard(p)
    /\ Answer(p)
    /\ UNCHANGED <<rows, cached, bounds, bumps>>

Tick ==
    /\ now < MaxTime
    /\ now' = now + 1
    /\ UNCHANGED <<rows, drafts, cached, pc, req, served, bumps>>

Receive(p) ==
    \/ ReceiveLogin(p) \/ ReceiveRefresh(p) \/ ReceiveLogout(p) \/ ReceiveGet(p)
    \/ ReceiveChangePassword(p) \/ ReceivePatch(p) \/ ReceiveRemove(p)

Step(p) ==
    \/ LoginRead(p) \/ LoginCreate(p)
    \/ RefreshClaim(p) \/ RefreshOwner(p) \/ RefreshCreate(p)
    \/ RefreshStatus(p) \/ ReplayRevoke(p) \/ ReplayBump(p)
    \/ Logout(p)
    \/ UserLookup(p) \/ UserRead(p) \/ UserFill(p)
    \/ ChangeUpdate(p) \/ ChangeScan(p) \/ ChangeRevoke(p)
    \/ PatchWrite(p) \/ PatchReload(p) \/ RemoveCheck(p) \/ RemoveWrite(p)
    \/ Commit(p) \/ Rollback(p)

Next ==
    \/ \E p \in Requests : Receive(p) \/ Step(p) \/ Fail(p)
    \/ \E u \in Users : Evict(u)
    \/ Tick

Spec == Init /\ [][Next]_vars

-----------------------------------------------------------------------------
(* Handlers run as long as their replica does; PostgreSQL serves the waiters *)
(* of a row lock in turn (strong fairness); a transaction that goes on       *)
(* waiting is ended by the deadlock detector or by Prisma's timeout.         *)

InTransaction(p) == pc[p] \in TxSteps
FairSpec ==
    /\ Spec
    /\ \A p \in Requests : SF_vars(Step(p))
    /\ \A p \in Requests : WF_vars(InTransaction(p) /\ ~ENABLED Step(p) /\ Fail(p))
=============================================================================
