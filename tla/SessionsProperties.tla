------------------------- MODULE SessionsProperties -------------------------
(***************************************************************************)
(* What the accounts and refresh tokens of Sessions must satisfy, what the *)
(* repository says of them and the code does not do, and the inductive     *)
(* invariant behind the theorems about Sessions.                           *)
(***************************************************************************)
EXTENDS Sessions

-----------------------------------------------------------------------------
(* Safety.                                                                 *)

\* Every rotated token was inserted by a refresh that spent its parent, in the
\* parent's family and for the parent's owner, and a committed row is revoked
\* exactly when it carries a used_at (auth.service.ts:266-302).
RotationChain ==
    \A t \in Tokens : Issued(t) =>
        /\ tokens[t].revoked <=> tokens[t].usedAt # None
        /\ tokens[t].parent = None => tokens[t].family = t
        /\ tokens[t].parent # None =>
              LET used == tokens[t].parent IN
              /\ Issued(used)
              /\ tokens[used].revoked
              /\ tokens[used].family = tokens[t].family
              /\ tokens[used].user = tokens[t].user

\* However many requests present the same refresh token at once, on whatever
\* replicas, at most one successor of it is ever committed: the claim is one
\* conditional UPDATE, decided on the row it finds after waiting.
RotatedOnce ==
    \A x, y \in Tokens :
        /\ Issued(x) /\ Issued(y)
        /\ tokens[x].parent # None /\ tokens[x].parent = tokens[y].parent
        => x = y

\* A family never has two usable tokens, so a stolen token and the one of its
\* owner cannot both go on being rotated.
OneLivePerFamily ==
    \A x, y \in Tokens : Live(x) /\ Live(y) /\ tokens[x].family = tokens[y].family => x = y

\* A refresh that arrives after its token was spent or revoked, by a rotation, a
\* logout or a password change, or after its owner was deleted, never gets as far
\* as a new token pair.
DeadTokensStayDead ==
    \A p \in Requests :
        pc[p] = "refresh_create" \/ (pc[p] = "commit" /\ req[p].op = "refresh") => ~req[p].dead

\* When the claim of a refresh changed no row, the row it then reads explains why:
\* it is missing, expired or spent, so the last throw (auth.service.ts:339) is
\* never reached although the row is read by a later statement than the claim.
MissedClaimIsExplained ==
    \A p \in Requests : pc[p] = "refresh_status" => ~Claimable(req[p].token, req[p].at)

\* PATCH and DELETE, racing in any order, never leave a committed account
\* deactivated but not deleted, or active and deleted: the reload that ends a PATCH
\* rolls such a row back (users.service.ts:206, prisma-users.repository.ts:97-102).
ActiveIffNotDeleted == \A u \in Users : users[u].active <=> ~users[u].deleted

\* token_version counts the committed credential changes, none lost to a concurrent
\* one.  Replays add nothing: the increment they make is rolled back with the
\* exception that reports them (auth.service.ts:328-336).
VersionCountsChanges == \A u \in Users : users[u].ver = 1 + bumps[u]

-----------------------------------------------------------------------------
(* The inductive strengthening the proofs use; TLC checks it as well.      *)

\* Where a request of each kind can be, and what it carries there.
OnPath(op, label) ==
    \/ op = "none" /\ label = "idle"
    \/ op = "login" /\ label \in {"login_read", "login_create"}
    \/ op = "refresh" /\ label \in {"refresh_claim", "refresh_owner", "refresh_create",
                                    "refresh_status", "replay_revoke", "replay_bump",
                                    "rollback", "commit"}
    \/ op = "logout" /\ label = "logout"
    \/ op = "get" /\ label \in {"user_lookup", "user_read", "user_fill"}
    \/ op = "change" /\ label \in {"user_lookup", "user_read", "user_fill", "change_update",
                                   "change_scan", "change_revoke", "commit"}
    \/ op = "patch" /\ label \in {"patch_write", "patch_reload", "not_found", "commit"}
    \/ op = "remove" /\ label \in {"remove_check", "remove_write", "commit"}

WellFormed(r, label) ==
    /\ OnPath(r.op, label)
    /\ r.op \notin {"none", "refresh", "logout"} => r.user \in Users
    /\ r.op = "change" => r.new \in Passwords
    /\ r.token # None => Issued(r.token)
    /\ label \in {"logout", "refresh_owner", "refresh_create", "replay_revoke", "replay_bump"}
          => r.token # None
    /\ \A t \in r.scan : Issued(t)

RequestShape == \A p \in Requests : WellFormed(req[p], pc[p])

\* p has claimed its refresh token and not yet committed.
Spending(p) ==
    pc[p] \in {"refresh_owner", "refresh_create"} \/ (pc[p] = "commit" /\ req[p].op = "refresh")

\* Only a transaction under way has drafts of tokens.
TokenWriters ==
    \A p \in Requests, t \in Tokens : Mine(p, draftTokens[t]) =>
        \/ Spending(p)
        \/ pc[p] \in {"replay_revoke", "replay_bump", "rollback", "change_revoke"}
        \/ pc[p] = "commit" /\ req[p].op = "change"

\* A draft of a committed row revokes it; a draft of a new row is the successor of
\* the token its transaction has claimed.
TokenDrafts ==
    \A t \in Tokens : draftTokens[t] # None =>
        LET row == draftTokens[t].row  p == draftTokens[t].by IN
        IF Issued(t)
        THEN /\ row.user = tokens[t].user
             /\ row.family = tokens[t].family
             /\ row.parent = tokens[t].parent
             /\ row.revoked /\ row.usedAt # None
             /\ Spending(p) => t = req[p].token
        ELSE /\ pc[p] = "commit" /\ req[p].op = "refresh"
             /\ row.parent = req[p].token
             /\ row.family = tokens[req[p].token].family
             /\ row.user = tokens[req[p].token].user
             /\ ~row.revoked /\ row.usedAt = None

OneInsert ==
    \A x, y \in Tokens :
        /\ draftTokens[x] # None /\ ~Issued(x)
        /\ draftTokens[y] # None /\ ~Issued(y)
        /\ draftTokens[x].by = draftTokens[y].by
        => x = y

\* From the claim to the commit the claimed token stays usable for everybody else
\* and locked by the transaction that claimed it.
ClaimHeld ==
    \A p \in Requests : Spending(p) =>
        /\ req[p].token # None
        /\ Live(req[p].token)
        /\ Mine(p, draftTokens[req[p].token])

FamilyIssued == \A t \in Tokens : Issued(t) => Issued(tokens[t].family)

TokenInv ==
    /\ TokenWriters /\ TokenDrafts /\ OneInsert /\ ClaimHeld /\ FamilyIssued
    /\ RotationChain /\ RotatedOnce /\ OneLivePerFamily /\ MissedClaimIsExplained

\* What the transaction of each kind of request has made of its user row.
UserDrafts ==
    \A u \in Users : draftUsers[u] # None =>
        LET row == draftUsers[u].row  p == draftUsers[u].by IN
        \/ req[p].op = "refresh" /\ pc[p] = "rollback"
        \/ /\ req[p].user = u
           /\ \/ /\ req[p].op = "change" /\ pc[p] \in {"change_scan", "change_revoke", "commit"}
                 /\ row.active = users[u].active /\ row.deleted = users[u].deleted
                 /\ row.ver = users[u].ver + 1
              \/ /\ req[p].op = "patch" /\ pc[p] \in {"patch_reload", "not_found", "commit"}
                 /\ row.deleted = users[u].deleted
                 /\ row.ver = users[u].ver + (IF req[p].new = None THEN 0 ELSE 1)
                 /\ req[p].new = None => row.pw = users[u].pw
                 /\ pc[p] = "commit" => Alive(row)
              \/ /\ req[p].op = "remove" /\ pc[p] = "commit"
                 /\ row.deleted /\ ~row.active
                 /\ row.ver = users[u].ver + 1

UserHeld ==
    \A p \in Requests :
        \/ pc[p] \in {"change_scan", "change_revoke", "patch_reload"}
        \/ pc[p] = "commit" /\ req[p].op # "refresh"
        => Mine(p, draftUsers[req[p].user])

UserInv == UserDrafts /\ UserHeld /\ ActiveIffNotDeleted /\ VersionCountsChanges

\* Why a refresh that arrived too late cannot succeed.
DeadExplained ==
    \A p \in Requests : req[p].dead =>
        /\ req[p].token # None
        /\ tokens[req[p].token].revoked \/ users[tokens[req[p].token].user].deleted
        /\ req[p].op = "refresh"

SessionsInv ==
    TypeOK /\ RequestShape /\ TokenInv /\ UserInv /\ DeadExplained /\ DeadTokensStayDead

-----------------------------------------------------------------------------
(* Steps that never happen.                                                *)

\* A committed token keeps its owner, family and parent, and once revoked is never
\* usable again, whichever drafts, commits and rollbacks surround it.
NoResurrection ==
    [][\A t \in Tokens : Issued(t) =>
          /\ tokens'[t] # None
          /\ tokens'[t].family = tokens[t].family
          /\ tokens'[t].parent = tokens[t].parent
          /\ tokens'[t].user = tokens[t].user
          /\ tokens[t].revoked => tokens'[t].revoked]_vars

\* A deleted account stays deleted, even when a PATCH that sets isActive was
\* waiting for the row while the deletion committed.
DeletionIsFinal == [][\A u \in Users : users[u].deleted => users'[u].deleted]_vars

\* Rotation revokes the token it replaces and no other: a replay that was detected
\* ends with its family, and every other token, as it found them.
RefreshRevokesItsTokenOnly ==
    [][\A p \in Requests, t \in Tokens :
          /\ req[p].op = "refresh" /\ req'[p].op = "none"
          /\ Live(t) /\ tokens'[t].revoked
          => t = req[p].token]_vars

-----------------------------------------------------------------------------
(* What the code says of itself and does not do: each is refuted by a run. *)

\* "changes password and revokes all refresh tokens in one transaction": when the
\* password change commits, no usable refresh token of the user is left.
PasswordChangeEndsSessions ==
    [][\A p \in Requests :
          /\ pc[p] = "commit" /\ req[p].op = "change" /\ Commit(p)
          => \A t \in Tokens : tokens'[t] # None /\ tokens'[t].user = req[p].user
                                  => tokens'[t].revoked]_vars

-----------------------------------------------------------------------------
(* Implementation of the abstract rotation of families, and of accounts.   *)

IssuedTokens == {t \in Tokens : Issued(t)}
Heads(f) == {t \in Tokens : Live(t) /\ tokens[t].family = f}
CurrentToken(f) == IF Heads(f) = {} THEN None ELSE CHOOSE t \in Tokens : t \in Heads(f)

Families == INSTANCE TokenFamilies
    WITH issued <- IssuedTokens, current <- [f \in Tokens |-> CurrentToken(f)],
         NoToken <- None

\* Whatever concurrent logins, refreshes, logouts and password changes commit, each
\* commit is one step of TokenFamilies and everything else a stutter.
ImplementsTokenFamilies == Families!TFSpec

VersionShown(u) == IF Alive(users[u]) THEN users[u].ver ELSE 0
PasswordShown(u) == IF Alive(users[u]) THEN users[u].pw ELSE None

Shown == INSTANCE Accounts
    WITH version <- [u \in Users |-> VersionShown(u)], password <- [u \in Users |-> PasswordShown(u)],
         NoPassword <- None

\* Whatever PATCH, DELETE, password change and replay commit, a reader of accounts sees
\* each of them go through its versions one by one, the password only with them, and end
\* for good: what AccessGuard takes for granted of the accounts it caches.
ImplementsAccounts == Shown!AccountsSpec

-----------------------------------------------------------------------------
(* Liveness.                                                               *)

\* Every request is answered, even when a replay (family, then user) and a password
\* change (user, then tokens) wait for each other's rows.
EveryRequestAnswered == \A p \in Requests : pc[p] # "idle" ~> pc[p] = "idle"
=============================================================================
