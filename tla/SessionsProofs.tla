---------------------------- MODULE SessionsProofs ----------------------------
(***************************************************************************)
(* Types, rotation and accounts.  TypeOK is inductive together with        *)
(* RequestShape, which says what a request carries at each statement of    *)
(* its handler.  TokenInv is inductive relative to both: one lemma for     *)
(* each action that writes rows of tokens or drafts of them, two for all   *)
(* the others.  From it follow the chains of rotation and the              *)
(* implementation of TokenFamilies.  UserInv, in the second half, is       *)
(* inductive too; with TokenInv it gives the whole of SessionsInv.         *)
(***************************************************************************)
EXTENDS SessionsProperties, TLAPS

TypeInv == TypeOK /\ RequestShape

\* A revoked row of a token keeps everything but is_revoked and used_at
\* (refresh-tokens.repository.ts, the data of every revocation).
LEMMA SpentRow ==
    ASSUME NEW row \in TokenRow, NEW at \in Nat
    PROVE  /\ Spent(row, at) \in TokenRow
           /\ Spent(row, at).user = row.user
           /\ Spent(row, at).family = row.family
           /\ Spent(row, at).parent = row.parent
           /\ Spent(row, at).revoked = TRUE
           /\ Spent(row, at).usedAt = at
  BY DEF Spent, TokenRow

\* Incrementing token_version changes nothing else of an account (auth.service.ts:332).
LEMMA BumpedRow ==
    ASSUME NEW row \in UserRow
    PROVE  /\ Bumped(row) \in UserRow
           /\ Bumped(row).pw = row.pw /\ Bumped(row).ver = row.ver + 1
           /\ Bumped(row).active = row.active /\ Bumped(row).deleted = row.deleted
  BY DEF Bumped, UserRow

\* A new password comes with one increment of token_version (auth.service.ts:399-406).
LEMMA WithPasswordRow ==
    ASSUME NEW row \in UserRow, NEW pw \in Passwords
    PROVE  /\ WithPassword(row, pw) \in UserRow
           /\ WithPassword(row, pw).pw = pw /\ WithPassword(row, pw).ver = row.ver + 1
           /\ WithPassword(row, pw).active = row.active
           /\ WithPassword(row, pw).deleted = row.deleted
<1>. DEFINE b == Bumped(row)
<1>1. /\ b \in UserRow
      /\ b.ver = row.ver + 1 /\ b.active = row.active /\ b.deleted = row.deleted
  BY BumpedRow
<1>. HIDE DEF b
<1>2. /\ [b EXCEPT !.pw = pw] \in UserRow
      /\ [b EXCEPT !.pw = pw].pw = pw
      /\ [b EXCEPT !.pw = pw].ver = b.ver
      /\ [b EXCEPT !.pw = pw].active = b.active
      /\ [b EXCEPT !.pw = pw].deleted = b.deleted
  BY <1>1 DEF UserRow
<1>. QED BY <1>1, <1>2 DEF WithPassword, b

\* DELETE marks an account deleted and inactive and increments its version
\* (users.service.ts:219-229).
LEMMA RemovedRow ==
    ASSUME NEW row \in UserRow
    PROVE  /\ Removed(row) \in UserRow
           /\ Removed(row).ver = row.ver + 1
           /\ Removed(row).active = FALSE /\ Removed(row).deleted = TRUE
<1>. DEFINE b == Bumped(row)
<1>1. b \in UserRow /\ b.ver = row.ver + 1
  BY BumpedRow
<1>. HIDE DEF b
<1>2. LET r == [b EXCEPT !.deleted = TRUE, !.active = FALSE]
      IN  r \in UserRow /\ r.ver = b.ver /\ r.active = FALSE /\ r.deleted = TRUE
  BY <1>1 DEF UserRow
<1>. QED BY <1>1, <1>2 DEF Removed, b

\* PATCH never touches deletedAt, and increments token_version exactly when it is
\* given a password (users.service.ts:160-175).
LEMMA PatchedRow ==
    ASSUME NEW row \in UserRow, NEW r \in Request
    PROVE  /\ Patched(row, r) \in UserRow
           /\ Patched(row, r).deleted = row.deleted
           /\ Patched(row, r).ver = row.ver + (IF r.new = None THEN 0 ELSE 1)
           /\ r.new = None => Patched(row, r).pw = row.pw
<1>. DEFINE c == IF r.new = None THEN row ELSE WithPassword(row, r.new)
<1>1. /\ c \in UserRow /\ c.deleted = row.deleted
      /\ c.ver = row.ver + (IF r.new = None THEN 0 ELSE 1)
      /\ r.new = None => c.pw = row.pw
  BY WithPasswordRow DEF Request, UserRow
<1>. HIDE DEF c
<1>2. r.flag \in BOOLEAN \cup {None}
  BY DEF Request
<1>3. ASSUME NEW f \in BOOLEAN
      PROVE  LET x == [c EXCEPT !.active = f] IN x \in UserRow /\ x.deleted = c.deleted /\ x.ver = c.ver /\ x.pw = c.pw
  BY <1>1 DEF UserRow
<1>. QED BY <1>1, <1>2, <1>3 DEF Patched, c

\* The request of an idle slot is a request.
LEMMA BlankRequest == Blank \in Request
  BY NoneAssumption DEF Blank, Request, Ops

\* What a step that stores something it has read leaves alone in its request.
SameInputs(r, s) == r.op = s.op /\ r.user = s.user /\ r.token = s.token /\ r.new = s.new /\ r.dead = s.dead

\* Storing the version a statement has read leaves the inputs of the request alone.
LEMMA ReadVersion ==
    ASSUME NEW r \in Request, NEW v \in Nat
    PROVE  LET s == [r EXCEPT !.ver = v] IN s \in Request /\ SameInputs(r, s) /\ s.scan = r.scan /\ s.at = r.at
  BY DEF Request, SameInputs

\* Storing the hash a statement has read leaves the inputs of the request alone.
LEMMA ReadHash ==
    ASSUME NEW r \in Request, NEW pw \in Passwords
    PROVE  LET s == [r EXCEPT !.hash = pw] IN s \in Request /\ SameInputs(r, s) /\ s.scan = r.scan
  BY DEF Request, SameInputs

\* Taking the snapshot of an UPDATE leaves the inputs of the request alone.
LEMMA StartScan ==
    ASSUME NEW r \in Request, NEW scan \in SUBSET Tokens, NEW at \in Nat
    PROVE  LET s == [r EXCEPT !.scan = scan, !.at = at] IN s \in Request /\ SameInputs(r, s) /\ s.scan = scan
  BY DEF Request, SameInputs

\* Revoking one row of an UPDATE leaves the inputs of the request alone.
LEMMA AdvanceScan ==
    ASSUME NEW r \in Request, NEW t \in Tokens
    PROVE  LET s == [r EXCEPT !.scan = @ \ {t}]
           IN  s \in Request /\ SameInputs(r, s) /\ s.scan = r.scan \ {t} /\ s.at = r.at
  BY DEF Request, SameInputs

\* The initial states are well typed, and all requests are idle.
LEMMA InitType == Init => TypeInv
<1>. SUFFICES ASSUME Init PROVE TypeInv
  OBVIOUS
<1>1. TypeOK
  <2>1. users \in [Users -> UserRow]
    BY DEF Init, UserRow
  <2>2. pc \in [Requests -> Labels] /\ req \in [Requests -> Request]
    BY BlankRequest DEF Init, Labels
  <2>. QED BY <2>1, <2>2 DEF Init, TypeOK
<1>2. RequestShape
  BY NoneAssumption DEF Init, RequestShape, WellFormed, OnPath, Blank
<1>. QED BY <1>1, <1>2 DEF TypeInv

\* Rows of refresh tokens are never deleted: no statement of the code does it.
LEMMA IssuedForever ==
    ASSUME TypeOK, [Next]_vars, NEW t \in Tokens, Issued(t)
    PROVE  tokens'[t] # None
<1>. USE NoneAssumption, NoRowAssumption DEF Issued, rows
<1>1. ASSUME NEW p \in Requests, Receive(p) PROVE tokens'[t] # None
  BY <1>1 DEF Receive, ReceiveLogin, ReceiveRefresh, ReceiveLogout, ReceiveGet,
       ReceiveChangePassword, ReceivePatch, ReceiveRemove, Begin
<1>2. ASSUME NEW p \in Requests, LoginCreate(p) PROVE tokens'[t] # None
  BY <1>2 DEF LoginCreate, Fresh, TypeOK, NewRow
<1>3. ASSUME NEW p \in Requests, Logout(p) PROVE tokens'[t] # None
  <2>1. Spent(tokens[t], req[p].at) \in TokenRow
    BY SpentRow DEF TypeOK, Request
  <2>. QED BY <1>3, <2>1 DEF Logout, TypeOK
<1>4. ASSUME NEW p \in Requests, Commit(p) PROVE tokens'[t] # None
  BY <1>4 DEF Commit, Mine, TypeOK, Draft
<1>5. ASSUME NEW p \in Requests, Step(p) PROVE tokens'[t] # None
  BY <1>2, <1>3, <1>4, <1>5 DEF Step, LoginRead, RefreshClaim, RefreshOwner, RefreshCreate, RefreshStatus,
     ReplayRevoke, RevokeRow, ReplayBump, UserLookup, UserRead, UserFill, ChangeUpdate, ChangeScan, ChangeRevoke,
     PatchWrite, PatchReload, RemoveCheck, RemoveWrite, Rollback
<1>. QED BY <1>1, <1>5 DEF Next, Fail, Evict, Tick, vars

\* What login and rotation insert is a row of a token (auth.service.ts:123-173).
LEMMA NewRowType ==
    ASSUME now \in Nat, NEW u \in Users, NEW f \in Tokens, NEW q \in Tokens \cup {None}
    PROVE  NewRow(u, f, q) \in TokenRow
  BY DurationsAssumption DEF NewRow, TokenRow

\* The first statements of the seven kinds of request.
Entries == {"login_read", "refresh_claim", "logout", "user_lookup", "patch_write", "remove_check"}

\* Why a request that arrives carries dead (see DeadExplained).
Justified(r) ==
    r.dead => /\ r.op = "refresh" /\ r.token # None
              /\ tokens[r.token].revoked \/ users[tokens[r.token].user].deleted

\* Whatever request a controller receives starts at the first statement of its
\* handler, well formed, and is dead only for a reason.
LEMMA Received ==
    ASSUME TypeOK, NEW p \in Requests, Receive(p)
    PROVE  \E label \in Labels, r \in Request :
               Begin(p, label, r) /\ label \in Entries /\ WellFormed(r, label) /\ Justified(r)
<1>0. now \in Nat
  BY DEF TypeOK
<1>. USE NoneAssumption DEF Blank, Request, Ops, WellFormed, OnPath, Justified, Issued
<1>1. CASE ReceiveLogin(p)
  <2>1. PICK u \in Users, pw \in Passwords :
            Begin(p, "login_read", [Blank EXCEPT !.op = "login", !.user = u, !.cur = pw])
    BY <1>1 DEF ReceiveLogin
  <2>2. LET r == [Blank EXCEPT !.op = "login", !.user = u, !.cur = pw]
        IN  r \in Request /\ WellFormed(r, "login_read") /\ Justified(r)
    BY <1>0
  <2>. QED BY <2>1, <2>2 DEF Labels, Reads, Entries
<1>2. CASE ReceiveRefresh(p)
  <2>. DEFINE dead(t) == t # None /\ (tokens[t].revoked \/ users[tokens[t].user].deleted)
  <2>1. PICK t \in {x \in Tokens : Issued(x)} \cup {None} :
            Begin(p, "refresh_claim", [Blank EXCEPT !.op = "refresh", !.token = t, !.at = now, !.dead = dead(t)])
    BY <1>2 DEF ReceiveRefresh
  <2>2. ASSUME NEW d \in BOOLEAN, d => dead(t)
        PROVE  LET r == [Blank EXCEPT !.op = "refresh", !.token = t, !.at = now, !.dead = d]
               IN  r \in Request /\ WellFormed(r, "refresh_claim") /\ Justified(r)
    BY <1>0, <2>2
  <2>3. dead(t) \in BOOLEAN
    OBVIOUS
  <2>. QED BY <2>1, <2>2, <2>3 DEF Labels, TxSteps, Entries
<1>3. CASE ReceiveLogout(p)
  <2>1. PICK t \in {x \in Tokens : Issued(x)} :
            Begin(p, "logout", [Blank EXCEPT !.op = "logout", !.token = t, !.at = now])
    BY <1>3 DEF ReceiveLogout
  <2>2. LET r == [Blank EXCEPT !.op = "logout", !.token = t, !.at = now]
        IN  r \in Request /\ WellFormed(r, "logout") /\ Justified(r)
    BY <1>0
  <2>. QED BY <2>1, <2>2 DEF Labels, Reads, Entries
<1>4. CASE ReceiveGet(p)
  <2>1. PICK u \in Users :
            Begin(p, "user_lookup", [Blank EXCEPT !.op = "get", !.user = u])
    BY <1>4 DEF ReceiveGet
  <2>2. LET r == [Blank EXCEPT !.op = "get", !.user = u]
        IN  r \in Request /\ WellFormed(r, "user_lookup") /\ Justified(r)
    BY <1>0
  <2>. QED BY <2>1, <2>2 DEF Labels, Reads, Entries
<1>5. CASE ReceiveChangePassword(p)
  <2>1. PICK u \in Users, cur, new \in Passwords :
            Begin(p, "user_lookup", [Blank EXCEPT !.op = "change", !.user = u, !.cur = cur, !.new = new])
    BY <1>5 DEF ReceiveChangePassword
  <2>2. LET r == [Blank EXCEPT !.op = "change", !.user = u, !.cur = cur, !.new = new]
        IN  r \in Request /\ WellFormed(r, "user_lookup") /\ Justified(r)
    BY <1>0
  <2>. QED BY <2>1, <2>2 DEF Labels, Reads, Entries
<1>6. CASE ReceivePatch(p)
  <2>1. PICK u \in Users, pw \in Passwords \cup {None}, flag \in BOOLEAN \cup {None} :
            Begin(p, "patch_write", [Blank EXCEPT !.op = "patch", !.user = u, !.new = pw, !.flag = flag])
    BY <1>6 DEF ReceivePatch
  <2>2. LET r == [Blank EXCEPT !.op = "patch", !.user = u, !.new = pw, !.flag = flag]
        IN  r \in Request /\ WellFormed(r, "patch_write") /\ Justified(r)
    BY <1>0
  <2>. QED BY <2>1, <2>2 DEF Labels, TxSteps, Entries
<1>7. CASE ReceiveRemove(p)
  <2>1. PICK u \in Users :
            Begin(p, "remove_check", [Blank EXCEPT !.op = "remove", !.user = u])
    BY <1>7 DEF ReceiveRemove
  <2>2. LET r == [Blank EXCEPT !.op = "remove", !.user = u]
        IN  r \in Request /\ WellFormed(r, "remove_check") /\ Justified(r)
    BY <1>0
  <2>. QED BY <2>1, <2>2 DEF Labels, TxSteps, Entries
<1>. QED BY <1>1, <1>2, <1>3, <1>4, <1>5, <1>6, <1>7 DEF Receive

\* Every statement of every handler, every commit, rollback and failure keeps the types.
LEMMA NextType == TypeInv /\ [Next]_vars => TypeOK'
<1>. SUFFICES ASSUME TypeOK, RequestShape, [Next]_vars PROVE TypeOK'
  BY DEF TypeInv
<1>1. ASSUME NEW p \in Requests, Receive(p) PROVE TypeOK'
  <2>1. PICK label \in Labels, r \in Request : Begin(p, label, r)
    BY <1>1, Received
  <2>2. served' \in Nat
    <3>1. served' = served \/ CountRequest
      BY <1>1 DEF Receive, ReceiveLogin, ReceiveRefresh, ReceiveLogout, ReceiveGet,
           ReceiveChangePassword, ReceivePatch, ReceiveRemove
    <3>. QED BY <3>1 DEF TypeOK, CountRequest
  <2>. QED BY <2>1, <2>2 DEF Begin, TypeOK, rows, drafts, Goto
<1>. USE NoneAssumption DEF TypeOK, rows, drafts, bounds, Goto, Answer, Labels, TxSteps, Reads
<1>2. ASSUME NEW p \in Requests, Step(p) PROVE TypeOK'
  <2>. USE BlankRequest
  <2>a. req[p].op \notin {"none", "refresh", "logout"} => req[p].user \in Users
    BY DEF RequestShape, WellFormed
  <2>b. req[p].op = "change" => req[p].new \in Passwords
    BY DEF RequestShape, WellFormed
  <2>c. pc[p] \in {"logout", "refresh_owner", "refresh_create", "replay_revoke", "replay_bump"}
           => req[p].token \in Tokens /\ tokens[req[p].token] \in TokenRow
    BY DEF RequestShape, WellFormed, Issued, Request
  <2>d. \A t \in req[p].scan : t \in Tokens /\ tokens[t] \in TokenRow
    BY DEF RequestShape, WellFormed, Issued, Request
  <2>e. req[p].at \in Nat
    BY DEF Request
  <2>f. OnPath(req[p].op, pc[p])
    BY DEF RequestShape, WellFormed
  <2>1. CASE LoginRead(p)
    <3>1. users[req[p].user].ver \in Nat
      BY <2>1, <2>a, <2>f DEF LoginRead, OnPath, UserRow
    <3>2. [req[p] EXCEPT !.ver = users[req[p].user].ver] \in Request
      BY <3>1, ReadVersion
    <3>. QED BY <2>1, <3>2 DEF LoginRead
  <2>2. CASE LoginCreate(p)
    <3>1. req[p].user \in Users
      BY <2>2, <2>a, <2>f DEF LoginCreate, OnPath
    <3>2. \A t \in Tokens : NewRow(req[p].user, t, None) \in TokenRow
      BY <3>1, NewRowType
    <3>. QED BY <2>2, <3>2 DEF LoginCreate, Fresh
  <2>3. CASE RefreshClaim(p)
    <3>1. req[p].token \in Tokens \cup {None}
      BY DEF Request
    <3>2. \A t \in Tokens : Issued(t) => Spent(tokens[t], req[p].at) \in TokenRow
      BY <2>e, SpentRow DEF Issued
    <3>. QED BY <2>3, <3>1, <3>2 DEF RefreshClaim, WriteToken, Claimable, Draft
  <2>4. CASE RefreshOwner(p)
    <3>1. users[tokens[req[p].token].user].ver \in Nat
      BY <2>4, <2>c DEF RefreshOwner, UserRow, TokenRow
    <3>2. [req[p] EXCEPT !.ver = users[tokens[req[p].token].user].ver] \in Request
      BY <3>1, ReadVersion
    <3>. QED BY <2>4, <3>2 DEF RefreshOwner
  <2>5. CASE RefreshCreate(p)
    <3>1. NewRow(tokens[req[p].token].user, tokens[req[p].token].family, req[p].token) \in TokenRow
      BY <2>5, <2>c, NewRowType DEF RefreshCreate, TokenRow
    <3>. QED BY <2>5, <3>1 DEF RefreshCreate, WriteToken, Draft, Fresh
  <2>6. CASE RefreshStatus(p)
    <3>1. [req[p] EXCEPT !.scan = FamilyOf(req[p].token), !.at = now] \in Request
      BY StartScan DEF FamilyOf
    <3>. QED BY <2>6, <3>1 DEF RefreshStatus
  <2>7. ASSUME NEW t \in req[p].scan, NEW done \in Labels, RevokeRow(p, t, done) PROVE TypeOK'
    <3>1. Spent(tokens[t], req[p].at) \in TokenRow
      BY <2>d, <2>e, SpentRow
    <3>2. [req[p] EXCEPT !.scan = @ \ {t}] \in Request
      BY <2>d, AdvanceScan
    <3>. QED BY <2>7, <2>d, <3>1, <3>2 DEF RevokeRow, WriteToken, Draft
  <2>8. CASE ReplayRevoke(p)
    BY <2>7, <2>8 DEF ReplayRevoke
  <2>9. CASE ReplayBump(p)
    <3>1. tokens[req[p].token].user \in Users
      BY <2>9, <2>c DEF ReplayBump, TokenRow
    <3>2. Bumped(users[tokens[req[p].token].user]) \in UserRow
      BY <3>1, BumpedRow
    <3>. QED BY <2>9, <3>1, <3>2 DEF ReplayBump, WriteUser, Draft
  <2>10. CASE Logout(p)
    <3>1. req[p].token \in Tokens /\ Spent(tokens[req[p].token], req[p].at) \in TokenRow
      BY <2>10, <2>c, <2>e, SpentRow DEF Logout
    <3>. QED BY <2>10, <3>1 DEF Logout
  <2>11. CASE UserLookup(p)
    BY <2>11 DEF UserLookup, Proceed, Request
  <2>12. CASE UserRead(p)
    <3>1. users[req[p].user].pw \in Passwords
      BY <2>12, <2>a, <2>f DEF UserRead, OnPath, UserRow
    <3>2. [req[p] EXCEPT !.hash = users[req[p].user].pw] \in Request
      BY <3>1, ReadHash
    <3>. QED BY <2>12, <3>2 DEF UserRead
  <2>13. CASE UserFill(p)
    <3>1. req[p].hash \in Passwords \cup {None}
      BY DEF Request
    <3>2. cached' \in [Users -> Passwords \cup {None}]
      BY <2>13, <3>1 DEF UserFill
    <3>3. pc' \in [Requests -> Labels] /\ req' \in [Requests -> Request]
      BY <2>13 DEF UserFill, Proceed
    <3>. QED BY <2>13, <3>2, <3>3 DEF UserFill
  <2>14. CASE ChangeUpdate(p)
    <3>1. req[p].user \in Users /\ req[p].new \in Passwords
      BY <2>14, <2>a, <2>b, <2>f DEF ChangeUpdate, OnPath
    <3>2. WithPassword(users[req[p].user], req[p].new) \in UserRow
      BY <3>1, WithPasswordRow
    <3>. QED BY <2>14, <3>1, <3>2 DEF ChangeUpdate, WriteUser, Draft
  <2>15. CASE ChangeScan(p)
    <3>1. [req[p] EXCEPT !.scan = TokensOf(req[p].user), !.at = now] \in Request
      BY StartScan DEF TokensOf
    <3>. QED BY <2>15, <3>1 DEF ChangeScan
  <2>16. CASE ChangeRevoke(p)
    BY <2>7, <2>16 DEF ChangeRevoke
  <2>17. CASE PatchWrite(p)
    <3>1. req[p].user \in Users
      BY <2>17, <2>a, <2>f DEF PatchWrite, OnPath
    <3>2. Patched(users[req[p].user], req[p]) \in UserRow
      BY <3>1, PatchedRow
    <3>. QED BY <2>17, <3>1, <3>2 DEF PatchWrite, WriteUser, Draft
  <2>18. CASE PatchReload(p)
    BY <2>18 DEF PatchReload
  <2>19. CASE RemoveCheck(p)
    BY <2>19 DEF RemoveCheck
  <2>20. CASE RemoveWrite(p)
    <3>1. req[p].user \in Users
      BY <2>20, <2>a, <2>f DEF RemoveWrite, OnPath
    <3>2. Removed(users[req[p].user]) \in UserRow
      BY <3>1, RemovedRow
    <3>. QED BY <2>20, <3>1, <3>2 DEF RemoveWrite, WriteUser, Draft
  <2>21. CASE Commit(p)
    <3>1. \A u \in Users : Mine(p, draftUsers[u]) => draftUsers[u].row \in UserRow
      BY DEF Mine, Draft
    <3>2. \A t \in Tokens : Mine(p, draftTokens[t]) => draftTokens[t].row \in TokenRow
      BY DEF Mine, Draft
    <3>. QED BY <2>21, <3>1, <3>2 DEF Commit, Discard
  <2>22. CASE Rollback(p)
    BY <2>22 DEF Rollback, Discard
  <2>. QED BY <1>2, <2>1, <2>2, <2>3, <2>4, <2>5, <2>6, <2>8, <2>9, <2>10, <2>11, <2>12, <2>13,
           <2>14, <2>15, <2>16, <2>17, <2>18, <2>19, <2>20, <2>21, <2>22 DEF Step
<1>3. ASSUME NEW p \in Requests, Fail(p) PROVE TypeOK'
  BY <1>3, BlankRequest DEF Fail, Discard
<1>4. ASSUME NEW u \in Users, Evict(u) PROVE TypeOK'
  BY <1>4 DEF Evict
<1>5. CASE Tick
  BY <1>5 DEF Tick
<1>6. CASE UNCHANGED vars
  BY <1>6 DEF vars
<1>. QED BY <1>1, <1>2, <1>3, <1>4, <1>5, <1>6 DEF Next

\* A step that gives one request a well-formed state keeps all requests well formed:
\* the tokens the others carry stay issued.
LEMMA ShapeStep ==
    ASSUME TypeInv, [Next]_vars, NEW p \in Requests, NEW r \in Request, NEW label \in Labels,
           WellFormed(r, label),
           req' = [req EXCEPT ![p] = r], pc' = [pc EXCEPT ![p] = label]
    PROVE  RequestShape'
<1>1. \A t \in Tokens : Issued(t) => Issued(t)'
  BY IssuedForever DEF TypeInv, Issued
<1>2. ASSUME NEW q \in Requests PROVE WellFormed(req[q], pc[q])'
  <2>1. /\ req'[q] \in Request
        /\ q = p => req'[q] = r /\ pc'[q] = label
        /\ q # p => req'[q] = req[q] /\ pc'[q] = pc[q]
    BY DEF TypeInv, TypeOK
  <2>2. q # p => WellFormed(req[q], pc[q])
    BY DEF TypeInv, RequestShape
  <2>. QED BY <1>1, <2>1, <2>2 DEF WellFormed, Request
<1>. QED BY <1>2 DEF RequestShape

\* Every handler goes from statement to statement as its code says, and carries at
\* each what that statement needs.
LEMMA NextShape == TypeInv /\ [Next]_vars => RequestShape'
<1>. SUFFICES ASSUME TypeInv, [Next]_vars PROVE RequestShape'
  OBVIOUS
<1>0. TypeOK /\ TypeOK' /\ RequestShape
  BY NextType DEF TypeInv
<1>1. ASSUME NEW p \in Requests, Receive(p) PROVE RequestShape'
  <2>1. PICK label \in Labels, r \in Request : Begin(p, label, r) /\ WellFormed(r, label)
    BY <1>0, <1>1, Received
  <2>. QED BY <2>1, ShapeStep DEF Begin, Goto
<1>2. ASSUME NEW p \in Requests, Step(p) PROVE RequestShape'
  <2>. DEFINE Moves(label) == pc' = [pc EXCEPT ![p] = label]
  <2>0. /\ req[p] \in Request /\ pc[p] \in Labels /\ WellFormed(req[p], pc[p])
        /\ req = [req EXCEPT ![p] = req[p]] /\ pc = [pc EXCEPT ![p] = pc[p]]
    BY <1>0 DEF TypeOK, RequestShape
  <2>1. WellFormed(Blank, "idle") /\ Blank \in Request /\ "idle" \in Labels
    BY BlankRequest DEF WellFormed, OnPath, Blank, Labels
  <2>2. ASSUME Answer(p) PROVE RequestShape'
    BY <2>1, <2>2, ShapeStep DEF Answer, Goto
  <2>3. ASSUME NEW label \in Labels, Goto(p, label), UNCHANGED req, WellFormed(req[p], label)
        PROVE  RequestShape'
    BY <2>0, <2>3, ShapeStep DEF Goto
  <2>4. ASSUME NEW s \in Request, NEW label \in Labels, Goto(p, label), req' = [req EXCEPT ![p] = s],
               SameInputs(req[p], s), WellFormed(req[p], label), \A t \in s.scan : Issued(t)
        PROVE  RequestShape'
    <3>1. WellFormed(s, label)
      BY <2>4 DEF WellFormed, SameInputs
    <3>. QED BY <2>4, <3>1, ShapeStep DEF Goto
  <2>. HIDE DEF Moves
  <2>5. CASE LoginRead(p)
    <3>1. CASE Answer(p)
      BY <2>2, <3>1
    <3>2. CASE Goto(p, "login_create") /\ req' = [req EXCEPT ![p].ver = users[req[p].user].ver]
      <4>1. users[req[p].user].ver \in Nat /\ WellFormed(req[p], "login_create")
        BY <2>0, <2>5, <1>0 DEF LoginRead, WellFormed, OnPath, TypeOK, UserRow
      <4>. QED BY <2>0, <2>4, <3>2, <4>1, ReadVersion DEF Labels, Reads, WellFormed
    <3>. QED BY <2>5, <3>1, <3>2 DEF LoginRead
  <2>6. CASE LoginCreate(p) \/ Logout(p) \/ Commit(p) \/ Rollback(p)
    BY <2>2, <2>6 DEF LoginCreate, Logout, Commit, Rollback
  <2>7. CASE RefreshClaim(p)
    <3>1. CASE Claimable(req[p].token, req[p].at) /\ Goto(p, "refresh_owner") /\ UNCHANGED req
      BY <2>0, <2>3, <2>7, <3>1 DEF RefreshClaim, Claimable, WellFormed, OnPath, Labels, TxSteps
    <3>2. CASE Goto(p, "refresh_status") /\ UNCHANGED req
      BY <2>0, <2>3, <2>7, <3>2 DEF RefreshClaim, WellFormed, OnPath, Labels, TxSteps
    <3>. QED BY <2>7, <3>1, <3>2 DEF RefreshClaim
  <2>8. CASE RefreshOwner(p)
    <3>1. CASE Goto(p, "rollback") /\ UNCHANGED req
      BY <2>0, <2>3, <2>8, <3>1 DEF RefreshOwner, WellFormed, OnPath, Labels, TxSteps
    <3>2. CASE Goto(p, "refresh_create") /\ req' = [req EXCEPT ![p].ver = users[tokens[req[p].token].user].ver]
      <4>1. tokens[req[p].token] \in TokenRow
        BY <2>0, <2>8, <1>0 DEF RefreshOwner, WellFormed, Issued, TypeOK, Request
      <4>2. users[tokens[req[p].token].user].ver \in Nat
        BY <1>0, <4>1 DEF TypeOK, TokenRow, UserRow
      <4>3. WellFormed(req[p], "refresh_create")
        BY <2>0, <2>8 DEF RefreshOwner, WellFormed, OnPath
      <4>. QED BY <2>0, <2>4, <3>2, <4>2, <4>3, ReadVersion DEF Labels, TxSteps, WellFormed
    <3>. QED BY <2>8, <3>1, <3>2 DEF RefreshOwner
  <2>9. CASE RefreshCreate(p) \/ ReplayBump(p) \/ ChangeUpdate(p) \/ PatchWrite(p) \/ PatchReload(p) \/ RemoveWrite(p)
    BY <2>0, <2>3, <2>9 DEF RefreshCreate, ReplayBump, ChangeUpdate, PatchWrite, PatchReload, RemoveWrite,
         WellFormed, OnPath, Labels, TxSteps
  <2>10. CASE RefreshStatus(p)
    <3>1. CASE Answer(p)
      BY <2>2, <3>1
    <3>2. CASE /\ IsReplay(req[p].token, req[p].at) /\ Goto(p, "replay_revoke")
               /\ req' = [req EXCEPT ![p] = [@ EXCEPT !.scan = FamilyOf(req[p].token), !.at = now]]
      <4>1. WellFormed(req[p], "replay_revoke")
        BY <2>0, <2>10, <3>2 DEF RefreshStatus, IsReplay, WellFormed, OnPath
      <4>2. now \in Nat /\ FamilyOf(req[p].token) \in SUBSET Tokens /\ \A t \in FamilyOf(req[p].token) : Issued(t)
        BY <1>0 DEF TypeOK, FamilyOf
      <4>. DEFINE s == [req[p] EXCEPT !.scan = FamilyOf(req[p].token), !.at = now]
      <4>3. s \in Request /\ SameInputs(req[p], s) /\ s.scan = FamilyOf(req[p].token)
        BY <2>0, <4>2, StartScan
      <4>. HIDE DEF s
      <4>. QED BY <2>0, <2>4, <3>2, <4>1, <4>2, <4>3 DEF s, Labels, TxSteps
    <3>. QED BY <2>10, <3>1, <3>2 DEF RefreshStatus
  <2>11. ASSUME NEW t \in req[p].scan, NEW label \in Labels, RevokeRow(p, t, label), WellFormed(req[p], label)
         PROVE  RequestShape'
    <3>1. t \in Tokens /\ \A x \in req[p].scan : Issued(x)
      BY <2>0 DEF Request, WellFormed
    <3>2. CASE Goto(p, label)
      BY <2>0, <2>4, <2>11, <3>1, <3>2, AdvanceScan DEF RevokeRow
    <3>3. CASE UNCHANGED pc
      <4>1. Goto(p, pc[p])
        BY <2>0, <3>3 DEF Goto
      <4>. QED BY <2>0, <2>4, <2>11, <3>1, <4>1, AdvanceScan DEF RevokeRow
    <3>. QED BY <2>11, <3>2, <3>3 DEF RevokeRow
  <2>12. CASE ReplayRevoke(p)
    BY <2>0, <2>11, <2>12 DEF ReplayRevoke, WellFormed, OnPath, Labels, TxSteps
  <2>13. CASE ChangeRevoke(p)
    BY <2>0, <2>11, <2>13 DEF ChangeRevoke, WellFormed, OnPath, Labels, TxSteps
  <2>14. CASE UserLookup(p)
    BY <2>0, <2>2, <2>3, <2>14 DEF UserLookup, Proceed, WellFormed, OnPath, Labels, TxSteps, Reads
  <2>15. CASE UserRead(p)
    <3>1. CASE Answer(p)
      BY <2>2, <3>1
    <3>2. CASE Goto(p, "user_fill") /\ req' = [req EXCEPT ![p].hash = users[req[p].user].pw]
      <4>1. users[req[p].user].pw \in Passwords /\ WellFormed(req[p], "user_fill")
        BY <2>0, <2>15, <1>0 DEF UserRead, WellFormed, OnPath, TypeOK, UserRow
      <4>. QED BY <2>0, <2>4, <3>2, <4>1, ReadHash DEF Labels, Reads, WellFormed
    <3>. QED BY <2>15, <3>1, <3>2 DEF UserRead
  <2>16. CASE UserFill(p)
    BY <2>0, <2>2, <2>3, <2>16 DEF UserFill, Proceed, WellFormed, OnPath, Labels, TxSteps, Reads
  <2>17. CASE ChangeScan(p)
    <3>1. WellFormed(req[p], "change_revoke")
      BY <2>0, <2>17 DEF ChangeScan, WellFormed, OnPath
    <3>2. now \in Nat /\ TokensOf(req[p].user) \in SUBSET Tokens /\ \A t \in TokensOf(req[p].user) : Issued(t)
      BY <1>0 DEF TypeOK, TokensOf
    <3>. DEFINE s == [req[p] EXCEPT !.scan = TokensOf(req[p].user), !.at = now]
    <3>3. s \in Request /\ SameInputs(req[p], s) /\ s.scan = TokensOf(req[p].user)
      BY <2>0, <3>2, StartScan
    <3>4. req' = [req EXCEPT ![p] = s] /\ Goto(p, "change_revoke")
      BY <2>17 DEF ChangeScan
    <3>. HIDE DEF s
    <3>. QED BY <2>4, <3>1, <3>2, <3>3, <3>4 DEF Labels, TxSteps
  <2>18. CASE RemoveCheck(p)
    BY <2>0, <2>2, <2>3, <2>18 DEF RemoveCheck, WellFormed, OnPath, Labels, TxSteps
  <2>. QED BY <1>2, <2>5, <2>6, <2>7, <2>8, <2>9, <2>10, <2>12, <2>13, <2>14, <2>15, <2>16, <2>17, <2>18 DEF Step
<1>3. ASSUME NEW p \in Requests, Fail(p) PROVE RequestShape'
  <2>1. WellFormed(Blank, "idle") /\ "idle" \in Labels
    BY DEF WellFormed, OnPath, Blank, Labels
  <2>. QED BY <1>3, <2>1, BlankRequest, ShapeStep DEF Fail, Answer, Goto
<1>4. CASE (\E u \in Users : Evict(u)) \/ Tick \/ UNCHANGED vars
  <2>1. UNCHANGED <<pc, req, tokens>>
    BY <1>4 DEF Evict, Tick, vars, rows
  <2>. QED BY <1>0, <2>1 DEF RequestShape, WellFormed, Issued
<1>. QED BY <1>1, <1>2, <1>3, <1>4 DEF Next

-----------------------------------------------------------------------------
(* Rotation.                                                               *)

\* Requests other than p are as they were.
OnlyMoves(p) == \A q \in Requests \ {p} : pc'[q] = pc[q] /\ req'[q] = req[q]

\* A transaction that ends without a commit (prisma-transaction-manager.service.ts:10-14)
\* leaves the invariant of tokens.
LEMMA DiscardStep ==
    ASSUME TypeOK, TokenInv, NEW p \in Requests, OnlyMoves(p),
           UNCHANGED tokens,
           draftTokens' = [t \in Tokens |-> IF Mine(p, draftTokens[t]) THEN None ELSE draftTokens[t]],
           ~Spending(p)',
           pc'[p] = "refresh_status" => ~Claimable(req[p].token, req[p].at)'
    PROVE  TokenInv'
<1>1. \A t \in Tokens : draftTokens'[t] # None =>
          draftTokens'[t] = draftTokens[t] /\ draftTokens[t].by \in Requests \ {p}
  BY DEF TypeOK, Draft, Mine
<1>2. TokenWriters'
  BY <1>1 DEF TokenInv, TokenWriters, OnlyMoves, Mine, Spending
<1>3. TokenDrafts'
  BY <1>1 DEF TokenInv, TokenDrafts, OnlyMoves, Spending, Issued
<1>4. OneInsert'
  BY <1>1 DEF TokenInv, OneInsert, Issued
<1>5. ClaimHeld'
  <2>1. ASSUME NEW q \in Requests, Spending(q)' 
        PROVE  /\ req'[q].token # None
               /\ Live(req[q].token)'
               /\ Mine(q, draftTokens[req[q].token])'
    <3>1. q # p /\ Spending(q) /\ req'[q] = req[q]
      BY <2>1 DEF OnlyMoves, Spending
    <3>2. req[q].token \in Tokens /\ Live(req[q].token) /\ Mine(q, draftTokens[req[q].token])
      BY <3>1 DEF TokenInv, ClaimHeld, TypeOK, Request
    <3>3. draftTokens'[req[q].token] = draftTokens[req[q].token]
      BY <3>1, <3>2 DEF Mine
    <3>4. Live(req[q].token)'
      BY <3>1, <3>2 DEF Live, Issued
    <3>5. Mine(q, draftTokens[req[q].token])'
      BY <3>1, <3>2, <3>3 DEF Mine
    <3>6. req'[q].token # None
      BY <3>1, <3>2, NoneAssumption
    <3>. QED BY <3>4, <3>5, <3>6
  <2>. QED BY <2>1 DEF ClaimHeld
<1>6. FamilyIssued' /\ RotationChain' /\ RotatedOnce' /\ OneLivePerFamily'
  BY DEF TokenInv, FamilyIssued, RotationChain, RotatedOnce, OneLivePerFamily, Live, Issued
<1>7. MissedClaimIsExplained'
  BY DEF TokenInv, MissedClaimIsExplained, OnlyMoves, Claimable, Issued
<1>. QED BY <1>2, <1>3, <1>4, <1>5, <1>6, <1>7 DEF TokenInv

\* A statement that writes no token, inside a transaction that may have written some,
\* leaves the invariant of tokens.
LEMMA MoveStep ==
    ASSUME TypeOK, TokenInv, NEW p \in Requests, OnlyMoves(p),
           UNCHANGED <<tokens, draftTokens>>,
           req'[p].token = req[p].token, req'[p].op = req[p].op,
           pc[p] # "commit", pc'[p] \notin {"commit", "refresh_status"},
           Spending(p)' => Spending(p),
           \A t \in Tokens : Mine(p, draftTokens[t]) =>
               Spending(p)' \/ pc'[p] \in {"replay_revoke", "replay_bump", "rollback", "change_revoke"}
    PROVE  TokenInv'
<1>1. TokenWriters'
  BY DEF TokenInv, TokenWriters, OnlyMoves, Mine, Spending
<1>2. TokenDrafts'
  BY DEF TokenInv, TokenDrafts, OnlyMoves, Spending, Issued, TypeOK, Draft
<1>3. OneInsert'
  BY DEF TokenInv, OneInsert, Issued
<1>4. ClaimHeld'
  BY DEF TokenInv, ClaimHeld, OnlyMoves, Spending, Live, Issued, Mine
<1>5. FamilyIssued' /\ RotationChain' /\ RotatedOnce' /\ OneLivePerFamily'
  BY DEF TokenInv, FamilyIssued, RotationChain, RotatedOnce, OneLivePerFamily, Live, Issued
<1>6. MissedClaimIsExplained'
  BY DEF TokenInv, MissedClaimIsExplained, OnlyMoves, Claimable, Issued
<1>. QED BY <1>1, <1>2, <1>3, <1>4, <1>5, <1>6 DEF TokenInv

\* The insert of login opens a family and leaves the others alone (auth.service.ts:226-254).
LEMMA LoginCreateStep ==
    ASSUME TypeInv, TokenInv, NEW p \in Requests, LoginCreate(p)
    PROVE  TokenInv'
<1>. USE NoneAssumption, NoRowAssumption
<1>1. PICK n \in Fresh : tokens' = [tokens EXCEPT ![n] = NewRow(req[p].user, n, None)]
  BY DEF LoginCreate
<1>2. /\ NewRow(req[p].user, n, None) \in TokenRow
      /\ NewRow(req[p].user, n, None).parent = None
      /\ NewRow(req[p].user, n, None).family = n
      /\ NewRow(req[p].user, n, None).revoked = FALSE
      /\ NewRow(req[p].user, n, None).usedAt = None
  <2>1. req[p].user \in Users
    BY DEF TypeInv, RequestShape, WellFormed, OnPath, LoginCreate
  <2>. QED BY <2>1, NewRowType DEF NewRow, Fresh, TypeInv, TypeOK
<1>3. /\ n \in Tokens /\ ~Issued(n) /\ draftTokens[n] = None
      /\ tokens'[n] = NewRow(req[p].user, n, None)
      /\ \A t \in Tokens \ {n} : tokens'[t] = tokens[t]
      /\ \A t \in Tokens : Issued(t) => tokens'[t] = tokens[t] /\ t # n
      /\ tokens'[n] # None
  BY <1>1, <1>2 DEF Fresh, TypeInv, TypeOK, Issued
<1>4. UNCHANGED draftTokens /\ OnlyMoves(p) /\ pc'[p] = "idle" /\ pc[p] = "login_create"
  BY DEF LoginCreate, drafts, Answer, Goto, OnlyMoves, TypeInv, TypeOK
<1>5. \A q \in Requests : Spending(q) => Issued(req[q].token) /\ req[q].token \in Tokens
  BY DEF TokenInv, ClaimHeld, Live, TypeInv, TypeOK, Request
<1>6. \A t \in Tokens : Issued(t) => tokens[t].family \in Tokens /\ tokens[t].parent \in Tokens \cup {None}
  BY DEF TypeInv, TypeOK, TokenRow, Issued
<1>7. TokenWriters'
  BY <1>4 DEF TokenInv, TokenWriters, OnlyMoves, Mine, Spending
<1>8. TokenDrafts'
  BY <1>3, <1>4, <1>5 DEF TokenInv, TokenDrafts, OnlyMoves, Spending, Issued, TypeInv, TypeOK, Draft
<1>9. OneInsert'
  BY <1>3, <1>4 DEF TokenInv, OneInsert, Issued
<1>10. ClaimHeld'
  BY <1>3, <1>4, <1>5 DEF TokenInv, ClaimHeld, OnlyMoves, Spending, Live, Issued, Mine
<1>11. FamilyIssued'
  BY <1>2, <1>3, <1>6 DEF TokenInv, FamilyIssued, Issued
<1>12. RotationChain'
  BY <1>2, <1>3, <1>6 DEF TokenInv, RotationChain, Issued
<1>13. RotatedOnce'
  BY <1>2, <1>3 DEF TokenInv, RotatedOnce, Issued
<1>14. OneLivePerFamily'
  BY <1>2, <1>3, <1>6 DEF TokenInv, OneLivePerFamily, FamilyIssued, Live, Issued
<1>15. MissedClaimIsExplained'
  <2>1. \A q \in Requests : pc'[q] = "refresh_status" =>
           q # p /\ pc[q] = "refresh_status" /\ req'[q] = req[q] /\ req[q].token \in Tokens \cup {None}
           /\ (req[q].token # None => Issued(req[q].token))
    BY <1>4 DEF OnlyMoves, TypeInv, TypeOK, Request, RequestShape, WellFormed
  <2>. QED BY <2>1, <1>3 DEF TokenInv, MissedClaimIsExplained, Claimable, Issued
<1>. QED BY <1>7, <1>8, <1>9, <1>10, <1>11, <1>12, <1>13, <1>14, <1>15 DEF TokenInv

\* The UPDATE of logout waits for a claim under way, so no claimed token is revoked
\* under its transaction (auth.service.ts:343-354).
LEMMA LogoutStep ==
    ASSUME TypeInv, TokenInv, NEW p \in Requests, Logout(p)
    PROVE  TokenInv'
<1>. USE NoneAssumption, NoRowAssumption
<1>. DEFINE t == req[p].token
            row == Spent(tokens[t], req[p].at)
<1>1. t \in Tokens /\ Issued(t) /\ tokens[t] \in TokenRow /\ req[p].at \in Nat
  BY DEF Logout, TypeInv, TypeOK, RequestShape, WellFormed, Request, Issued
<1>2. /\ row \in TokenRow
      /\ row.user = tokens[t].user /\ row.family = tokens[t].family /\ row.parent = tokens[t].parent
      /\ row.revoked = TRUE /\ row.usedAt # None
  BY <1>1, SpentRow
<1>3. /\ tokens'[t] = row /\ row # None
      /\ \A x \in Tokens \ {t} : tokens'[x] = tokens[x]
      /\ draftTokens[t] = None
  BY <1>1, <1>2 DEF Logout, TypeInv, TypeOK
<1>4. UNCHANGED draftTokens /\ OnlyMoves(p) /\ pc'[p] = "idle" /\ pc[p] = "logout"
  BY DEF Logout, drafts, Answer, Goto, OnlyMoves, TypeInv, TypeOK
<1>5. \A q \in Requests : Spending(q) => req[q].token \in Tokens /\ req[q].token # t
  BY <1>3 DEF TokenInv, ClaimHeld, Live, Mine, TypeInv, TypeOK, Request
<1>. HIDE DEF t, row
<1>6. /\ \A x \in Tokens : Issued(x)' <=> Issued(x)
      /\ \A x \in Tokens : Issued(x) => /\ tokens'[x].user = tokens[x].user
                                        /\ tokens'[x].family = tokens[x].family
                                        /\ tokens'[x].parent = tokens[x].parent
                                        /\ tokens[x].revoked => tokens'[x].revoked
      /\ \A x \in Tokens : Issued(x) => tokens[x].family \in Tokens /\ tokens[x].parent \in Tokens \cup {None}
  BY <1>1, <1>2, <1>3 DEF Issued, TypeInv, TypeOK, TokenRow
<1>7. TokenWriters'
  BY <1>4 DEF TokenInv, TokenWriters, OnlyMoves, Mine, Spending
<1>8. TokenDrafts'
  BY <1>3, <1>4, <1>5, <1>6 DEF TokenInv, TokenDrafts, ClaimHeld, Live, OnlyMoves, Spending, Issued, TypeInv, TypeOK, Draft
<1>9. OneInsert'
  BY <1>4, <1>6 DEF TokenInv, OneInsert, Issued
<1>10. ClaimHeld'
  BY <1>3, <1>4, <1>5 DEF TokenInv, ClaimHeld, OnlyMoves, Spending, Live, Issued, Mine
<1>11. FamilyIssued'
  BY <1>6 DEF TokenInv, FamilyIssued, Issued
<1>12. RotationChain'
  BY <1>1, <1>2, <1>3, <1>6 DEF TokenInv, RotationChain, Issued
<1>13. RotatedOnce' /\ OneLivePerFamily'
  BY <1>6 DEF TokenInv, RotatedOnce, OneLivePerFamily, Live, Issued
<1>14. MissedClaimIsExplained'
  <2>1. \A q \in Requests : pc'[q] = "refresh_status" =>
           q # p /\ pc[q] = "refresh_status" /\ req'[q] = req[q] /\ req[q].token \in Tokens \cup {None}
    BY <1>4 DEF OnlyMoves, TypeInv, TypeOK, Request
  <2>. QED BY <2>1, <1>2, <1>3 DEF TokenInv, MissedClaimIsExplained, Claimable, Issued
<1>. QED BY <1>7, <1>8, <1>9, <1>10, <1>11, <1>12, <1>13, <1>14 DEF TokenInv

\* The conditional UPDATE of refresh claims a usable token nobody else has claimed
\* (auth.service.ts:267-283).
LEMMA ClaimStep ==
    ASSUME TypeInv, TokenInv, NEW p \in Requests, RefreshClaim(p), pc'[p] = "refresh_owner"
    PROVE  TokenInv'
<1>. USE NoneAssumption, NoRowAssumption
<1>. DEFINE t == req[p].token
            row == Spent(tokens[t], req[p].at)
<1>1. Claimable(t, req[p].at) /\ WriteToken(p, t, row) /\ pc[p] = "refresh_claim" /\ Goto(p, "refresh_owner")
  BY DEF RefreshClaim, Goto, TypeInv, TypeOK
<1>2. t \in Tokens /\ Issued(t) /\ tokens[t] \in TokenRow /\ Live(t)
  BY <1>1 DEF Claimable, TypeInv, TypeOK, Request, Issued, Live
<1>3. /\ row.user = tokens[t].user /\ row.family = tokens[t].family /\ row.parent = tokens[t].parent
      /\ row.revoked = TRUE /\ row.usedAt # None
  <2>1. req[p].at \in Nat
    BY DEF TypeInv, TypeOK, Request
  <2>. QED BY <1>2, <2>1, SpentRow
<1>4. /\ draftTokens[t] = None
      /\ draftTokens'[t] = [by |-> p, row |-> row] /\ draftTokens'[t] # None
      /\ \A x \in Tokens \ {t} : draftTokens'[x] = draftTokens[x]
  <2>1. draftTokens' = [draftTokens EXCEPT ![t] = [by |-> p, row |-> row]] /\ draftTokens[t] = None
    BY <1>1 DEF WriteToken
  <2>2. [by |-> p, row |-> row] \in Draft(TokenRow)
    BY <1>2, SpentRow DEF Draft, TypeInv, TypeOK, Request
  <2>. QED BY <1>2, <2>1, <2>2 DEF TypeInv, TypeOK
<1>. HIDE DEF t, row
<1>5. UNCHANGED tokens /\ UNCHANGED req /\ OnlyMoves(p) /\ pc'[p] = "refresh_owner"
  BY <1>1 DEF RefreshClaim, rows, Goto, OnlyMoves, TypeInv, TypeOK
<1>6. \A x \in Tokens : ~Mine(p, draftTokens[x])
  BY <1>1 DEF TokenInv, TokenWriters, Spending
<1>7. TokenWriters'
  BY <1>4, <1>5, <1>6 DEF TokenInv, TokenWriters, OnlyMoves, Mine, Spending
<1>8. TokenDrafts'
  BY <1>1, <1>2, <1>3, <1>4, <1>5, <1>6 DEF TokenInv, TokenDrafts, OnlyMoves, Spending, Issued, Mine, TypeInv, TypeOK, Draft, t
<1>9. OneInsert'
  BY <1>2, <1>4, <1>5 DEF TokenInv, OneInsert, Issued
<1>10. ClaimHeld'
  BY <1>2, <1>4, <1>5 DEF TokenInv, ClaimHeld, OnlyMoves, Spending, Live, Issued, Mine, TypeInv, TypeOK, Request, t
<1>11. FamilyIssued' /\ RotationChain' /\ RotatedOnce' /\ OneLivePerFamily'
  BY <1>5 DEF TokenInv, FamilyIssued, RotationChain, RotatedOnce, OneLivePerFamily, Live, Issued
<1>12. MissedClaimIsExplained'
  BY <1>5 DEF TokenInv, MissedClaimIsExplained, OnlyMoves, Claimable, Issued
<1>. QED BY <1>7, <1>8, <1>9, <1>10, <1>11, <1>12 DEF TokenInv

\* The insert of refresh drafts the one successor of the claimed token, in its family
\* and for its owner (auth.service.ts:296-302).
LEMMA RefreshCreateStep ==
    ASSUME TypeInv, TokenInv, NEW p \in Requests, RefreshCreate(p)
    PROVE  TokenInv'
<1>. USE NoneAssumption, NoRowAssumption
<1>. DEFINE t == req[p].token
            row == NewRow(tokens[t].user, tokens[t].family, t)
<1>1. PICK n \in Fresh : WriteToken(p, n, row)
  BY DEF RefreshCreate
<1>2. pc[p] = "refresh_create" /\ UNCHANGED tokens /\ UNCHANGED req /\ OnlyMoves(p) /\ pc'[p] = "commit"
  BY DEF RefreshCreate, rows, Goto, OnlyMoves, TypeInv, TypeOK
<1>3. req[p].op = "refresh" /\ t \in Tokens /\ Live(t) /\ Mine(p, draftTokens[t]) /\ tokens[t] \in TokenRow
  BY <1>2 DEF TypeInv, TypeOK, RequestShape, WellFormed, OnPath, TokenInv, ClaimHeld, Spending, Request, Live, Issued
<1>4. /\ row \in TokenRow
      /\ row.user = tokens[t].user /\ row.family = tokens[t].family /\ row.parent = t
      /\ row.revoked = FALSE /\ row.usedAt = None
  <2>1. row \in TokenRow
    BY <1>3, NewRowType DEF TokenRow, TypeInv, TypeOK
  <2>. QED BY <2>1 DEF NewRow
<1>5. /\ n \in Tokens /\ ~Issued(n) /\ draftTokens[n] = None
      /\ draftTokens'[n] = [by |-> p, row |-> row] /\ draftTokens'[n] # None
      /\ \A x \in Tokens \ {n} : draftTokens'[x] = draftTokens[x]
  <2>1. draftTokens' = [draftTokens EXCEPT ![n] = [by |-> p, row |-> row]]
    BY <1>1 DEF WriteToken
  <2>2. [by |-> p, row |-> row] \in Draft(TokenRow)
    BY <1>4 DEF Draft
  <2>. QED BY <2>1, <2>2 DEF Fresh, Issued, TypeInv, TypeOK
<1>. HIDE DEF row, t
<1>6. \A x \in Tokens : Mine(p, draftTokens[x]) => Issued(x)
  BY <1>2 DEF TokenInv, TokenDrafts, Mine
<1>7. TokenWriters'
  BY <1>2, <1>3, <1>5 DEF TokenInv, TokenWriters, OnlyMoves, Mine, Spending
<1>8. TokenDrafts'
  BY <1>2, <1>3, <1>4, <1>5 DEF TokenInv, TokenDrafts, OnlyMoves, Spending, Issued, Mine, TypeInv, TypeOK, Draft, t
<1>9. OneInsert'
  BY <1>2, <1>5, <1>6 DEF TokenInv, OneInsert, Issued, Mine
<1>10. ClaimHeld'
  <2>1. \A q \in Requests : Spending(q)' => Spending(q) /\ req'[q] = req[q]
    BY <1>2, <1>3 DEF OnlyMoves, Spending
  <2>2. \A q \in Requests : Spending(q) => req[q].token \in Tokens /\ req[q].token # n
    BY <1>5 DEF TokenInv, ClaimHeld, Mine, TypeInv, TypeOK, Request
  <2>. QED BY <1>2, <1>5, <2>1, <2>2 DEF TokenInv, ClaimHeld, Live, Issued, Mine
<1>11. FamilyIssued' /\ RotationChain' /\ RotatedOnce' /\ OneLivePerFamily'
  BY <1>2 DEF TokenInv, FamilyIssued, RotationChain, RotatedOnce, OneLivePerFamily, Live, Issued
<1>12. MissedClaimIsExplained'
  BY <1>2 DEF TokenInv, MissedClaimIsExplained, OnlyMoves, Claimable, Issued
<1>. QED BY <1>7, <1>8, <1>9, <1>10, <1>11, <1>12 DEF TokenInv

\* revokeFamily and revokeAllForUser revoke a row no transaction has claimed, and keep
\* its family, parent and owner (refresh-tokens.repository.ts:79-105).
LEMMA RevokeRowStep ==
    ASSUME TypeInv, TokenInv, NEW p \in Requests, NEW t \in req[p].scan, NEW label, RevokeRow(p, t, label),
           \/ pc[p] = "replay_revoke" /\ label = "replay_bump"
           \/ pc[p] = "change_revoke" /\ label = "commit"
    PROVE  TokenInv'
<1>. USE NoneAssumption, NoRowAssumption
<1>. DEFINE row == Spent(tokens[t], req[p].at)
<1>1. t \in Tokens /\ Issued(t) /\ tokens[t] \in TokenRow /\ req[p].at \in Nat /\ req[p] \in Request
  BY DEF TypeInv, TypeOK, RequestShape, WellFormed, Request, Issued
<1>2. /\ row \in TokenRow
      /\ row.user = tokens[t].user /\ row.family = tokens[t].family /\ row.parent = tokens[t].parent
      /\ row.revoked = TRUE /\ row.usedAt # None
  BY <1>1, SpentRow
<1>3. /\ draftTokens[t] = None
      /\ draftTokens'[t] = [by |-> p, row |-> row] /\ draftTokens'[t] # None
      /\ \A x \in Tokens \ {t} : draftTokens'[x] = draftTokens[x]
  <2>1. draftTokens' = [draftTokens EXCEPT ![t] = [by |-> p, row |-> row]] /\ draftTokens[t] = None
    BY DEF RevokeRow, WriteToken
  <2>2. [by |-> p, row |-> row] \in Draft(TokenRow)
    BY <1>2 DEF Draft
  <2>. QED BY <1>1, <2>1, <2>2 DEF TypeInv, TypeOK
<1>. HIDE DEF row
<1>4. /\ UNCHANGED tokens /\ OnlyMoves(p)
      /\ pc'[p] \in {"replay_revoke", "change_revoke", "replay_bump", "commit"}
      /\ pc'[p] = "commit" => pc[p] = "change_revoke"
      /\ req'[p].op = req[p].op /\ req'[p].token = req[p].token
      /\ pc[p] = "change_revoke" => req[p].op = "change"
  <2>1. LET s == [req[p] EXCEPT !.scan = @ \ {t}] IN s.op = req[p].op /\ s.token = req[p].token
    BY <1>1, AdvanceScan DEF SameInputs
  <2>2. req' = [req EXCEPT ![p] = [req[p] EXCEPT !.scan = @ \ {t}]]
    BY DEF RevokeRow, TypeInv, TypeOK
  <2>3. UNCHANGED tokens /\ (Goto(p, label) \/ UNCHANGED pc)
    BY DEF RevokeRow, rows
  <2>4. OnPath(req[p].op, pc[p])
    BY DEF TypeInv, RequestShape, WellFormed
  <2>. QED BY <2>1, <2>2, <2>3, <2>4 DEF Goto, OnlyMoves, OnPath, TypeInv, TypeOK
<1>5. ~Spending(p) /\ ~Spending(p)' /\ pc[p] # "commit"
  BY <1>4 DEF Spending
<1>6. TokenWriters'
  BY <1>3, <1>4 DEF TokenInv, TokenWriters, OnlyMoves, Mine, Spending
<1>7. TokenDrafts'
  BY <1>1, <1>2, <1>3, <1>4, <1>5 DEF TokenInv, TokenDrafts, OnlyMoves, Spending, Issued, Mine, TypeInv, TypeOK, Draft
<1>8. OneInsert'
  BY <1>1, <1>3, <1>4 DEF TokenInv, OneInsert, Issued
<1>9. ClaimHeld'
  <2>1. \A q \in Requests : Spending(q)' => Spending(q) /\ req'[q] = req[q]
    BY <1>4, <1>5 DEF OnlyMoves, Spending
  <2>2. \A q \in Requests : Spending(q) => req[q].token \in Tokens /\ req[q].token # t
    BY <1>3 DEF TokenInv, ClaimHeld, Mine, TypeInv, TypeOK, Request
  <2>. QED BY <1>3, <1>4, <2>1, <2>2 DEF TokenInv, ClaimHeld, Live, Issued, Mine
<1>10. FamilyIssued' /\ RotationChain' /\ RotatedOnce' /\ OneLivePerFamily'
  BY <1>4 DEF TokenInv, FamilyIssued, RotationChain, RotatedOnce, OneLivePerFamily, Live, Issued
<1>11. MissedClaimIsExplained'
  BY <1>4 DEF TokenInv, MissedClaimIsExplained, OnlyMoves, Claimable, Issued
<1>. QED BY <1>6, <1>7, <1>8, <1>9, <1>10, <1>11 DEF TokenInv

\* What the commit of p makes of each row: rows p has not written stay, rows it has
\* superseded are revoked, and at most one row, the successor of its token, is new.
LEMMA CommittedRows ==
    ASSUME TypeInv, TokenInv, NEW p \in Requests, Commit(p), NEW t \in Tokens
    PROVE  /\ ~Mine(p, draftTokens[t]) => tokens'[t] = tokens[t] /\ draftTokens'[t] = draftTokens[t]
           /\ Mine(p, draftTokens[t]) => draftTokens'[t] = None /\ tokens'[t] \in TokenRow
           /\ Mine(p, draftTokens[t]) /\ Issued(t) =>
                 /\ tokens'[t].user = tokens[t].user
                 /\ tokens'[t].family = tokens[t].family
                 /\ tokens'[t].parent = tokens[t].parent
                 /\ tokens'[t].revoked /\ tokens'[t].usedAt # None
                 /\ req[p].op = "refresh" => t = req[p].token
           /\ Mine(p, draftTokens[t]) /\ ~Issued(t) =>
                 /\ req[p].op = "refresh"
                 /\ tokens'[t].parent = req[p].token
                 /\ tokens'[t].family = tokens[req[p].token].family
                 /\ tokens'[t].user = tokens[req[p].token].user
                 /\ ~tokens'[t].revoked /\ tokens'[t].usedAt = None
<1>1. /\ tokens'[t] = IF Mine(p, draftTokens[t]) THEN draftTokens[t].row ELSE tokens[t]
      /\ draftTokens'[t] = IF Mine(p, draftTokens[t]) THEN None ELSE draftTokens[t]
      /\ pc[p] = "commit"
  BY DEF Commit, Discard
<1>2. Mine(p, draftTokens[t]) => draftTokens[t].row \in TokenRow
  BY DEF Mine, TypeInv, TypeOK, Draft
<1>3. req[p].op = "refresh" => Spending(p)
  BY <1>1 DEF Spending
<1>4. draftTokens[t] # None =>
        LET row == draftTokens[t].row  q == draftTokens[t].by IN
        IF Issued(t)
        THEN /\ row.user = tokens[t].user
             /\ row.family = tokens[t].family
             /\ row.parent = tokens[t].parent
             /\ row.revoked /\ row.usedAt # None
             /\ Spending(q) => t = req[q].token
        ELSE /\ pc[q] = "commit" /\ req[q].op = "refresh"
             /\ row.parent = req[q].token
             /\ row.family = tokens[req[q].token].family
             /\ row.user = tokens[req[q].token].user
             /\ ~row.revoked /\ row.usedAt = None
  BY DEF TokenInv, TokenDrafts
<1>. QED BY <1>1, <1>2, <1>3, <1>4 DEF Mine

\* The commit of any transaction, whatever else is under way, keeps the chains of
\* rotation: the claimed token is revoked in the same instant its successor appears.
LEMMA CommitStep ==
    ASSUME TypeInv, TokenInv, NEW p \in Requests, Commit(p)
    PROVE  TokenInv'
<1>. USE NoneAssumption, NoRowAssumption
<1>. DEFINE c == req[p].token
            New(t) == Mine(p, draftTokens[t]) /\ ~Issued(t)
<1>1. \A t \in Tokens :
         /\ Issued(t) => /\ Issued(t)'
                         /\ tokens'[t].user = tokens[t].user
                         /\ tokens'[t].family = tokens[t].family
                         /\ tokens'[t].parent = tokens[t].parent
                         /\ tokens[t].revoked => tokens'[t].revoked
                         /\ tokens'[t] = tokens[t] \/ (tokens'[t].revoked /\ tokens'[t].usedAt # None)
         /\ Issued(t)' /\ ~Issued(t) => New(t)
  BY CommittedRows DEF Issued, TypeInv, TypeOK, TokenRow
<1>2. \A t \in Tokens : New(t) =>
         /\ Issued(t)'
         /\ c \in Tokens /\ Live(c) /\ Mine(p, draftTokens[c]) /\ tokens'[c].revoked
         /\ tokens'[t].parent = c
         /\ tokens'[t].family = tokens[c].family
         /\ tokens'[t].user = tokens[c].user
         /\ ~tokens'[t].revoked /\ tokens'[t].usedAt = None
  <2>1. req[p].op = "refresh" => Spending(p)
    BY DEF Commit, Spending
  <2>2. Spending(p) => c \in Tokens /\ Live(c) /\ Mine(p, draftTokens[c])
    BY DEF TokenInv, ClaimHeld, TypeInv, TypeOK, Request
  <2>. QED BY <2>1, <2>2, CommittedRows DEF Issued, Live
<1>3. \A x, y \in Tokens : New(x) /\ New(y) => x = y
  BY DEF TokenInv, OneInsert, Mine
<1>4. \A t \in Tokens : Issued(t) => tokens[t].family \in Tokens /\ tokens[t].parent \in Tokens \cup {None}
  BY DEF Issued, TypeInv, TypeOK, TokenRow
<1>5. OnlyMoves(p) /\ pc'[p] = "idle"
  BY DEF Commit, Answer, Goto, OnlyMoves, TypeInv, TypeOK
<1>6. \A t \in Tokens : draftTokens'[t] # None =>
          /\ draftTokens'[t] = draftTokens[t]
          /\ draftTokens[t].by \in Requests \ {p}
          /\ tokens'[t] = tokens[t]
  BY CommittedRows DEF TypeInv, TypeOK, Draft, Mine
<1>7. \A q \in Requests \ {p} : Spending(q) =>
          /\ req[q].token \in Tokens /\ Live(req[q].token)
          /\ tokens'[req[q].token] = tokens[req[q].token]
          /\ draftTokens'[req[q].token] = draftTokens[req[q].token]
          /\ Mine(q, draftTokens[req[q].token])
  <2>1. \A q \in Requests : Spending(q) =>
           req[q].token \in Tokens /\ Live(req[q].token) /\ Mine(q, draftTokens[req[q].token])
    BY DEF TokenInv, ClaimHeld, TypeInv, TypeOK, Request
  <2>. QED BY <2>1, CommittedRows DEF Mine
<1>. HIDE DEF c, New
<1>8. TokenWriters'
  BY <1>5, <1>6 DEF TokenInv, TokenWriters, OnlyMoves, Mine, Spending
<1>9. TokenDrafts'
  BY <1>5, <1>6, <1>7 DEF TokenInv, TokenDrafts, OnlyMoves, Spending, Issued
<1>10. OneInsert'
  BY <1>6 DEF TokenInv, OneInsert, Issued
<1>11. ClaimHeld'
  BY <1>5, <1>7 DEF TokenInv, ClaimHeld, OnlyMoves, Spending, Live, Issued, Mine
<1>12. FamilyIssued'
  BY <1>1, <1>2, <1>4 DEF TokenInv, FamilyIssued, Issued, Live
<1>13. RotationChain'
  BY <1>1, <1>2, <1>4 DEF TokenInv, RotationChain, Issued, Live
<1>14. RotatedOnce'
  BY <1>1, <1>2, <1>3, <1>4 DEF TokenInv, RotatedOnce, RotationChain, Issued, Live
<1>15. OneLivePerFamily'
  BY <1>1, <1>2, <1>3, <1>4 DEF TokenInv, OneLivePerFamily, Issued, Live
<1>16. MissedClaimIsExplained'
  <2>1. \A q \in Requests : pc'[q] = "refresh_status" =>
           q # p /\ pc[q] = "refresh_status" /\ req'[q] = req[q] /\ req[q].token \in Tokens \cup {None}
           /\ (req[q].token # None => Issued(req[q].token))
    BY <1>5 DEF OnlyMoves, TypeInv, TypeOK, Request, RequestShape, WellFormed
  <2>. QED BY <1>1, <2>1 DEF TokenInv, MissedClaimIsExplained, Claimable, Issued
<1>. QED BY <1>8, <1>9, <1>10, <1>11, <1>12, <1>13, <1>14, <1>15, <1>16 DEF TokenInv

\* With no token issued and no draft the invariant of tokens holds.
LEMMA InitTokenInv == Init => TokenInv
<1>. USE DEF Issued, Live, Spending, Mine
<1>. QED BY DEF Init, TokenInv, TokenWriters, TokenDrafts, OneInsert, ClaimHeld, FamilyIssued,
            RotationChain, RotatedOnce, OneLivePerFamily, MissedClaimIsExplained

\* A statement of a request that has written no token leaves the invariant of tokens.
LEMMA QuietStep ==
    ASSUME TypeOK, TokenInv, NEW p \in Requests, OnlyMoves(p),
           UNCHANGED <<tokens, draftTokens>>,
           pc[p] \notin {"refresh_owner", "refresh_create", "replay_revoke", "replay_bump",
                         "rollback", "change_revoke", "commit"},
           ~Spending(p)',
           pc'[p] = "refresh_status" => ~Claimable(req[p].token, req[p].at)'
    PROVE  TokenInv'
<1>1. \A t \in Tokens : ~Mine(p, draftTokens[t])
  BY DEF TokenInv, TokenWriters, Spending
<1>2. draftTokens' = [t \in Tokens |-> IF Mine(p, draftTokens[t]) THEN None ELSE draftTokens[t]]
  BY <1>1 DEF TypeOK
<1>. QED BY <1>2, DiscardStep

\* Every step of the service keeps the invariant of tokens.
LEMMA NextTokenInv == TypeInv /\ TokenInv /\ [Next]_vars => TokenInv'
<1>. SUFFICES ASSUME TypeInv, TokenInv, [Next]_vars PROVE TokenInv'
  OBVIOUS
<1>. USE DEF rows, drafts
<1>0. TypeOK
  BY DEF TypeInv
<1>1. ASSUME NEW p \in Requests, Receive(p) PROVE TokenInv'
  <2>1. PICK label \in Labels, r \in Request : Begin(p, label, r) /\ label \in Entries
    BY <1>0, <1>1, Received
  <2>2. pc[p] = "idle" /\ pc'[p] = label /\ OnlyMoves(p) /\ UNCHANGED <<tokens, draftTokens>>
    BY <1>0, <2>1 DEF Begin, Goto, OnlyMoves, TypeOK
  <2>. QED BY <1>0, <2>1, <2>2, QuietStep DEF Entries, Spending
<1>2. ASSUME NEW p \in Requests, Step(p) PROVE TokenInv'
  <2>1. CASE LoginCreate(p)
    BY <2>1, LoginCreateStep
  <2>2. CASE Logout(p)
    BY <2>2, LogoutStep
  <2>3. CASE RefreshClaim(p)
    <3>1. CASE pc'[p] = "refresh_owner"
      BY <2>3, <3>1, ClaimStep
    <3>2. CASE pc'[p] # "refresh_owner"
      <4>1. /\ pc[p] = "refresh_claim" /\ pc'[p] = "refresh_status" /\ OnlyMoves(p)
            /\ UNCHANGED <<tokens, draftTokens, req>> /\ ~Claimable(req[p].token, req[p].at)
        BY <1>0, <2>3, <3>2 DEF RefreshClaim, Goto, OnlyMoves, TypeOK
      <4>2. ~Claimable(req[p].token, req[p].at)'
        BY <4>1 DEF Claimable, Issued
      <4>. QED BY <1>0, <4>1, <4>2, QuietStep DEF Spending
    <3>. QED BY <3>1, <3>2
  <2>4. CASE RefreshOwner(p)
    <3>1. /\ pc[p] = "refresh_owner" /\ pc'[p] \in {"refresh_create", "rollback"} /\ OnlyMoves(p)
          /\ UNCHANGED <<tokens, draftTokens>>
          /\ req'[p].token = req[p].token /\ req'[p].op = req[p].op
      BY <1>0, <2>4 DEF RefreshOwner, Goto, OnlyMoves, TypeOK, Request
    <3>. QED BY <1>0, <3>1, MoveStep DEF Spending
  <2>5. CASE RefreshCreate(p)
    BY <2>5, RefreshCreateStep
  <2>6. CASE ReplayRevoke(p)
    BY <2>6, RevokeRowStep DEF ReplayRevoke
  <2>7. CASE ChangeRevoke(p)
    BY <2>7, RevokeRowStep DEF ChangeRevoke
  <2>8. CASE ReplayBump(p)
    <3>1. /\ pc[p] = "replay_bump" /\ pc'[p] = "rollback" /\ OnlyMoves(p)
          /\ UNCHANGED <<tokens, draftTokens, req>>
      BY <1>0, <2>8 DEF ReplayBump, WriteUser, Goto, OnlyMoves, TypeOK
    <3>. QED BY <1>0, <3>1, MoveStep DEF Spending
  <2>9. CASE Commit(p)
    BY <2>9, CommitStep
  <2>10. CASE Rollback(p)
    <3>1. pc'[p] = "idle" /\ OnlyMoves(p) /\ UNCHANGED tokens
      BY <1>0, <2>10 DEF Rollback, Answer, Goto, OnlyMoves, TypeOK
    <3>. QED BY <1>0, <2>10, <3>1, DiscardStep DEF Rollback, Discard, Spending
  <2>11. CASE \/ LoginRead(p) \/ RefreshStatus(p) \/ UserLookup(p) \/ UserRead(p) \/ UserFill(p)
              \/ ChangeUpdate(p) \/ ChangeScan(p) \/ PatchWrite(p) \/ PatchReload(p)
              \/ RemoveCheck(p) \/ RemoveWrite(p)
    <3>. DEFINE From == {"login_read", "refresh_status", "user_lookup", "user_read", "user_fill",
                         "change_update", "change_scan", "patch_write", "patch_reload",
                         "remove_check", "remove_write"}
                To == {"idle", "login_create", "replay_revoke", "user_read", "user_fill", "change_update",
                       "change_scan", "change_revoke", "patch_reload", "not_found", "remove_write"}
    <3>1. UNCHANGED <<tokens, draftTokens>> /\ pc[p] \in From
      BY <2>11 DEF LoginRead, RefreshStatus, UserLookup, UserRead, UserFill, ChangeUpdate, ChangeScan,
         PatchWrite, PatchReload, RemoveCheck, RemoveWrite, WriteUser
    <3>2. OnlyMoves(p)
      BY <1>0, <2>11 DEF LoginRead, RefreshStatus, UserLookup, UserRead, UserFill, ChangeUpdate, ChangeScan,
         PatchWrite, PatchReload, RemoveCheck, RemoveWrite, Proceed, Answer, Goto, OnlyMoves, TypeOK
    <3>3. \/ pc'[p] \in To
          \/ pc'[p] = "commit" /\ pc[p] \in {"patch_reload", "remove_write"} /\ UNCHANGED req
      <4>0. \A label : Goto(p, label) => pc'[p] = label
        BY <1>0 DEF Goto, TypeOK
      <4>1. CASE \/ LoginRead(p) \/ RefreshStatus(p) \/ UserLookup(p) \/ UserRead(p) \/ UserFill(p)
                 \/ ChangeUpdate(p) \/ ChangeScan(p) \/ PatchWrite(p) \/ RemoveCheck(p)
        <5>1. \E label \in To : Goto(p, label)
          BY <4>1 DEF LoginRead, RefreshStatus, UserLookup, UserRead, UserFill, ChangeUpdate, ChangeScan,
             PatchWrite, RemoveCheck, Proceed, Answer
        <5>. QED BY <4>0, <5>1
      <4>3. CASE RemoveWrite(p)
        BY <4>0, <4>3 DEF RemoveWrite
      <4>2. CASE PatchReload(p)
        <5>1. pc'[p] = "commit" \/ pc'[p] = "not_found"
          BY <4>0, <4>2 DEF PatchReload
        <5>. QED BY <4>2, <5>1 DEF PatchReload
      <4>. QED BY <2>11, <4>1, <4>2, <4>3
    <3>4. pc[p] \in {"patch_reload", "remove_write"} => req[p].op # "refresh"
      BY DEF TypeInv, RequestShape, WellFormed, OnPath
    <3>. QED BY <1>0, <3>1, <3>2, <3>3, <3>4, QuietStep DEF Spending
  <2>. QED BY <1>2, <2>1, <2>2, <2>3, <2>4, <2>5, <2>6, <2>7, <2>8, <2>9, <2>10, <2>11 DEF Step
<1>3. ASSUME NEW p \in Requests, Fail(p) PROVE TokenInv'
  <2>1. pc'[p] = "idle" /\ OnlyMoves(p) /\ UNCHANGED tokens
    BY <1>0, <1>3 DEF Fail, Answer, Goto, OnlyMoves, TypeOK
  <2>. QED BY <1>0, <1>3, <2>1, DiscardStep DEF Fail, Discard, Spending
<1>4. CASE (\E u \in Users : Evict(u)) \/ Tick \/ UNCHANGED vars
  <2>1. UNCHANGED <<pc, req, tokens, draftTokens>>
    BY <1>4 DEF Evict, Tick, vars
  <2>. QED BY <2>1 DEF TokenInv, TokenWriters, TokenDrafts, OneInsert, ClaimHeld, FamilyIssued, RotationChain,
              RotatedOnce, OneLivePerFamily, MissedClaimIsExplained, Issued, Live, Spending, Claimable, Mine
<1>. QED BY <1>1, <1>2, <1>3, <1>4 DEF Next

\* Every variable keeps its type in every reachable state of the service.
THEOREM TypeCorrect == Spec => []TypeOK
<1>1. Init => TypeInv
  BY InitType
<1>2. TypeInv /\ [Next]_vars => TypeInv'
  BY NextType, NextShape DEF TypeInv
<1>3. TypeInv => TypeOK
  BY DEF TypeInv
<1>. QED BY <1>1, <1>2, <1>3, PTL DEF Spec

\* The inductive invariant of tokens holds in every reachable state.
THEOREM TokensInvariant == Spec => [](TypeInv /\ TokenInv)
<1>1. Init => TypeInv /\ TokenInv
  BY InitType, InitTokenInv
<1>2. (TypeInv /\ TokenInv) /\ [Next]_vars => (TypeInv /\ TokenInv)'
  BY NextType, NextShape, NextTokenInv DEF TypeInv
<1>. QED BY <1>1, <1>2, PTL DEF Spec

\* For any number of tokens, requests and replicas: rotated tokens form chains within
\* their family and for their owner (auth.service.ts:296-302).
THEOREM RotationsFormChains == Spec => []RotationChain
<1>1. TokenInv => RotationChain
  BY DEF TokenInv
<1>. QED BY <1>1, TokensInvariant, PTL

\* No token ever has two successors (auth.service.ts:266-283).
THEOREM RotationIsSafe == Spec => []RotatedOnce
<1>1. TokenInv => RotatedOnce
  BY DEF TokenInv
<1>. QED BY <1>1, TokensInvariant, PTL

\* No family ever has two usable tokens, committed from whatever rotations, logouts,
\* replays and password changes (auth.service.ts:258-341).
THEOREM FamiliesHaveOneHead == Spec => []OneLivePerFamily
<1>1. TokenInv => OneLivePerFamily
  BY DEF TokenInv
<1>. QED BY <1>1, TokensInvariant, PTL

\* The claim of refresh misses only rows that are missing, expired or spent, also when
\* the row is read a moment later (auth.service.ts:304-339).
THEOREM MissesAreExplained == Spec => []MissedClaimIsExplained
<1>1. TokenInv => MissedClaimIsExplained
  BY DEF TokenInv
<1>. QED BY <1>1, TokensInvariant, PTL

\* Committed rows of tokens change only in the autocommitted statements of login and
\* logout and in commits.
LEMMA RowsChange ==
    ASSUME TypeInv, TokenInv, [Next]_vars
    PROVE  \/ UNCHANGED tokens
           \/ \E p \in Requests : LoginCreate(p) \/ Logout(p) \/ Commit(p)
<1>. USE DEF rows
<1>1. ASSUME NEW p \in Requests, Receive(p) PROVE UNCHANGED tokens
  BY <1>1 DEF Receive, ReceiveLogin, ReceiveRefresh, ReceiveLogout, ReceiveGet,
       ReceiveChangePassword, ReceivePatch, ReceiveRemove, Begin
<1>2. ASSUME NEW p \in Requests, Step(p), ~(LoginCreate(p) \/ Logout(p) \/ Commit(p))
      PROVE  UNCHANGED tokens
  BY <1>2 DEF Step, LoginRead, RefreshClaim, RefreshOwner, RefreshCreate, RefreshStatus, ReplayRevoke,
     RevokeRow, ReplayBump, UserLookup, UserRead, UserFill, ChangeUpdate, ChangeScan, ChangeRevoke,
     PatchWrite, PatchReload, RemoveCheck, RemoveWrite, Rollback
<1>. QED BY <1>1, <1>2 DEF Next, Fail, Evict, Tick, vars

\* No step changes owner, family or parent of a committed token, or un-revokes it.
LEMMA RowsOnlyWorsen ==
    ASSUME TypeInv, TokenInv, [Next]_vars, NEW t \in Tokens, Issued(t)
    PROVE  /\ tokens'[t] # None
           /\ tokens'[t].family = tokens[t].family
           /\ tokens'[t].parent = tokens[t].parent
           /\ tokens'[t].user = tokens[t].user
           /\ tokens[t].revoked => tokens'[t].revoked
<1>1. tokens'[t] # None
  BY IssuedForever DEF TypeInv
<1>2. CASE UNCHANGED tokens
  BY <1>1, <1>2
<1>3. ASSUME NEW p \in Requests, LoginCreate(p) PROVE tokens'[t] = tokens[t]
  BY <1>3 DEF LoginCreate, Fresh, Issued, TypeInv, TypeOK
<1>4. ASSUME NEW p \in Requests, Logout(p)
      PROVE  tokens'[t] = tokens[t] \/ tokens'[t] = Spent(tokens[t], req[p].at)
  BY <1>4 DEF Logout, TypeInv, TypeOK
<1>5. \A p \in Requests :
         /\ Spent(tokens[t], req[p].at).family = tokens[t].family
         /\ Spent(tokens[t], req[p].at).parent = tokens[t].parent
         /\ Spent(tokens[t], req[p].at).user = tokens[t].user
         /\ Spent(tokens[t], req[p].at).revoked
  BY SpentRow DEF TypeInv, TypeOK, Request, Issued
<1>6. CASE \E p \in Requests : Commit(p)
  BY <1>1, <1>6, CommittedRows
<1>. QED BY <1>1, <1>2, <1>3, <1>4, <1>5, <1>6, RowsChange

\* A committed token keeps its owner, family and parent and is never un-revoked,
\* whichever rotations, logouts, password changes and rollbacks race.
THEOREM RevokedForGood == Spec => NoResurrection
<1>1. TypeInv /\ TokenInv /\ [Next]_vars =>
        \A t \in Tokens : Issued(t) =>
          /\ tokens'[t] # None
          /\ tokens'[t].family = tokens[t].family
          /\ tokens'[t].parent = tokens[t].parent
          /\ tokens'[t].user = tokens[t].user
          /\ tokens[t].revoked => tokens'[t].revoked
  BY RowsOnlyWorsen
<1>. QED BY <1>1, TokensInvariant, PTL DEF Spec, NoResurrection

\* A refresh that ends, successful or a detected replay, has revoked no committed
\* token but its own: the revocation of the family is rolled back with the exception
\* (auth.service.ts:325-337).
THEOREM ReplayLeavesFamilies == Spec => RefreshRevokesItsTokenOnly
<1>1. ASSUME TypeInv, TokenInv, [Next]_vars, NEW p \in Requests, NEW t \in Tokens,
             req[p].op = "refresh", req'[p].op = "none", Live(t), tokens'[t].revoked
      PROVE  t = req[p].token
  <2>1. PICK q \in Requests : LoginCreate(q) \/ Logout(q) \/ Commit(q)
    BY <1>1, RowsChange DEF Live
  <2>2. q = p
    BY <1>1, <2>1 DEF LoginCreate, Logout, Commit, Answer, TypeInv, TypeOK
  <2>3. Commit(p)
    BY <1>1, <2>1, <2>2 DEF LoginCreate, Logout, TypeInv, RequestShape, WellFormed, OnPath
  <2>. QED BY <1>1, <2>3, CommittedRows DEF Live
<1>2. TypeInv /\ TokenInv /\ [Next]_vars =>
        \A p \in Requests, t \in Tokens :
          /\ req[p].op = "refresh" /\ req'[p].op = "none"
          /\ Live(t) /\ tokens'[t].revoked
          => t = req[p].token
  BY <1>1
<1>. QED BY <1>2, TokensInvariant, PTL DEF Spec, RefreshRevokesItsTokenOnly

-----------------------------------------------------------------------------
(* Sessions implements TokenFamilies.                                      *)

\* The current token of a family is its usable one, which OneLivePerFamily makes unique.
LEMMA CurrentIs ==
    OneLivePerFamily =>
        \A f \in Tokens :
            /\ \A t \in Tokens : Live(t) /\ tokens[t].family = f => CurrentToken(f) = t
            /\ (\A t \in Tokens : ~(Live(t) /\ tokens[t].family = f)) => CurrentToken(f) = None
<1>. SUFFICES ASSUME OneLivePerFamily, NEW f \in Tokens
              PROVE  /\ \A t \in Tokens : Live(t) /\ tokens[t].family = f => CurrentToken(f) = t
                     /\ (\A t \in Tokens : ~(Live(t) /\ tokens[t].family = f)) => CurrentToken(f) = None
  OBVIOUS
<1>1. ASSUME NEW t \in Tokens, Live(t), tokens[t].family = f PROVE CurrentToken(f) = t
  <2>1. t \in Heads(f) /\ \A x \in Tokens : x \in Heads(f) => x = t
    BY <1>1 DEF Heads, OneLivePerFamily
  <2>2. (CHOOSE x \in Tokens : x \in Heads(f)) = t
    BY <2>1
  <2>. QED BY <2>1, <2>2 DEF CurrentToken
<1>2. ASSUME \A t \in Tokens : ~(Live(t) /\ tokens[t].family = f) PROVE CurrentToken(f) = None
  <2>1. Heads(f) = {}
    BY <1>2 DEF Heads
  <2>. QED BY <2>1 DEF CurrentToken
<1>. QED BY <1>1, <1>2

\* Opening is the insert of login, rotating the commit of a refresh, and every other
\* step at most revokes.
LEMMA FamilySteps ==
    ASSUME TypeInv, TokenInv, [Next]_vars
    PROVE  \/ \E n \in Tokens :
                 /\ ~Issued(n) /\ Issued(n)' /\ Live(n)' /\ tokens'[n].family = n
                 /\ \A t \in Tokens \ {n} : tokens'[t] = tokens[t]
           \/ \E n, c \in Tokens :
                 /\ ~Issued(n) /\ Issued(n)' /\ Live(n)' /\ Live(c) /\ ~Live(c)'
                 /\ Issued(c)' /\ tokens'[c].family = tokens[c].family
                 /\ tokens'[n].family = tokens[c].family
                 /\ \A t \in Tokens \ {n, c} : tokens'[t] = tokens[t]
           \/ \A t \in Tokens : /\ Issued(t)' <=> Issued(t)
                                /\ Issued(t) => tokens'[t].family = tokens[t].family
                                /\ Live(t)' => Live(t)
<1>. USE NoneAssumption, NoRowAssumption
<1>1. \A t \in Tokens : Issued(t) => /\ tokens'[t] # None
                                     /\ tokens'[t].family = tokens[t].family
                                     /\ tokens[t].revoked => tokens'[t].revoked
  BY RowsOnlyWorsen
<1>2. CASE UNCHANGED tokens
  BY <1>2 DEF Issued, Live
<1>3. ASSUME NEW p \in Requests, LoginCreate(p)
      PROVE  \E n \in Tokens :
                 /\ ~Issued(n) /\ Issued(n)' /\ Live(n)' /\ tokens'[n].family = n
                 /\ \A t \in Tokens \ {n} : tokens'[t] = tokens[t]
  <2>1. PICK n \in Fresh : tokens' = [tokens EXCEPT ![n] = NewRow(req[p].user, n, None)]
    BY <1>3 DEF LoginCreate
  <2>2. NewRow(req[p].user, n, None) \in TokenRow /\ NewRow(req[p].user, n, None).family = n
        /\ NewRow(req[p].user, n, None).revoked = FALSE
    <3>1. req[p].user \in Users
      BY <1>3 DEF TypeInv, RequestShape, WellFormed, OnPath, LoginCreate
    <3>. QED BY <3>1, NewRowType DEF NewRow, Fresh, TypeInv, TypeOK
  <2>3. n \in Tokens /\ tokens[n] = None /\ tokens'[n] = NewRow(req[p].user, n, None)
        /\ \A t \in Tokens \ {n} : tokens'[t] = tokens[t]
    BY <2>1 DEF Fresh, TypeInv, TypeOK
  <2>. QED BY <2>2, <2>3 DEF Issued, Live
<1>4. ASSUME NEW p \in Requests, Logout(p)
      PROVE  \A t \in Tokens : Issued(t)' <=> Issued(t)
  <2>1. req[p].token \in Tokens /\ Issued(req[p].token)
    BY <1>4 DEF Logout, TypeInv, TypeOK, RequestShape, WellFormed, Request, Issued
  <2>2. \A t \in Tokens : t # req[p].token => tokens'[t] = tokens[t]
    BY <1>4 DEF Logout, TypeInv, TypeOK
  <2>. QED BY <1>1, <2>1, <2>2 DEF Issued
<1>5. ASSUME NEW p \in Requests, Commit(p), NEW n \in Tokens, Mine(p, draftTokens[n]), ~Issued(n)
      PROVE  \E c \in Tokens :
             /\ Issued(n)' /\ Live(n)' /\ Live(c) /\ ~Live(c)'
             /\ Issued(c)' /\ tokens'[c].family = tokens[c].family
             /\ tokens'[n].family = tokens[c].family
             /\ \A t \in Tokens \ {n, c} : tokens'[t] = tokens[t]
  <2>1. req[p].op = "refresh"
    BY <1>5, CommittedRows
  <2>2. PICK c \in Tokens : c = req[p].token /\ Live(c) /\ Mine(p, draftTokens[c])
    <3>1. Spending(p)
      BY <1>5, <2>1 DEF Spending, Commit
    <3>. QED BY <3>1 DEF TokenInv, ClaimHeld, TypeInv, TypeOK, Request
  <2>3. /\ tokens'[n].family = tokens[c].family
        /\ ~tokens'[n].revoked /\ tokens'[n] \in TokenRow
    BY <1>5, <2>2, CommittedRows
  <2>4. tokens'[c].revoked
    BY <1>5, <2>2, CommittedRows DEF Live
  <2>5. \A t \in Tokens \ {n, c} : ~Mine(p, draftTokens[t])
    <3>1. \A t \in Tokens : Mine(p, draftTokens[t]) /\ Issued(t) => t = c
      BY <1>5, <2>1, <2>2, CommittedRows
    <3>2. \A t \in Tokens : Mine(p, draftTokens[t]) /\ ~Issued(t) => t = n
      BY <1>5 DEF TokenInv, OneInsert, Mine
    <3>. QED BY <3>1, <3>2
  <2>6. \A t \in Tokens \ {n, c} : tokens'[t] = tokens[t]
    BY <1>5, <2>5, CommittedRows
  <2>. QED BY <1>1, <2>3, <2>2, <2>4, <2>6 DEF Issued, Live
<1>6. ASSUME NEW p \in Requests, Commit(p),
             \A n \in Tokens : Mine(p, draftTokens[n]) => Issued(n)
      PROVE  \A t \in Tokens : Issued(t)' <=> Issued(t)
  BY <1>1, <1>6, CommittedRows DEF Issued
<1>7. ASSUME \A t \in Tokens : Issued(t)' <=> Issued(t)
      PROVE  \A t \in Tokens : /\ Issued(t)' <=> Issued(t)
                               /\ Issued(t) => tokens'[t].family = tokens[t].family
                               /\ Live(t)' => Live(t)
  BY <1>1, <1>7 DEF Live
<1>8. CASE \E p \in Requests : Commit(p)
  <2>1. PICK p \in Requests : Commit(p)
    BY <1>8
  <2>2. CASE \E n \in Tokens : Mine(p, draftTokens[n]) /\ ~Issued(n)
    BY <1>5, <2>1, <2>2
  <2>. QED BY <1>6, <1>7, <2>1, <2>2
<1>. QED BY <1>2, <1>3, <1>4, <1>7, <1>8, RowsChange

\* Logins open families, refreshes rotate them, everything else at most revokes: for any
\* numbers of tokens, requests and replicas Sessions implements TokenFamilies
\* (auth.service.ts:226-354, refresh-tokens.repository.ts:36-105).
THEOREM SessionsRotateFamilies == Spec => ImplementsTokenFamilies
<1>. USE NoneAssumption
<1>1. Init => Families!TFInit
  <2>. SUFFICES ASSUME Init PROVE IssuedTokens = {} /\ \A f \in Tokens : CurrentToken(f) = None
    BY DEF Families!TFInit
  <2>1. \A t \in Tokens : ~Issued(t)
    BY DEF Init, Issued
  <2>. QED BY <2>1 DEF IssuedTokens, CurrentToken, Heads, Live
<1>2. (\A f \in Tokens :
          /\ \A t \in Tokens : Live(t) /\ tokens[t].family = f => CurrentToken(f) = t
          /\ (\A t \in Tokens : ~(Live(t) /\ tokens[t].family = f)) => CurrentToken(f) = None)'
      \/ ~(OneLivePerFamily)'
  BY CurrentIs, PTL
<1>3. ASSUME TypeInv, TokenInv, [Next]_vars, TokenInv' PROVE Families!TFNext
  <2>. DEFINE was == [f \in Tokens |-> CurrentToken(f)]
              is == [f \in Tokens |-> CurrentToken(f)']
  <2>1. \A f \in Tokens :
            /\ \A t \in Tokens : Live(t) /\ tokens[t].family = f => CurrentToken(f) = t
            /\ (\A t \in Tokens : ~(Live(t) /\ tokens[t].family = f)) => CurrentToken(f) = None
    BY <1>3, CurrentIs DEF TokenInv
  <2>2. \A f \in Tokens :
            /\ \A t \in Tokens : Live(t)' /\ tokens'[t].family = f => CurrentToken(f)' = t
            /\ (\A t \in Tokens : ~(Live(t)' /\ tokens'[t].family = f)) => CurrentToken(f)' = None
    BY <1>2, <1>3 DEF TokenInv
  <2>3. \A t \in Tokens : Issued(t) => tokens[t].family \in Tokens
    BY <1>3 DEF Issued, TypeInv, TypeOK, TokenRow
  <2>4. CASE \E n \in Tokens :
                 /\ ~Issued(n) /\ Issued(n)' /\ Live(n)' /\ tokens'[n].family = n
                 /\ \A t \in Tokens \ {n} : tokens'[t] = tokens[t]
    <3>1. PICK n \in Tokens :
                 /\ ~Issued(n) /\ Issued(n)' /\ Live(n)' /\ tokens'[n].family = n
                 /\ \A t \in Tokens \ {n} : tokens'[t] = tokens[t]
      BY <2>4
    <3>2. n \notin IssuedTokens /\ IssuedTokens' = IssuedTokens \cup {n}
      BY <3>1 DEF IssuedTokens, Issued
    <3>3. CurrentToken(n)' = n
      BY <2>2, <3>1
    <3>4. ASSUME NEW f \in Tokens \ {n} PROVE CurrentToken(f)' = CurrentToken(f)
      <4>1. \A t \in Tokens : (Live(t)' /\ tokens'[t].family = f) <=> (Live(t) /\ tokens[t].family = f)
        BY <3>1 DEF Live, Issued
      <4>. QED BY <2>1, <2>2, <4>1
    <3>5. Families!Open(n)
      BY <3>2, <3>3, <3>4 DEF Families!Open
    <3>. QED BY <3>5 DEF Families!TFNext
  <2>5. CASE \E n, c \in Tokens :
                 /\ ~Issued(n) /\ Issued(n)' /\ Live(n)' /\ Live(c) /\ ~Live(c)'
                 /\ Issued(c)' /\ tokens'[c].family = tokens[c].family
                 /\ tokens'[n].family = tokens[c].family
                 /\ \A t \in Tokens \ {n, c} : tokens'[t] = tokens[t]
    <3>1. PICK n \in Tokens, c \in Tokens :
                 /\ ~Issued(n) /\ Issued(n)' /\ Live(n)' /\ Live(c) /\ ~Live(c)'
                 /\ Issued(c)' /\ tokens'[c].family = tokens[c].family
                 /\ tokens'[n].family = tokens[c].family
                 /\ \A t \in Tokens \ {n, c} : tokens'[t] = tokens[t]
      BY <2>5
    <3>. DEFINE g == tokens[c].family
    <3>2. n \notin IssuedTokens /\ IssuedTokens' = IssuedTokens \cup {n}
      BY <3>1 DEF IssuedTokens, Issued, Live
    <3>3. g \in Tokens /\ CurrentToken(g) = c
      BY <2>1, <2>3, <3>1 DEF Live
    <3>4. ASSUME NEW f \in Tokens, f # g PROVE CurrentToken(f)' = CurrentToken(f)
      <4>1. \A t \in Tokens : (Live(t)' /\ tokens'[t].family = f) <=> (Live(t) /\ tokens[t].family = f)
        BY <3>1, <3>4 DEF Live, Issued
      <4>. QED BY <2>1, <2>2, <4>1
    <3>5. PICK h \in Tokens : h = g
      BY <3>3
    <3>6. CurrentToken(h)' = n
      BY <2>2, <3>1, <3>5
    <3>7. Families!Rotate(h, n)
      BY <3>2, <3>3, <3>4, <3>5, <3>6 DEF Families!Rotate
    <3>. QED BY <3>7 DEF Families!TFNext
  <2>6. CASE \A t \in Tokens : /\ Issued(t)' <=> Issued(t)
                               /\ Issued(t) => tokens'[t].family = tokens[t].family
                               /\ Live(t)' => Live(t)
    <3>1. IssuedTokens' = IssuedTokens
      BY <2>6 DEF IssuedTokens
    <3>2. PICK F \in SUBSET Tokens :
              F = {f \in Tokens : \E t \in Tokens : Live(t) /\ tokens[t].family = f /\ ~Live(t)'}
      OBVIOUS
    <3>3. ASSUME NEW f \in F PROVE CurrentToken(f)' = None
      <4>1. PICK t \in Tokens : Live(t) /\ tokens[t].family = f /\ ~Live(t)'
        BY <3>2, <3>3
      <4>2. ASSUME NEW x \in Tokens, Live(x)', tokens'[x].family = f PROVE FALSE
        <5>1. Live(x) /\ tokens[x].family = f
          BY <2>6, <4>2 DEF Live
        <5>. QED BY <1>3, <4>1, <4>2, <5>1 DEF TokenInv, OneLivePerFamily
      <4>. QED BY <2>2, <3>2, <4>2
    <3>4. ASSUME NEW f \in Tokens \ F PROVE CurrentToken(f)' = CurrentToken(f)
      <4>1. \A t \in Tokens : (Live(t)' /\ tokens'[t].family = f) <=> (Live(t) /\ tokens[t].family = f)
        BY <2>6, <3>2, <3>4 DEF Live
      <4>. QED BY <2>1, <2>2, <4>1
    <3>5. Families!Revoke(F)
      BY <3>1, <3>3, <3>4 DEF Families!Revoke
    <3>. QED BY <3>5 DEF Families!TFNext
  <2>. QED BY <1>3, <2>4, <2>5, <2>6, FamilySteps
<1>4. TypeInv /\ TokenInv /\ [Next]_vars => TokenInv'
  BY NextTokenInv
<1>5. (TypeInv /\ TokenInv) /\ [Next]_vars => [Families!TFNext]_<<IssuedTokens, [f \in Tokens |-> CurrentToken(f)]>>
  BY <1>3, <1>4
<1>. QED BY <1>1, <1>5, TokensInvariant, PTL DEF Spec, ImplementsTokenFamilies, Families!TFSpec

-----------------------------------------------------------------------------
(***************************************************************************)
(* Accounts.  UserInv is inductive: a draft of an account is explained by  *)
(* the statement its transaction has reached.  With TokenInv it gives the  *)
(* whole of SessionsInv, and that a refresh that came too late fails.      *)
(***************************************************************************)
\* What UserDrafts says of one draft.
DraftExplained(u, row, p) ==
    \/ req[p].op = "refresh" /\ pc[p] = "rollback"
    \/ /\ req[p].user = u
       /\ \/ /\ req[p].op = "change" /\ pc[p] \in {"change_scan", "change_revoke", "commit"}
             /\ row.active = users[u].active /\ row.deleted = users[u].deleted
             /\ row.ver = users[u].ver + 1
          \/ /\ req[p].op = "patch" /\ pc[p] \in {"patch_reload", "not_found", "commit"}
             /\ row.deleted = users[u].deleted
             /\ row.ver = users[u].ver + (IF req[p].new = None THEN 0 ELSE 1)
             /\ req[p].new = None => row.pw = users[u].pw
             /\ pc[p] = "commit" => Alive(row)
          \/ /\ req[p].op = "remove" /\ pc[p] = "commit"
             /\ row.deleted /\ ~row.active
             /\ row.ver = users[u].ver + 1

\* UserDrafts, one draft at a time.
LEMMA UserDraftsAre ==
    UserDrafts <=> \A u \in Users : draftUsers[u] # None
                                    => DraftExplained(u, draftUsers[u].row, draftUsers[u].by)
  BY DEF UserDrafts, DraftExplained

\* Statements at which a request may have a draft of a user.
Drafting == {"change_scan", "change_revoke", "patch_reload", "not_found", "rollback", "commit"}

\* A request at a statement that has not written an account has no draft of one.
LEMMA NoUserDraft ==
    ASSUME UserDrafts, NEW p \in Requests, pc[p] \notin Drafting, NEW u \in Users
    PROVE  ~Mine(p, draftUsers[u])
  BY UserDraftsAre DEF DraftExplained, Drafting, Mine

\* What explains the draft of one transaction is untouched by a step of another.
LEMMA DraftOfAnother ==
    ASSUME TypeOK, UserDrafts, NEW p \in Requests, OnlyMoves(p), NEW u \in Users,
           draftUsers'[u] = draftUsers[u], draftUsers[u] # None, ~Mine(p, draftUsers[u]),
           users'[u] = users[u]
    PROVE  DraftExplained(u, draftUsers[u].row, draftUsers[u].by)'
<1>1. draftUsers[u].by \in Requests \ {p}
  BY DEF TypeOK, Draft, Mine
<1>2. DraftExplained(u, draftUsers[u].row, draftUsers[u].by)
  BY UserDraftsAre
<1>. QED BY <1>1, <1>2 DEF DraftExplained, OnlyMoves

\* Statements at which a request has written its user (see UserHeld).
Holding(p) ==
    \/ pc[p] \in {"change_scan", "change_revoke", "patch_reload"}
    \/ pc[p] = "commit" /\ req[p].op # "refresh"

\* A request that has written an account names it.
LEMMA HoldersHaveUsers ==
    ASSUME TypeInv, NEW p \in Requests, Holding(p)
    PROVE  req[p].user \in Users
  BY DEF TypeInv, RequestShape, WellFormed, OnPath, Holding

\* A statement of a request that has written no account leaves the invariant of accounts.
LEMMA UserQuietStep ==
    ASSUME TypeOK, UserInv, NEW p \in Requests, OnlyMoves(p),
           UNCHANGED <<users, draftUsers, bumps>>,
           pc[p] \notin Drafting,
           pc'[p] \notin {"change_scan", "change_revoke", "patch_reload"},
           pc'[p] = "commit" => req'[p].op = "refresh"
    PROVE  UserInv'
<1>1. UserDrafts'
  <2>1. \A u \in Users : ~Mine(p, draftUsers[u])
    BY NoUserDraft DEF UserInv
  <2>2. \A u \in Users : draftUsers'[u] # None
            => DraftExplained(u, draftUsers[u].row, draftUsers[u].by)'
    BY <2>1, DraftOfAnother DEF UserInv
  <2>. QED BY <2>2 DEF UserDrafts, DraftExplained
<1>2. UserHeld'
  BY DEF UserInv, UserHeld, OnlyMoves, Mine
<1>3. ActiveIffNotDeleted' /\ VersionCountsChanges'
  BY DEF UserInv, ActiveIffNotDeleted, VersionCountsChanges
<1>. QED BY <1>1, <1>2, <1>3 DEF UserInv

\* A transaction that has written its user goes on to its next statement.
LEMMA UserMoveStep ==
    ASSUME TypeOK, UserInv, NEW p \in Requests, OnlyMoves(p),
           UNCHANGED <<users, draftUsers, bumps>>,
           req'[p].op = req[p].op, req'[p].user = req[p].user, req'[p].new = req[p].new,
           req[p].user \in Users,
           \/ /\ req[p].op = "change" /\ pc[p] \in {"change_scan", "change_revoke"}
              /\ pc'[p] \in {"change_revoke", "commit"}
           \/ /\ req[p].op = "patch" /\ pc[p] = "patch_reload"
              /\ pc'[p] = "not_found" \/ (pc'[p] = "commit" /\ Alive(draftUsers[req[p].user].row))
    PROVE  UserInv'
<1>1. UserDrafts'
  <2>1. ASSUME NEW u \in Users, draftUsers[u] # None, Mine(p, draftUsers[u])
        PROVE  DraftExplained(u, draftUsers[u].row, draftUsers[u].by)'
    <3>1. DraftExplained(u, draftUsers[u].row, p) /\ draftUsers[u].by = p
      BY <2>1, UserDraftsAre DEF UserInv, Mine
    <3>2. req[p].user = u
      BY <3>1 DEF DraftExplained
    <3>. QED BY <3>1, <3>2 DEF DraftExplained
  <2>2. \A u \in Users : draftUsers'[u] # None
            => DraftExplained(u, draftUsers[u].row, draftUsers[u].by)'
    BY <2>1, DraftOfAnother DEF UserInv
  <2>. QED BY <2>2 DEF UserDrafts, DraftExplained
<1>2. UserHeld'
  BY DEF UserInv, UserHeld, OnlyMoves, Mine
<1>3. ActiveIffNotDeleted' /\ VersionCountsChanges'
  BY DEF UserInv, ActiveIffNotDeleted, VersionCountsChanges
<1>. QED BY <1>1, <1>2, <1>3 DEF UserInv

\* The UPDATE of an account locks its row and drafts what its transaction explains
\* (prisma.repository.ts:122-131).
LEMMA UserWriteStep ==
    ASSUME TypeInv, TypeOK, UserInv, NEW p \in Requests, OnlyMoves(p),
           UNCHANGED <<users, bumps, req>>,
           NEW u \in Users, NEW row \in UserRow, WriteUser(p, u, row),
           pc[p] \notin Drafting,
           DraftExplained(u, row, p)',
           pc'[p] \in {"change_scan", "change_revoke", "patch_reload", "commit"} => req[p].user = u
    PROVE  UserInv'
<1>. USE NoRowAssumption
<1>1. /\ draftUsers[u] = None
      /\ draftUsers'[u] # None /\ draftUsers'[u].row = row /\ draftUsers'[u].by = p
      /\ \A v \in Users \ {u} : draftUsers'[v] = draftUsers[v]
  <2>1. [by |-> p, row |-> row] \in Draft(UserRow)
    BY DEF Draft
  <2>. QED BY <2>1 DEF WriteUser, TypeOK
<1>2. \A v \in Users : ~Mine(p, draftUsers[v])
  BY NoUserDraft DEF UserInv
<1>3. UserDrafts'
  <2>1. \A v \in Users \ {u} : draftUsers'[v] # None
            => DraftExplained(v, draftUsers[v].row, draftUsers[v].by)'
    BY <1>1, <1>2, DraftOfAnother DEF UserInv
  <2>2. DraftExplained(u, draftUsers[u].row, draftUsers[u].by)'
    BY <1>1 DEF DraftExplained
  <2>. QED BY <2>1, <2>2 DEF UserDrafts, DraftExplained
<1>4. UserHeld'
  <2>1. \A q \in Requests : Holding(q)' /\ q # p => Mine(q, draftUsers[req[q].user])'
    <3>1. \A q \in Requests : Holding(q)' /\ q # p => Holding(q) /\ req'[q].user \in Users
      BY HoldersHaveUsers DEF Holding, OnlyMoves
    <3>. QED BY <1>1, <3>1 DEF UserInv, UserHeld, Holding, Mine
  <2>2. Holding(p)' => Mine(p, draftUsers[req[p].user])'
    BY <1>1 DEF Holding, Mine
  <2>. QED BY <2>1, <2>2 DEF UserHeld, Holding
<1>5. ActiveIffNotDeleted' /\ VersionCountsChanges'
  BY DEF UserInv, ActiveIffNotDeleted, VersionCountsChanges
<1>. QED BY <1>3, <1>4, <1>5 DEF UserInv

\* A transaction that ends without a commit leaves the invariant of accounts.
LEMMA UserDiscardStep ==
    ASSUME TypeInv, TypeOK, UserInv, NEW p \in Requests, OnlyMoves(p),
           UNCHANGED <<users, bumps>>, Discard(p), pc'[p] = "idle"
    PROVE  UserInv'
<1>1. \A u \in Users : draftUsers'[u] # None =>
          draftUsers'[u] = draftUsers[u] /\ ~Mine(p, draftUsers[u])
  BY DEF Discard
<1>2. UserDrafts'
  <2>1. \A u \in Users : draftUsers'[u] # None
            => DraftExplained(u, draftUsers[u].row, draftUsers[u].by)'
    BY <1>1, DraftOfAnother DEF UserInv
  <2>. QED BY <1>1, <2>1 DEF UserDrafts, DraftExplained
<1>3. UserHeld'
  <2>1. \A q \in Requests, u \in Users : q # p /\ Mine(q, draftUsers[u]) => Mine(q, draftUsers[u])'
    BY NoneAssumption DEF Mine, Discard
  <2>2. \A q \in Requests : Holding(q)' => q # p /\ Holding(q) /\ req'[q] = req[q] /\ req[q].user \in Users
    BY HoldersHaveUsers DEF Holding, OnlyMoves
  <2>. QED BY <2>1, <2>2 DEF UserInv, UserHeld, Holding
<1>4. ActiveIffNotDeleted' /\ VersionCountsChanges'
  BY DEF UserInv, ActiveIffNotDeleted, VersionCountsChanges
<1>. QED BY <1>2, <1>3, <1>4 DEF UserInv

\* What the commit of p makes of the row of a user: its own user gets the draft it
\* has explained, all others stay as they are.
LEMMA CommittedUsers ==
    ASSUME TypeInv, UserInv, NEW p \in Requests, Commit(p), NEW u \in Users
    PROVE  /\ bumps'[u] = IF u = req[p].user /\ ChangesCredentials(req[p]) THEN bumps[u] + 1 ELSE bumps[u]
           /\ Mine(p, draftUsers[u]) =>
                 /\ u = req[p].user /\ draftUsers'[u] = None
                 /\ users'[u].active <=> ~users'[u].deleted
                 /\ users[u].deleted => users'[u].deleted
                 /\ users'[u].ver = users[u].ver + (IF ChangesCredentials(req[p]) THEN 1 ELSE 0)
                 /\ ~ChangesCredentials(req[p]) => users'[u].pw = users[u].pw
           /\ ~Mine(p, draftUsers[u]) =>
                 /\ users'[u] = users[u] /\ draftUsers'[u] = draftUsers[u]
                 /\ u = req[p].user => ~ChangesCredentials(req[p])
<1>1. /\ pc[p] = "commit"
      /\ bumps'[u] = IF u = req[p].user /\ ChangesCredentials(req[p]) THEN bumps[u] + 1 ELSE bumps[u]
      /\ users'[u] = IF Mine(p, draftUsers[u]) THEN draftUsers[u].row ELSE users[u]
      /\ draftUsers'[u] = IF Mine(p, draftUsers[u]) THEN None ELSE draftUsers[u]
  BY DEF Commit, Discard
<1>2. ASSUME Mine(p, draftUsers[u])
      PROVE  /\ u = req[p].user /\ draftUsers'[u] = None
             /\ users'[u].active <=> ~users'[u].deleted
             /\ users[u].deleted => users'[u].deleted
             /\ users'[u].ver = users[u].ver + (IF ChangesCredentials(req[p]) THEN 1 ELSE 0)
             /\ ~ChangesCredentials(req[p]) => users'[u].pw = users[u].pw
  <2>. DEFINE row == draftUsers[u].row
  <2>1. DraftExplained(u, row, p)
    BY <1>2, UserDraftsAre DEF UserInv, Mine
  <2>2. users'[u] = row /\ row \in UserRow /\ users[u] \in UserRow
    BY <1>1, <1>2 DEF Mine, TypeInv, TypeOK, Draft
  <2>3. users[u].active <=> ~users[u].deleted
    BY DEF UserInv, ActiveIffNotDeleted
  <2>. HIDE DEF row
  <2>4. CASE req[p].op = "change"
    BY <1>1, <1>2, <2>1, <2>2, <2>3, <2>4 DEF DraftExplained, ChangesCredentials, UserRow
  <2>5. CASE req[p].op = "patch"
    BY <1>1, <1>2, <2>1, <2>2, <2>3, <2>5 DEF DraftExplained, ChangesCredentials, UserRow, Alive
  <2>6. CASE req[p].op = "remove"
    BY <1>1, <1>2, <2>1, <2>2, <2>3, <2>6 DEF DraftExplained, ChangesCredentials, UserRow
  <2>. QED BY <1>1, <2>1, <2>4, <2>5, <2>6 DEF DraftExplained
<1>3. ASSUME ~Mine(p, draftUsers[u]), u = req[p].user PROVE ~ChangesCredentials(req[p])
  <2>1. req[p].op = "refresh"
    BY <1>1, <1>3 DEF UserInv, UserHeld
  <2>. QED BY <2>1 DEF ChangesCredentials
<1>. QED BY <1>1, <1>2, <1>3

\* The commit of a password change, PATCH or DELETE counts in token_version exactly if
\* it changes credentials, and leaves the account active or deleted, never neither.
LEMMA UserCommitStep ==
    ASSUME TypeInv, UserInv, NEW p \in Requests, Commit(p)
    PROVE  UserInv'
<1>1. OnlyMoves(p) /\ pc'[p] = "idle" /\ Discard(p)
  BY DEF Commit, Answer, Goto, OnlyMoves, TypeInv, TypeOK
<1>2. UserDrafts'
  <2>1. \A u \in Users : draftUsers'[u] # None =>
            ~Mine(p, draftUsers[u]) /\ draftUsers'[u] = draftUsers[u] /\ users'[u] = users[u]
    BY CommittedUsers
  <2>2. \A u \in Users : draftUsers'[u] # None
            => DraftExplained(u, draftUsers[u].row, draftUsers[u].by)'
    BY <1>1, <2>1, DraftOfAnother DEF UserInv, TypeInv
  <2>. QED BY <2>2 DEF UserDrafts, DraftExplained
<1>3. UserHeld'
  <2>1. \A q \in Requests, u \in Users : q # p /\ Mine(q, draftUsers[u]) => Mine(q, draftUsers[u])'
    BY <1>1, NoneAssumption DEF Mine, Discard
  <2>2. \A q \in Requests : Holding(q)' => q # p /\ Holding(q) /\ req'[q] = req[q] /\ req[q].user \in Users
    BY <1>1, HoldersHaveUsers DEF Holding, OnlyMoves
  <2>. QED BY <2>1, <2>2 DEF UserInv, UserHeld, Holding
<1>4. ActiveIffNotDeleted'
  BY CommittedUsers DEF UserInv, ActiveIffNotDeleted
<1>5. VersionCountsChanges'
  <2>1. \A u \in Users : users[u].ver = 1 + bumps[u] /\ bumps[u] \in Nat
    BY DEF UserInv, VersionCountsChanges, TypeInv, TypeOK
  <2>2. ASSUME NEW u \in Users PROVE users'[u].ver = 1 + bumps'[u]
    <3>1. CASE Mine(p, draftUsers[u])
      BY <2>1, <3>1, CommittedUsers
    <3>2. CASE ~Mine(p, draftUsers[u])
      BY <2>1, <3>2, CommittedUsers
    <3>. QED BY <3>1, <3>2
  <2>. QED BY <2>2 DEF VersionCountsChanges
<1>. QED BY <1>2, <1>3, <1>4, <1>5 DEF UserInv

\* New accounts are active, at version 1, and nobody writes them.
LEMMA InitUserInv == Init => UserInv
  BY DEF Init, UserInv, UserDrafts, UserHeld, ActiveIffNotDeleted, VersionCountsChanges, Blank

\* Every step of the service keeps the invariant of accounts.
LEMMA NextUserInv == TypeInv /\ UserInv /\ [Next]_vars => UserInv'
<1>. SUFFICES ASSUME TypeInv, UserInv, [Next]_vars PROVE UserInv'
  OBVIOUS
<1>. USE DEF rows, drafts
<1>0. TypeOK /\ RequestShape
  BY DEF TypeInv
<1>1. ASSUME NEW p \in Requests, Receive(p) PROVE UserInv'
  <2>1. PICK label \in Labels, r \in Request : Begin(p, label, r) /\ label \in Entries
    BY <1>0, <1>1, Received
  <2>2. pc[p] = "idle" /\ pc'[p] = label /\ OnlyMoves(p) /\ UNCHANGED <<users, draftUsers, bumps>>
    BY <1>0, <2>1 DEF Begin, Goto, OnlyMoves, TypeOK
  <2>. QED BY <1>0, <2>1, <2>2, UserQuietStep DEF Entries, Drafting
<1>2. ASSUME NEW p \in Requests, Step(p) PROVE UserInv'
  <2>0. /\ req[p] \in Request /\ OnPath(req[p].op, pc[p])
        /\ req[p].op \in {"change", "patch", "remove"} => req[p].user \in Users
        /\ req[p].op = "change" => req[p].new \in Passwords
    BY <1>0 DEF TypeOK, RequestShape, WellFormed
  <2>1. CASE ReplayBump(p)
    <3>1. PICK u \in Users : u = tokens[req[p].token].user
      BY <1>0, <2>1 DEF ReplayBump, RequestShape, WellFormed, Issued, TypeOK, Request, TokenRow
    <3>2. PICK r \in UserRow : r = Bumped(users[u])
      BY <1>0, BumpedRow DEF TypeOK
    <3>3. /\ WriteUser(p, u, r) /\ UNCHANGED <<users, bumps, req>>
          /\ OnlyMoves(p) /\ pc[p] = "replay_bump" /\ pc'[p] = "rollback"
      BY <1>0, <2>1, <3>1, <3>2 DEF ReplayBump, Goto, OnlyMoves, TypeOK
    <3>4. DraftExplained(u, r, p)'
      BY <2>0, <3>3 DEF DraftExplained, OnPath
    <3>. QED BY <1>0, <3>3, <3>4, UserWriteStep DEF Drafting
  <2>2. CASE ChangeUpdate(p)
    <3>. DEFINE u == req[p].user
                row == WithPassword(users[u], req[p].new)
    <3>1. req[p].op = "change" /\ u \in Users /\ req[p].new \in Passwords /\ users[u] \in UserRow
      BY <1>0, <2>0, <2>2 DEF ChangeUpdate, OnPath, TypeOK
    <3>2. /\ row \in UserRow /\ row.ver = users[u].ver + 1
          /\ row.active = users[u].active /\ row.deleted = users[u].deleted
      BY <3>1, WithPasswordRow
    <3>3. /\ WriteUser(p, u, row) /\ UNCHANGED <<users, bumps, req>>
          /\ OnlyMoves(p) /\ pc[p] = "change_update" /\ pc'[p] = "change_scan"
      BY <1>0, <2>2 DEF ChangeUpdate, Goto, OnlyMoves, TypeOK
    <3>. HIDE DEF row
    <3>4. ASSUME NEW r, r = row PROVE DraftExplained(u, r, p)'
      BY <3>1, <3>2, <3>3, <3>4 DEF DraftExplained
    <3>5. PICK r : r = row
      OBVIOUS
    <3>. QED BY <1>0, <3>1, <3>2, <3>3, <3>4, <3>5, UserWriteStep DEF Drafting
  <2>3. CASE PatchWrite(p)
    <3>. DEFINE u == req[p].user
                row == Patched(users[u], req[p])
    <3>1. req[p].op = "patch" /\ u \in Users /\ users[u] \in UserRow
      BY <1>0, <2>0, <2>3 DEF PatchWrite, OnPath, TypeOK
    <3>2. /\ row \in UserRow /\ row.deleted = users[u].deleted
          /\ row.ver = users[u].ver + (IF req[p].new = None THEN 0 ELSE 1)
          /\ req[p].new = None => row.pw = users[u].pw
      BY <2>0, <3>1, PatchedRow
    <3>3. /\ WriteUser(p, u, row) /\ UNCHANGED <<users, bumps, req>>
          /\ OnlyMoves(p) /\ pc[p] = "patch_write" /\ pc'[p] = "patch_reload"
      BY <1>0, <2>3 DEF PatchWrite, Goto, OnlyMoves, TypeOK
    <3>. HIDE DEF row
    <3>4. ASSUME NEW r, r = row PROVE DraftExplained(u, r, p)'
      BY <3>1, <3>2, <3>3, <3>4 DEF DraftExplained
    <3>5. PICK r : r = row
      OBVIOUS
    <3>. QED BY <1>0, <3>1, <3>2, <3>3, <3>4, <3>5, UserWriteStep DEF Drafting
  <2>4. CASE RemoveWrite(p)
    <3>. DEFINE u == req[p].user
                row == Removed(users[u])
    <3>1. req[p].op = "remove" /\ u \in Users /\ users[u] \in UserRow
      BY <1>0, <2>0, <2>4 DEF RemoveWrite, OnPath, TypeOK
    <3>2. row \in UserRow /\ row.deleted = TRUE /\ row.active = FALSE /\ row.ver = users[u].ver + 1
      BY <3>1, RemovedRow
    <3>3. /\ WriteUser(p, u, row) /\ UNCHANGED <<users, bumps, req>>
          /\ OnlyMoves(p) /\ pc[p] = "remove_write" /\ pc'[p] = "commit"
      BY <1>0, <2>4 DEF RemoveWrite, Goto, OnlyMoves, TypeOK
    <3>. HIDE DEF row
    <3>4. ASSUME NEW r, r = row PROVE DraftExplained(u, r, p)'
      BY <3>1, <3>2, <3>3, <3>4 DEF DraftExplained
    <3>5. PICK r : r = row
      OBVIOUS
    <3>. QED BY <1>0, <3>1, <3>2, <3>3, <3>4, <3>5, UserWriteStep DEF Drafting
  <2>5. CASE ChangeScan(p)
    <3>1. /\ pc[p] = "change_scan" /\ pc'[p] = "change_revoke" /\ OnlyMoves(p)
          /\ UNCHANGED <<users, draftUsers, bumps>> /\ req[p].op = "change"
      BY <1>0, <2>0, <2>5 DEF ChangeScan, Goto, OnlyMoves, OnPath, TypeOK
    <3>2. req' = [req EXCEPT ![p] = [req[p] EXCEPT !.scan = TokensOf(req[p].user), !.at = now]]
      BY <1>0, <2>5 DEF ChangeScan, TypeOK
    <3>3. SameInputs(req[p], req'[p])
      <4>1. SameInputs(req[p], [req[p] EXCEPT !.scan = TokensOf(req[p].user), !.at = now])
        BY <1>0, <2>0, StartScan DEF TokensOf, TypeOK
      <4>. QED BY <1>0, <3>2, <4>1 DEF TypeOK
    <3>. QED BY <1>0, <2>0, <3>1, <3>3, UserMoveStep DEF SameInputs
  <2>6. ASSUME NEW t \in req[p].scan, NEW label \in Labels, RevokeRow(p, t, label)
        PROVE  /\ UNCHANGED <<users, draftUsers, bumps>> /\ OnlyMoves(p)
               /\ SameInputs(req[p], req'[p])
               /\ pc'[p] = label \/ pc'[p] = pc[p]
    <3>1. SameInputs(req[p], [req[p] EXCEPT !.scan = @ \ {t}])
      BY <2>0, AdvanceScan DEF Request
    <3>2. req' = [req EXCEPT ![p] = [req[p] EXCEPT !.scan = @ \ {t}]]
      BY <1>0, <2>6 DEF RevokeRow, TypeOK
    <3>3. SameInputs(req[p], req'[p])
      BY <1>0, <3>1, <3>2 DEF TypeOK
    <3>. QED BY <1>0, <2>6, <3>2, <3>3 DEF RevokeRow, WriteToken, Goto, OnlyMoves, TypeOK
  <2>7. CASE ChangeRevoke(p)
    <3>1. pc[p] = "change_revoke" /\ req[p].op = "change"
      BY <2>0, <2>7 DEF ChangeRevoke, OnPath
    <3>2. PICK t \in req[p].scan : RevokeRow(p, t, "commit")
      BY <2>7 DEF ChangeRevoke
    <3>. QED BY <1>0, <2>0, <2>6, <3>1, <3>2, UserMoveStep DEF SameInputs, Labels, TxSteps
  <2>8. CASE ReplayRevoke(p)
    <3>1. pc[p] = "replay_revoke"
      BY <2>8 DEF ReplayRevoke
    <3>2. PICK t \in req[p].scan : RevokeRow(p, t, "replay_bump")
      BY <2>8 DEF ReplayRevoke
    <3>. QED BY <1>0, <2>6, <3>1, <3>2, UserQuietStep DEF Labels, TxSteps, Drafting
  <2>9. CASE PatchReload(p)
    <3>1. /\ pc[p] = "patch_reload" /\ req[p].op = "patch" /\ OnlyMoves(p)
          /\ UNCHANGED <<users, draftUsers, bumps, req>>
      BY <1>0, <2>0, <2>9 DEF PatchReload, Goto, OnlyMoves, OnPath, TypeOK
    <3>2. pc'[p] = "not_found" \/ (pc'[p] = "commit" /\ Alive(draftUsers[req[p].user].row))
      BY <1>0, <2>9 DEF PatchReload, Goto, TypeOK
    <3>. QED BY <1>0, <2>0, <3>1, <3>2, UserMoveStep
  <2>10. CASE Commit(p)
    BY <2>10, UserCommitStep
  <2>11. CASE Rollback(p)
    <3>1. pc'[p] = "idle" /\ OnlyMoves(p) /\ UNCHANGED <<users, bumps>> /\ Discard(p)
      BY <1>0, <2>11 DEF Rollback, Answer, Goto, OnlyMoves, TypeOK
    <3>. QED BY <1>0, <3>1, UserDiscardStep
  <2>12. CASE \/ LoginRead(p) \/ LoginCreate(p) \/ RefreshClaim(p) \/ RefreshOwner(p) \/ RefreshCreate(p)
              \/ RefreshStatus(p) \/ Logout(p) \/ UserLookup(p) \/ UserRead(p) \/ UserFill(p) \/ RemoveCheck(p)
    <3>. DEFINE From == {"login_read", "login_create", "refresh_claim", "refresh_owner", "refresh_create",
                         "refresh_status", "logout", "user_lookup", "user_read", "user_fill", "remove_check"}
                To == {"idle", "login_create", "refresh_owner", "refresh_status", "refresh_create", "rollback",
                       "replay_revoke", "user_read", "user_fill", "change_update", "remove_write"}
    <3>1. UNCHANGED <<users, draftUsers, bumps>> /\ pc[p] \in From
      BY <2>12 DEF LoginRead, LoginCreate, RefreshClaim, RefreshOwner, RefreshCreate, RefreshStatus, Logout,
         UserLookup, UserRead, UserFill, RemoveCheck, WriteToken
    <3>2. OnlyMoves(p)
      BY <1>0, <2>12 DEF LoginRead, LoginCreate, RefreshClaim, RefreshOwner, RefreshCreate, RefreshStatus, Logout,
         UserLookup, UserRead, UserFill, RemoveCheck, Proceed, Answer, Goto, OnlyMoves, TypeOK
    <3>3. \/ \E label \in To : Goto(p, label)
          \/ Goto(p, "commit") /\ pc[p] = "refresh_create" /\ UNCHANGED req
      BY <2>12 DEF LoginRead, LoginCreate, RefreshClaim, RefreshOwner, RefreshCreate, RefreshStatus, Logout,
         UserLookup, UserRead, UserFill, RemoveCheck, Proceed, Answer
    <3>4. pc'[p] \in To \/ (pc'[p] = "commit" /\ req'[p].op = "refresh")
      BY <1>0, <2>0, <3>3 DEF Goto, OnPath, TypeOK
    <3>. QED BY <1>0, <3>1, <3>2, <3>4, UserQuietStep DEF Drafting
  <2>. QED BY <1>2, <2>1, <2>2, <2>3, <2>4, <2>5, <2>7, <2>8, <2>9, <2>10, <2>11, <2>12 DEF Step
<1>3. ASSUME NEW p \in Requests, Fail(p) PROVE UserInv'
  <2>1. pc'[p] = "idle" /\ OnlyMoves(p) /\ UNCHANGED <<users, bumps>> /\ Discard(p)
    BY <1>0, <1>3 DEF Fail, Answer, Goto, OnlyMoves, TypeOK
  <2>. QED BY <1>0, <2>1, UserDiscardStep
<1>4. CASE (\E u \in Users : Evict(u)) \/ Tick \/ UNCHANGED vars
  <2>1. UNCHANGED <<pc, req, users, draftUsers, bumps>>
    BY <1>4 DEF Evict, Tick, vars
  <2>. QED BY <2>1 DEF UserInv, UserDrafts, UserHeld, ActiveIffNotDeleted, VersionCountsChanges, Mine
<1>. QED BY <1>1, <1>2, <1>3, <1>4 DEF Next

\* Only a commit changes rows of users.
LEMMA OnlyCommits ==
    ASSUME [Next]_vars
    PROVE  UNCHANGED users \/ \E p \in Requests : Commit(p)
<1>. USE DEF rows
<1>1. ASSUME NEW p \in Requests, Receive(p) PROVE UNCHANGED users
  BY <1>1 DEF Receive, ReceiveLogin, ReceiveRefresh, ReceiveLogout, ReceiveGet,
       ReceiveChangePassword, ReceivePatch, ReceiveRemove, Begin
<1>2. ASSUME NEW p \in Requests, Step(p), ~Commit(p) PROVE UNCHANGED users
  BY <1>2 DEF Step, LoginRead, LoginCreate, RefreshClaim, RefreshOwner, RefreshCreate, RefreshStatus,
     ReplayRevoke, RevokeRow, ReplayBump, Logout, UserLookup, UserRead, UserFill, ChangeUpdate, ChangeScan,
     ChangeRevoke, PatchWrite, PatchReload, RemoveCheck, RemoveWrite, Rollback
<1>. QED BY <1>1, <1>2 DEF Next, Fail, Evict, Tick, vars

\* A deleted account stays deleted over every step.
LEMMA DeletedForever ==
    ASSUME TypeInv, UserInv, [Next]_vars, NEW u \in Users, users[u].deleted
    PROVE  users'[u].deleted
  BY CommittedUsers, OnlyCommits

\* A request keeps what it was given until it is answered; a request just received
\* is at its first statement.
LEMMA RequestsKept ==
    ASSUME TypeInv, [Next]_vars, NEW p \in Requests
    PROVE  \/ req'[p] = Blank
           \/ SameInputs(req[p], req'[p])
           \/ Justified(req'[p]) /\ UNCHANGED rows
<1>0. TypeOK /\ req[p] \in Request /\ SameInputs(req[p], req[p])
  BY DEF TypeInv, TypeOK, SameInputs
<1>1. ASSUME NEW q \in Requests, Receive(q)
      PROVE  req'[p] = req[p] \/ (Justified(req'[p]) /\ UNCHANGED rows)
  <2>1. PICK label \in Labels, r \in Request : Begin(q, label, r) /\ Justified(r)
    BY <1>0, <1>1, Received
  <2>2. req'[p] = IF p = q THEN r ELSE req[p]
    BY <1>0, <2>1 DEF Begin, TypeOK
  <2>. QED BY <2>1, <2>2 DEF Begin
<1>2. ASSUME NEW q \in Requests, OnlyMoves(q), q # p PROVE req'[p] = req[p]
  BY <1>2 DEF OnlyMoves
<1>3. ASSUME NEW q \in Requests, Answer(q) PROVE req'[p] = Blank \/ req'[p] = req[p]
  BY <1>0, <1>3 DEF Answer, TypeOK
<1>4. ASSUME NEW q \in Requests, Step(q) PROVE req'[p] = Blank \/ SameInputs(req[p], req'[p])
  <2>0. \A s : req' = [req EXCEPT ![q] = s] => req'[p] = IF p = q THEN s ELSE req[p]
    BY <1>0 DEF TypeOK
  <2>1. CASE \/ LoginCreate(q) \/ RefreshClaim(q) \/ RefreshCreate(q) \/ ReplayBump(q) \/ Logout(q)
             \/ UserLookup(q) \/ UserFill(q) \/ ChangeUpdate(q) \/ PatchWrite(q) \/ PatchReload(q)
             \/ RemoveCheck(q) \/ RemoveWrite(q) \/ Commit(q) \/ Rollback(q)
    <3>1. Answer(q) \/ UNCHANGED req
      BY <2>1 DEF LoginCreate, RefreshClaim, RefreshCreate, ReplayBump, Logout, UserLookup, UserFill, Proceed,
         ChangeUpdate, PatchWrite, PatchReload, RemoveCheck, RemoveWrite, Commit, Rollback
    <3>. QED BY <1>0, <1>3, <3>1
  <2>2. CASE LoginRead(q) \/ RefreshOwner(q)
    <3>1. CASE Answer(q) \/ UNCHANGED req
      BY <1>0, <1>3, <3>1
    <3>2. CASE \E v \in Nat : req' = [req EXCEPT ![q] = [req[q] EXCEPT !.ver = v]]
      BY <1>0, <2>0, <3>2, ReadVersion
    <3>3. CASE LoginRead(q) /\ req' = [req EXCEPT ![q].ver = users[req[q].user].ver]
      <4>1. users[req[q].user].ver \in Nat
        BY <1>0, <3>3 DEF LoginRead, TypeInv, RequestShape, WellFormed, OnPath, TypeOK, UserRow
      <4>2. req' = [req EXCEPT ![q] = [req[q] EXCEPT !.ver = users[req[q].user].ver]]
        BY <1>0, <3>3 DEF TypeOK
      <4>. QED BY <3>2, <4>1, <4>2
    <3>4. CASE RefreshOwner(q) /\ req' = [req EXCEPT ![q].ver = users[tokens[req[q].token].user].ver]
      <4>1. tokens[req[q].token] \in TokenRow
        BY <1>0, <3>4 DEF RefreshOwner, TypeInv, RequestShape, WellFormed, Issued, TypeOK, Request
      <4>2. users[tokens[req[q].token].user].ver \in Nat
        BY <1>0, <4>1 DEF TypeOK, TokenRow, UserRow
      <4>3. req' = [req EXCEPT ![q] = [req[q] EXCEPT !.ver = users[tokens[req[q].token].user].ver]]
        BY <1>0, <3>4 DEF TypeOK
      <4>. QED BY <3>2, <4>2, <4>3
    <3>. QED BY <2>2, <3>1, <3>3, <3>4 DEF LoginRead, RefreshOwner
  <2>3. CASE RefreshStatus(q) \/ ChangeScan(q)
    <3>1. \/ Answer(q)
          \/ \E scan \in SUBSET Tokens, at \in Nat :
                 req' = [req EXCEPT ![q] = [req[q] EXCEPT !.scan = scan, !.at = at]]
      <4>1. CASE RefreshStatus(q)
        BY <1>0, <4>1 DEF RefreshStatus, FamilyOf, TypeOK
      <4>2. CASE ChangeScan(q)
        BY <1>0, <4>2 DEF ChangeScan, TokensOf, TypeOK
      <4>. QED BY <2>3, <4>1, <4>2
    <3>2. req[q] \in Request
      BY <1>0 DEF TypeOK
    <3>3. ASSUME NEW scan \in SUBSET Tokens, NEW at \in Nat,
                 req' = [req EXCEPT ![q] = [req[q] EXCEPT !.scan = scan, !.at = at]]
          PROVE  req'[p] = req[p] \/ SameInputs(req[p], req'[p])
      <4>1. SameInputs(req[q], [req[q] EXCEPT !.scan = scan, !.at = at])
        BY <3>2, StartScan
      <4>. QED BY <2>0, <3>3, <4>1
    <3>. QED BY <1>0, <1>3, <3>1, <3>3
  <2>4. CASE ReplayRevoke(q) \/ ChangeRevoke(q)
    <3>1. PICK t \in req[q].scan : req' = [req EXCEPT ![q].scan = @ \ {t}]
      BY <2>4 DEF ReplayRevoke, ChangeRevoke, RevokeRow
    <3>2. req[q] \in Request /\ t \in Tokens
      BY <1>0 DEF TypeOK, Request
    <3>3. req' = [req EXCEPT ![q] = [req[q] EXCEPT !.scan = @ \ {t}]]
      BY <1>0, <3>1 DEF TypeOK
    <3>. QED BY <1>0, <2>0, <3>2, <3>3, AdvanceScan
  <2>5. CASE UserRead(q)
    <3>1. CASE Answer(q)
      BY <1>0, <1>3, <3>1
    <3>2. CASE req' = [req EXCEPT ![q].hash = users[req[q].user].pw]
      <4>1. req[q] \in Request /\ users[req[q].user].pw \in Passwords
        BY <1>0, <2>5 DEF UserRead, TypeInv, RequestShape, WellFormed, OnPath, TypeOK, UserRow
      <4>2. req' = [req EXCEPT ![q] = [req[q] EXCEPT !.hash = users[req[q].user].pw]]
        BY <1>0, <3>2 DEF TypeOK
      <4>. QED BY <1>0, <2>0, <4>1, <4>2, ReadHash
    <3>. QED BY <2>5, <3>1, <3>2 DEF UserRead
  <2>. QED BY <1>4, <2>1, <2>2, <2>3, <2>4, <2>5 DEF Step
<1>5. ASSUME NEW q \in Requests, Fail(q) PROVE req'[p] = Blank \/ req'[p] = req[p]
  BY <1>3, <1>5 DEF Fail
<1>6. CASE (\E u \in Users : Evict(u)) \/ Tick \/ UNCHANGED vars
  BY <1>0, <1>6 DEF Evict, Tick, vars
<1>. QED BY <1>0, <1>1, <1>4, <1>5, <1>6 DEF Next

\* The reason why a refresh came too late does not go away: revoked tokens and deleted
\* accounts stay so.
LEMMA NextDeadExplained ==
    ASSUME TypeInv, TokenInv, UserInv, DeadExplained, [Next]_vars
    PROVE  DeadExplained'
<1>. USE NoneAssumption
<1>1. ASSUME NEW p \in Requests, req'[p].dead
      PROVE  /\ req'[p].token # None
             /\ tokens'[req'[p].token].revoked \/ users'[tokens'[req'[p].token].user].deleted
             /\ req'[p].op = "refresh"
  <2>1. req'[p] # Blank
    BY <1>1 DEF Blank
  <2>2. CASE SameInputs(req[p], req'[p])
    <3>1. /\ req[p].token = req'[p].token /\ req[p].op = req'[p].op /\ req[p].dead
          /\ req[p].token # None /\ req[p].op = "refresh"
          /\ tokens[req[p].token].revoked \/ users[tokens[req[p].token].user].deleted
      BY <1>1, <2>2 DEF SameInputs, DeadExplained
    <3>2. PICK t \in Tokens : t = req[p].token
      BY <3>1 DEF TypeInv, TypeOK, Request
    <3>3. Issued(t) /\ tokens[t].user \in Users
      BY <3>1, <3>2 DEF TypeInv, RequestShape, WellFormed, Issued, TypeOK, TokenRow
    <3>4. tokens'[t].user = tokens[t].user /\ (tokens[t].revoked => tokens'[t].revoked)
      BY <3>3, RowsOnlyWorsen
    <3>5. users[tokens[t].user].deleted => users'[tokens[t].user].deleted
      BY <3>3, DeletedForever
    <3>. QED BY <3>1, <3>2, <3>4, <3>5
  <2>3. CASE Justified(req'[p]) /\ UNCHANGED rows
    BY <1>1, <2>3 DEF Justified, rows
  <2>. QED BY <2>1, <2>2, <2>3, RequestsKept
<1>. QED BY <1>1 DEF DeadExplained

\* A request at the insert of a new token, or at the commit of a rotation, got there
\* by one of two steps, or was there already.
LEMMA LateSteps ==
    ASSUME TypeInv, [Next]_vars, NEW p \in Requests,
           pc'[p] = "refresh_create" \/ (pc'[p] = "commit" /\ req'[p].op = "refresh")
    PROVE  \/ pc[p] = pc'[p] /\ req'[p] = req[p]
           \/ RefreshOwner(p) /\ Alive(users[tokens[req[p].token].user])
           \/ RefreshCreate(p)
<1>0. TypeOK /\ OnPath(req[p].op, pc[p]) /\ req[p] \in Request
  BY DEF TypeInv, TypeOK, RequestShape, WellFormed
<1>1. ASSUME NEW q \in Requests, Receive(q) PROVE pc[p] = pc'[p] /\ req'[p] = req[p]
  <2>1. PICK label \in Labels, r \in Request : Begin(q, label, r) /\ label \in Entries
    BY <1>0, <1>1, Received
  <2>2. p # q
    BY <1>0, <2>1 DEF Begin, Goto, TypeOK, Entries
  <2>. QED BY <1>0, <2>1, <2>2 DEF Begin, Goto, TypeOK
<1>2. ASSUME NEW q \in Requests, Step(q), q # p PROVE pc[p] = pc'[p] /\ req'[p] = req[p]
  BY <1>0, <1>2 DEF Step, LoginRead, LoginCreate, RefreshClaim, RefreshOwner, RefreshCreate, RefreshStatus,
     ReplayRevoke, RevokeRow, ReplayBump, Logout, UserLookup, UserRead, UserFill, ChangeUpdate, ChangeScan,
     ChangeRevoke, PatchWrite, PatchReload, RemoveCheck, RemoveWrite, Commit, Rollback, Proceed, Answer, Goto, TypeOK
<1>3. ASSUME Step(p), ~RefreshOwner(p), ~RefreshCreate(p) PROVE FALSE
  <2>. DEFINE To == {"idle", "login_create", "refresh_owner", "refresh_status", "replay_revoke", "replay_bump",
                     "rollback", "user_read", "user_fill", "change_update", "change_scan", "change_revoke",
                     "patch_reload", "not_found", "remove_write"}
  <2>0. \A label : Goto(p, label) => pc'[p] = label
    BY <1>0 DEF Goto, TypeOK
  <2>1. CASE \/ LoginRead(p) \/ LoginCreate(p) \/ RefreshClaim(p) \/ RefreshStatus(p) \/ ReplayBump(p)
             \/ Logout(p) \/ UserLookup(p) \/ UserRead(p) \/ UserFill(p) \/ ChangeUpdate(p) \/ ChangeScan(p)
             \/ PatchWrite(p) \/ RemoveCheck(p) \/ Commit(p) \/ Rollback(p)
    <3>1. \E label \in To : Goto(p, label)
      BY <2>1 DEF LoginRead, LoginCreate, RefreshClaim, RefreshStatus, ReplayBump, Logout, UserLookup, UserRead,
         UserFill, ChangeUpdate, ChangeScan, PatchWrite, RemoveCheck, Commit, Rollback, Proceed, Answer
    <3>. QED BY <2>0, <3>1
  <2>2. CASE ReplayRevoke(p)
    BY <2>0, <2>2 DEF ReplayRevoke, RevokeRow
  <2>3. CASE ChangeRevoke(p)
    <3>1. PICK t \in req[p].scan : RevokeRow(p, t, "commit")
      BY <2>3 DEF ChangeRevoke
    <3>2. pc[p] = "change_revoke" /\ req[p].op = "change" /\ t \in Tokens
      BY <1>0, <2>3 DEF ChangeRevoke, OnPath, Request
    <3>3. req' = [req EXCEPT ![p] = [req[p] EXCEPT !.scan = @ \ {t}]]
      BY <1>0, <3>1 DEF RevokeRow, TypeOK
    <3>4. SameInputs(req[p], req'[p])
      <4>1. SameInputs(req[p], [req[p] EXCEPT !.scan = @ \ {t}])
        BY <1>0, <3>2, AdvanceScan
      <4>. QED BY <1>0, <3>3, <4>1 DEF TypeOK
    <3>5. pc'[p] = "commit" \/ pc'[p] = "change_revoke"
      BY <2>0, <3>1, <3>2 DEF RevokeRow
    <3>. QED BY <3>2, <3>4, <3>5 DEF SameInputs
  <2>4. CASE PatchReload(p) \/ RemoveWrite(p)
    <3>1. req[p].op # "refresh" /\ UNCHANGED req
      BY <1>0, <2>4 DEF PatchReload, RemoveWrite, OnPath
    <3>2. pc'[p] \in {"commit", "not_found"}
      BY <2>0, <2>4 DEF PatchReload, RemoveWrite
    <3>. QED BY <3>1, <3>2
  <2>. QED BY <1>3, <2>1, <2>2, <2>3, <2>4 DEF Step
<1>4. ASSUME RefreshOwner(p) PROVE Alive(users[tokens[req[p].token].user])
  BY <1>0, <1>4 DEF RefreshOwner, Goto, TypeOK
<1>5. ASSUME NEW q \in Requests, Fail(q) PROVE pc[p] = pc'[p] /\ req'[p] = req[p]
  BY <1>0, <1>5 DEF Fail, Answer, Goto, TypeOK
<1>6. CASE (\E u \in Users : Evict(u)) \/ Tick \/ UNCHANGED vars
  BY <1>0, <1>6 DEF Evict, Tick, vars
<1>. QED BY <1>1, <1>2, <1>3, <1>4, <1>5, <1>6 DEF Next

\* A refresh that came too late is stopped by its claim or by the check of the owner
\* (auth.service.ts:267-295).
LEMMA NextDead ==
    ASSUME TypeInv, TokenInv, UserInv, DeadExplained, DeadTokensStayDead, [Next]_vars
    PROVE  DeadTokensStayDead'
<1>1. ASSUME NEW p \in Requests,
             pc'[p] = "refresh_create" \/ (pc'[p] = "commit" /\ req'[p].op = "refresh")
      PROVE  ~req'[p].dead
  <2>1. CASE pc[p] = pc'[p] /\ req'[p] = req[p]
    BY <1>1, <2>1 DEF DeadTokensStayDead
  <2>2. CASE RefreshCreate(p)
    <3>1. pc[p] = "refresh_create" /\ req'[p] = req[p]
      BY <2>2 DEF RefreshCreate
    <3>. QED BY <3>1 DEF DeadTokensStayDead
  <2>3. CASE RefreshOwner(p) /\ Alive(users[tokens[req[p].token].user])
    <3>1. pc[p] = "refresh_owner" /\ req[p].op = "refresh" /\ Live(req[p].token)
      BY <2>3 DEF RefreshOwner, TypeInv, RequestShape, WellFormed, OnPath, TokenInv, ClaimHeld, Spending
    <3>2. ~req[p].dead
      BY <2>3, <3>1 DEF DeadExplained, Live, Alive
    <3>3. req'[p] = Blank \/ req'[p].dead = req[p].dead
      <4>1. \/ req' = [req EXCEPT ![p].ver = users[tokens[req[p].token].user].ver]
            \/ UNCHANGED req
        BY <2>3 DEF RefreshOwner
      <4>. QED BY <4>1 DEF TypeInv, TypeOK, Request
    <3>. QED BY <3>2, <3>3 DEF Blank
  <2>. QED BY <1>1, <2>1, <2>2, <2>3, LateSteps
<1>. QED BY <1>1 DEF DeadTokensStayDead

\* No request has arrived yet.
LEMMA InitDead == Init => DeadExplained /\ DeadTokensStayDead
  BY DEF Init, Blank, DeadExplained, DeadTokensStayDead

\* The whole inductive invariant, which the runs check on small instances.
THEOREM SessionsInvariant == Spec => []SessionsInv
<1>. DEFINE Inv == TypeInv /\ TokenInv /\ UserInv /\ DeadExplained /\ DeadTokensStayDead
<1>1. Init => Inv
  BY InitType, InitTokenInv, InitUserInv, InitDead
<1>2. Inv /\ [Next]_vars => Inv'
  <2>. SUFFICES ASSUME Inv, [Next]_vars PROVE Inv'
    OBVIOUS
  <2>1. TypeInv'
    BY NextType, NextShape DEF TypeInv
  <2>2. TokenInv' /\ UserInv'
    BY NextTokenInv, NextUserInv
  <2>3. DeadExplained' /\ DeadTokensStayDead'
    BY NextDeadExplained, NextDead
  <2>. QED BY <2>1, <2>2, <2>3
<1>3. Inv => SessionsInv
  BY DEF SessionsInv, TypeInv
<1>. QED BY <1>1, <1>2, <1>3, PTL DEF Spec

\* However PATCH, DELETE and password changes race, an account is active exactly while
\* it is not deleted (users.service.ts:206, 209-243).
THEOREM ActiveMeansNotDeleted == Spec => []ActiveIffNotDeleted
<1>1. SessionsInv => ActiveIffNotDeleted
  BY DEF SessionsInv, UserInv
<1>. QED BY <1>1, SessionsInvariant, PTL

\* token_version counts the committed credential changes, whichever PATCH, DELETE, password
\* changes and replays race (users.service.ts:174, auth.service.ts:328-336).
THEOREM AccountsAreSafe == Spec => []VersionCountsChanges
<1>1. SessionsInv => VersionCountsChanges
  BY DEF SessionsInv, UserInv
<1>. QED BY <1>1, SessionsInvariant, PTL

\* A refresh that arrives after its token was spent or its owner deleted never reaches
\* the insert of a new token, nor a commit.
THEOREM DeadStayDead == Spec => []DeadTokensStayDead
<1>1. SessionsInv => DeadTokensStayDead
  BY DEF SessionsInv
<1>. QED BY <1>1, SessionsInvariant, PTL

\* No step revives a deleted account, not even a PATCH that waited for the deletion.
THEOREM DeletedForGood == Spec => DeletionIsFinal
<1>1. SessionsInv /\ [Next]_vars => \A u \in Users : users[u].deleted => users'[u].deleted
  BY DeletedForever DEF SessionsInv, TypeInv
<1>. QED BY <1>1, SessionsInvariant, PTL DEF Spec, DeletionIsFinal

-----------------------------------------------------------------------------
(* Sessions implements Accounts.                                           *)

\* What a reader sees of an account that stands, and of one that does not.
LEMMA ShownIs ==
    ASSUME TypeOK, UserInv, NEW u \in Users
    PROVE  /\ users[u].pw \in Passwords /\ users[u].ver \in Nat \ {0}
           /\ users[u].deleted => VersionShown(u) = 0 /\ PasswordShown(u) = None
           /\ ~users[u].deleted => VersionShown(u) = users[u].ver /\ PasswordShown(u) = users[u].pw
<1>1. users[u] \in UserRow /\ bumps[u] \in Nat /\ users[u].ver = 1 + bumps[u]
  BY DEF TypeOK, UserInv, VersionCountsChanges
<1>2. users[u].active <=> ~users[u].deleted
  BY DEF UserInv, ActiveIffNotDeleted
<1>. QED BY <1>1, <1>2 DEF UserRow, Alive, VersionShown, PasswordShown

\* A step changes at most one account, which is renewed or ended.
LEMMA AccountSteps ==
    ASSUME TypeInv, UserInv, TypeInv', UserInv', [Next]_vars
    PROVE  \/ \A u \in Users : VersionShown(u)' = VersionShown(u) /\ PasswordShown(u)' = PasswordShown(u)
           \/ \E u \in Users :
                 /\ VersionShown(u) # 0
                 /\ \/ VersionShown(u)' = 0 /\ PasswordShown(u)' = None
                    \/ VersionShown(u)' = VersionShown(u) + 1 /\ PasswordShown(u)' \in Passwords
                 /\ \A v \in Users \ {u} : VersionShown(v)' = VersionShown(v) /\ PasswordShown(v)' = PasswordShown(v)
<1>1. \A u \in Users : users'[u] = users[u]
          => VersionShown(u)' = VersionShown(u) /\ PasswordShown(u)' = PasswordShown(u)
  BY DEF VersionShown, PasswordShown
<1>2. CASE UNCHANGED users
  BY <1>1, <1>2
<1>3. ASSUME NEW p \in Requests, Commit(p), NEW u \in Users, Mine(p, draftUsers[u])
      PROVE  /\ \A v \in Users \ {u} : users'[v] = users[v]
             /\ \/ VersionShown(u)' = VersionShown(u) /\ PasswordShown(u)' = PasswordShown(u)
                \/ /\ VersionShown(u) # 0
                   /\ \/ VersionShown(u)' = 0 /\ PasswordShown(u)' = None
                      \/ VersionShown(u)' = VersionShown(u) + 1 /\ PasswordShown(u)' \in Passwords
  <2>1. \A v \in Users \ {u} : users'[v] = users[v]
    BY <1>3, CommittedUsers
  <2>2. /\ users[u].pw \in Passwords /\ users[u].ver \in Nat \ {0}
        /\ users[u].deleted => VersionShown(u) = 0 /\ PasswordShown(u) = None
        /\ ~users[u].deleted => VersionShown(u) = users[u].ver /\ PasswordShown(u) = users[u].pw
    BY ShownIs DEF TypeInv
  <2>3. /\ users'[u].pw \in Passwords
        /\ users'[u].deleted => VersionShown(u)' = 0 /\ PasswordShown(u)' = None
        /\ ~users'[u].deleted => VersionShown(u)' = users'[u].ver /\ PasswordShown(u)' = users'[u].pw
    <3>1. users'[u] \in UserRow /\ (users'[u].active <=> ~users'[u].deleted)
      BY DEF TypeInv, TypeOK, UserInv, ActiveIffNotDeleted
    <3>. QED BY <3>1 DEF UserRow, Alive, VersionShown, PasswordShown
  <2>4. /\ users[u].deleted => users'[u].deleted
        /\ users'[u].ver = users[u].ver + (IF ChangesCredentials(req[p]) THEN 1 ELSE 0)
        /\ ~ChangesCredentials(req[p]) => users'[u].pw = users[u].pw
    BY <1>3, CommittedUsers
  <2>5. users'[u].ver = users[u].ver + 1 \/ (users'[u].ver = users[u].ver /\ users'[u].pw = users[u].pw)
    BY <2>2, <2>4
  <2>6. CASE users'[u].deleted
    BY <2>1, <2>2, <2>3, <2>6
  <2>7. CASE ~users'[u].deleted
    BY <2>1, <2>2, <2>3, <2>4, <2>5, <2>7
  <2>. QED BY <2>6, <2>7
<1>4. ASSUME NEW p \in Requests, Commit(p), \A u \in Users : ~Mine(p, draftUsers[u])
      PROVE  \A u \in Users : users'[u] = users[u]
  BY <1>4, CommittedUsers
<1>. QED BY <1>1, <1>2, <1>3, <1>4, OnlyCommits

\* For any number of accounts, requests and replicas, whatever PATCH, DELETE, password change,
\* refresh and replay race: Sessions implements Accounts (auth.service.ts:374-412,
\* users.service.ts:155-243).
THEOREM SessionsChangeAccounts == Spec => ImplementsAccounts
<1>. DEFINE version == [u \in Users |-> VersionShown(u)]
            password == [u \in Users |-> PasswordShown(u)]
<1>1. Init => Shown!AccountsInit
  <2>. SUFFICES ASSUME Init PROVE \A u \in Users : VersionShown(u) = 1 /\ PasswordShown(u) \in Passwords
    BY DEF Shown!AccountsInit
  <2>. QED BY DEF Init, VersionShown, PasswordShown, Alive
<1>2. ASSUME TypeInv, UserInv, TypeInv', UserInv', [Next]_vars
      PROVE  [Shown!AccountsNext]_<<version, password>>
  <2>1. CASE \A u \in Users : VersionShown(u)' = VersionShown(u) /\ PasswordShown(u)' = PasswordShown(u)
    BY <2>1
  <2>2. ASSUME NEW u \in Users, VersionShown(u) # 0,
               \A v \in Users \ {u} : VersionShown(v)' = VersionShown(v) /\ PasswordShown(v)' = PasswordShown(v),
               VersionShown(u)' = 0 /\ PasswordShown(u)' = None
        PROVE  Shown!End(u)
    BY <2>2 DEF Shown!End, Shown!Standing
  <2>3. ASSUME NEW u \in Users, VersionShown(u) # 0,
               \A v \in Users \ {u} : VersionShown(v)' = VersionShown(v) /\ PasswordShown(v)' = PasswordShown(v),
               VersionShown(u)' = VersionShown(u) + 1, PasswordShown(u)' \in Passwords
        PROVE  \E pw \in Passwords : Shown!Renew(u, pw)
    <3>1. PICK pw \in Passwords : pw = PasswordShown(u)'
      BY <2>3
    <3>2. Shown!Renew(u, pw)
      BY <2>3, <3>1 DEF Shown!Renew, Shown!Standing
    <3>. QED BY <3>2
  <2>. QED BY <1>2, <2>1, <2>2, <2>3, AccountSteps DEF Shown!AccountsNext
<1>3. SessionsInv /\ SessionsInv' /\ [Next]_vars => [Shown!AccountsNext]_<<version, password>>
  BY <1>2 DEF SessionsInv, TypeInv
<1>. QED BY <1>1, <1>3, SessionsInvariant, PTL DEF Spec, ImplementsAccounts, Shown!AccountsSpec
=============================================================================
