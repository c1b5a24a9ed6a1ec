# Verification of be-kyc-asset

TLA+ specifications of the NestJS service in `src/`, the TLC configurations that
check them on small instances, and theorems checked by TLAPS. Paths such as
`auth.service.ts:267` are below `src/src/modules/` unless they say otherwise.

## 1. The system

Four replicas of one NestJS process (`docker-compose.yml`) stand behind nginx
and share a PostgreSQL database (Prisma, interactive transactions at READ
COMMITTED), a Redis cache and a SeaweedFS S3 store. A replica interleaves
requests at every `await`; nothing but the database orders the replicas.

| Component | State | Operations | Talks to |
|---|---|---|---|
| Sessions (`auth/auth.service.ts`, `auth/repositories/refresh-tokens.repository.ts`) | rows of `refresh_tokens` | register, login, refresh, logout, me, changePassword | users, cache, transactions, tokens |
| Users (`users/users.service.ts`, `users/repositories/`) | rows of `users`, `user_roles` | create, findAll, findOne, update, remove | cache, transactions |
| User cache (`common/database/abstract/cached.repository.ts`, `common/cache/cache.service.ts`) | Redis keys `user:id`, `user:id-unique`, `user:id-permissions`, `user:username`, TTL 1800 s | getOrSet; evict, delByPattern (never called) | Redis, users |
| Access tokens (`auth/strategies`, `auth/guards`, `auth/services/token.service.ts`) | none of their own: a JWT with id and tokenVersion | sign, validate | user cache |
| Browser session (`auth/services/auth-cookie.service.ts`, `auth/auth.controller.ts`) | two cookies | set, clear | sessions |
| Outbox (`src/src/shared/outbox`, `src/src/shared/events`) | rows of `outbox_events`, a flag per replica | pushEvent (never called), scanAndPublishEvents | event bus |
| Departments and ports (`departments`, `ports`) | rows of `departments`, `ports` | CRUD, validatePortBelongsToDepartment | each other |
| Media files (`files/files.service.ts`) | objects of one bucket | generateUploadUrl, findAllByPort, removeFile | ports, S3 |
| Roles, permissions, attributes (`roles`, `access-control`) | rows and association rows | CRUD with replacement of associations | transactions |
| Whitelist (`whitelist-ip`) | rows, which no guard reads | CRUD | |
| Lists (the `findManyPaginated` of six repositories) | none of their own | pages and totals | PostgreSQL |
| Errors (`src/src/prisma/prisma-error-handler.ts`, `src/src/common/exceptions`) | none | an error becomes a status and a code | |
| Database access (`src/src/prisma`) | connections and transactions | run, error mapping | PostgreSQL |

What is hard, component by component, and what makes it correct:

* **Sessions.** A refresh token may be rotated once, whichever replicas it is
  presented to at the same time; the successor stays in the family; a spent
  token presented again after the grace period is a replay. Concurrent logouts,
  password changes and deletions must not be undone by a rotation under way.
* **Users.** `token_version` must not lose an increment; a deletion must survive
  a concurrent PATCH; the reload that ends a PATCH rolls back what it cannot find.
* **User cache.** Nothing invalidates it: what is read from it may be up to half
  an hour old, and a slow reader may write back an older value still.
* **Access tokens.** They are checked against the cache, so revocation by
  version takes effect late and a token can be refused right after it is issued.
* **Browser session.** Answers that set and clear cookies can be reordered or lost; a
  refresh that fails for any reason clears both; the path of the refresh cookie keeps
  it from the logout endpoint.
* **Outbox.** Publish and mark are two steps; four workers do not know of each
  other; a listener that rejects an event makes all others hear it again; a batch that
  always fails blocks what is behind it.
* **Departments and ports.** Checks and writes are separate statements; the code of a
  department, which names its files, can be changed.
* **Media files.** A presigned URL outlives the check it was granted on; names are
  unique by a second and four characters; one call lists a thousand files.
* **Access control.** Association rows are replaced by delete and insert, row by row, and
  by a request that names the list alone without a lock on their owner;
  what `me` shows of them is read level by level while they change.
* **Lists and plain CRUD.** Pages are cut by offset out of snapshots of different times;
  two removals of one row both pass the check before the write; an answer of 500 may hide a
  write that was done.

`PROJECT.json` lists every hazard at its line with the properties that would
catch it going wrong.

## 2. The modules

| Module | What it is |
|---|---|
| `Sessions` | behaviour: accounts, refresh tokens and the requests that change them |
| `TokenFamilies` | abstract specification: what rotation promises |
| `Accounts` | abstract specification: what readers may rely on about an account |
| `SessionsProperties` | safety, action, refinement and liveness properties of `Sessions`, and the inductive invariant |
| `MCSessions` | the symmetry the TLC runs use |
| `SessionsProofs` | types and rotation: `TypeOK` with the shape of requests and `TokenInv` are inductive; accounts: `UserInv` and `DeadExplained` are; theorems |
| `AccessGuard` | behaviour: access tokens, the guard, `me` and the two cache keys they are answered from, with the life of entries |
| `AccessGuardProperties`, `MCAccessGuard` | how stale an answer can be; the symmetry of the runs |
| `Outbox` | behaviour: the outbox table, the workers of the replicas, crashes |
| `AtLeastOnce` | abstract specification: what an outbox promises |
| `OutboxProperties`, `MCOutbox` | the invariant, order, duplicates, refinement and liveness of `Outbox` |
| `AccessControl` | behaviour: users, roles, permissions and attributes, and the transactions that replace their links |
| `AccessMap` | abstract specification: one commit changes the links of one owner, to members that are present |
| `AccessControlProperties`, `MCAccessControl` | refinement, fidelity to the request, deadlock and the invariant of `AccessControl`; the symmetry of the runs |
| `AccessGuardProofs`, `OutboxProofs`, `AccessControlProofs`, `RulesProofs`, `MediaProofs`, `BrowserSessionProofs`, `ListsProofs` | the proofs about these modules |
| `Rules` | behaviour: the nested read behind `me`, over the tables of `AccessMap` while others change them |
| `RulesProperties`, `MCRules` | what an answer read in several snapshots is worth; the symmetry of the runs |
| `Media` | behaviour: departments, ports, media requests, presigned URLs and the object store |
| `MediaProperties`, `MCMedia` | traces of every effect to a check, names, deletions, and what a listing should show; the symmetry of the runs |
| `BrowserSession` | behaviour: tabs, one cookie jar and the answers of `/auth`, over `TokenFamilies` |
| `BrowserSessionProperties`, `MCBrowserSession` | how far a jar may be from its session; the symmetry of the runs |
| `Errors` | functions: `handlePrismaError` and `AllExceptionsFilter` |
| `Lists` | behaviour: a paged table with a unique key, the requests that write it and a client that walks its pages |
| `ListsProperties`, `MCLists` | rows missed, repeated and out of reach, totals, answers to writes; the symmetry of the runs |

The modules compose along the abstract specifications. `Sessions` implements
`TokenFamilies` and `Accounts`, and `BrowserSession` uses `TokenFamilies` as its server;
`AccessControl` implements `AccessMap`, and `Rules` reads while `AccessMap` takes its
steps; what `Rules` answers is what `AccessGuard` keeps in its cache as a version.
Otherwise modules share no variables. `Sessions` and `AccessGuard` meet in `users` and its
cache: what `Sessions` does to a row is the environment (`Change`, `Delete`) of
`AccessGuard`. That this environment is right is what `Accounts` is for: the versions a
reader sees grow one by one and end for good, which `Sessions` is proved to implement, and
the steps of its `version` are `Change("unique", u)` and `Delete(u)`. `Sessions` and `AccessControl` meet in `users` too: the first has the
columns that decide about a session, the second the links and the locks. A PATCH is
therefore in both, with the part of the row that each is about.

### State and actions of Sessions

`users` and `tokens` are the committed rows. An open transaction has written
`draftUsers` and `draftTokens`: at most one draft per row, which is PostgreSQL's
row lock. A writer of a drafted row is not enabled until the draft is gone, and
then evaluates its WHERE on the committed row it finds, as an UPDATE does at
READ COMMITTED. `Commit` publishes all drafts of a request at once, `Rollback`
and `Fail` drop them. Readers see committed rows, and the drafts of their own
transaction where the code reads back what it wrote (`PatchReload`).

`pc[p]` is the statement request `p` executes next, `req[p]` its arguments and
what it has read so far. A request is a slot over all replicas: two slots are two
requests anywhere. `cached` holds, for each user, the hashed password in the
snapshot Redis has under `user:id`; this is the only field of the snapshot a
modelled operation uses, because a cached account is always active.
`bumps`, `parent` and `dead` are auxiliary: they record history for the
properties and no guard reads them.

A password stands for its hash. A token family is named by the token whose login
opened it; the code draws a random identifier, and `Fresh` gives each row an
identity that no row and no draft has.

| Action | Code |
|---|---|
| `ReceiveLogin` … `ReceiveRemove` | the controllers; `ReceiveChangePassword` needs a session of the user, `ReceiveRefresh` accepts any token ever issued and one unknown |
| `LoginRead`, `LoginCreate` | `auth.service.ts:198-254`, two autocommitted statements |
| `RefreshClaim` | the conditional UPDATE, `auth.service.ts:267-283` |
| `RefreshOwner`, `RefreshCreate` | `auth.service.ts:284-302` |
| `RefreshStatus`, `ReplayRevoke`, `ReplayBump` | `auth.service.ts:304-337`; the throw after `ReplayBump` leads to `Rollback` |
| `Logout` | `auth.service.ts:343-354`, one autocommitted UPDATE |
| `UserLookup`, `UserRead`, `UserFill`, `Evict` | `getOrSet`, `cached.repository.ts:36-79`; expiry, eviction and Redis errors |
| `ChangeUpdate`, `ChangeScan`, `ChangeRevoke` | `auth.service.ts:396-409` |
| `PatchWrite`, `PatchReload` | `users.service.ts:155-207` |
| `RemoveCheck`, `RemoveWrite` | `users.service.ts:213-238` |
| `Commit`, `Rollback` | `prisma-transaction-manager.service.ts:10-14` |
| `Fail` | death of a replica, a lost connection, a deadlock victim, the 5 s timeout |
| `Tick` | the clock |

An UPDATE of several rows (`revokeFamily`, `revokeAllForUser`) is a snapshot of
the rows it will reach and one action per row, in any order, because it can wait
at each of them.

Data the properties do not tell apart is left out: names, device metadata,
roles, and the wording of errors (all errors of a request are the same answer,
except `not_found`, which a property is about).

### State and actions of AccessGuard

`Sessions` models who changes an account; `AccessGuard` models what readers of a
cached account see, and takes those changes as steps of its environment. What a
read of a key finds is a version number of that key: `token_version` for
`user:id-unique`, the roles and permissions of the user for `user:id-permissions`.
`cache[key][user]` is the snapshot in Redis and the ticks it has left, `issued` the
ticks the youngest access token of each version has left. `since` is auxiliary: the
ticks since a version stopped being the current one. Time is relative, so `Tick` is
never stopped: ages stand still at `Horizon`, beyond which no property looks.

| Action | Code |
|---|---|
| `Login`, `Sign` | `auth.service.ts:198-254`: the account is read, the JWT signed after later statements |
| `Present` | a request with an access token that has not expired (`access-token.guard.ts`) |
| `UserLookup`, `UserRead`, `UserFill` | `getOrSet`, `cached.repository.ts:36-79`, with the errors of Redis it swallows |
| `Validate` | `access-token.strategy.ts:38-60`; an accepted request goes on to `me` |
| `Me` | `auth.service.ts:356-372` |
| `Change`, `Delete`, `Tick`, `Lose` | a committed change of what the key shows, a deletion, the clock, the eviction of a key by Redis |

The loss of the last second of writes by a restarted Redis, which would bring an
older entry back, is not modelled.

### State and actions of Outbox

`row[e]` says whether the event is uncommitted, pending or processed. A scan is a
run of `scanAndPublishEvents` on a replica, with what is left of its batch; each
replica has two slots for scans, so that it is the flag `isProcessing`, not the
model, that keeps them apart. `delivered`, `refused`, `accepted`, `tried`, `losses` and
`before` are auxiliary. `emitAsync` calls all listeners and rejects if one of them does:
`delivered` counts the publications that reached a listener, `refused` those that some
listener rejected, and `accepted` has the events that all listeners of one process have
taken. A rejected publication may be in both counters, and the event stays pending, so
every scan publishes it to all listeners again.

| Action | Code |
|---|---|
| `PushEvent`, `Commit`, `Rollback` | `outbox.service.ts:10-19` and the end of its caller's transaction |
| `Poll`, `Scan` | `global-polling-outbox.worker.ts:31-47` |
| `Publish` (`Accept`, `Refuse`) | lines 46-56 and `local-event-bus.adapter.ts:13-16`; the other listeners of a rejected event have been called |
| `Mark` | lines 53-58; a failed update leaves the event pending |
| `Crash` | the process of a replica ends, `Poison` events are those a listener always rejects |

`pushEvent` has no caller and the bus no listener in this repository: both are the
environment of the model.

### State and actions of AccessControl

A user has roles, a role permissions, a permission attributes (through its
conditions): three times the same shape, an *owner* with a set of *members*.
`links` is the committed content of `user_roles`, `role_permissions` and
`permission_conditions`. `state` says of every row whether it was never inserted, is
present, or is gone; a user that is gone is marked only and keeps its row and links.
`locks` are PostgreSQL's row locks with the three modes that occur: `share` is taken
by a foreign key, `nokey` by an UPDATE that leaves the key alone, `full` by a DELETE
or an UPDATE of a name, which is a key. `put` and `cut` are the links an open
transaction has inserted and deleted, `fresh` (auxiliary) those that others committed
after its `deleteMany` had looked.

A PATCH names columns of the owner, a list of members, or both (`named`, `list`). Without
a column there is nothing to set: Prisma adds `updatedAt` to no empty update and issues a
SELECT, so a PATCH of the list alone locks its owner only when the foreign key of the
first link it inserts does (`CheckOwner`), after its `deleteMany`. Two of them work on
one owner at once: the second does not see what the first inserts. Two ids are the
key of a link of a user or a role, so that the same link cannot be inserted twice; a
condition has a key of its own (`Keyed`).

| Action | Code |
|---|---|
| `Create` | `users.service.ts:61-98`, `roles.service.ts:51-80`, `permissions.service.ts:19-47` up to the INSERT of the owner |
| `CreateAttribute` | `attribute.service.ts`, one autocommitted statement |
| `ReceiveUpdate`, `UpdateRow` | `users.service.ts:155-176`, `roles.service.ts:112-131`, `permissions.service.ts:48-60`: the owner's row is written first, if a column is named |
| `Scan`, `CutLink` | `deleteMany` of the owner's links, or the cascade of a deleted row: a snapshot, then one link at a time |
| `PutLink`, `CheckOwner`, `CheckLink` | `createMany`: the key of the link if it has one, then the foreign keys to owner and member |
| `Reload` | `findUserOrThrow` and `findRoleOrThrow` at the end of a PATCH |
| `ReceiveRemove`, `ReadRow`, `DeleteRow` | `users.service.ts:213-238`, `roles.service.ts:152-165`, `permissions.service.ts:85-96`, `attribute.service.ts:61` |
| `Commit`, `Rollback`, `Fail` | the end of the transaction; a lost connection, a deadlock victim, a timeout, a name in use |

`Replaces` has the one difference between owners: a user or a role keeps its set when
the request names none, a permission loses it.

### State and actions of Rules

`pc` is the level `me` has reached, `got` what the levels before have found. Prisma
reads a nested `select` with one statement per table and outside a transaction; that
it does, and in this order, is an assumption about the library. The tables change
as `AccessMap` allows, which `AccessControl` is proved to implement. An answer has the
names of the roles and the rules, which come from different levels. `moments` (what one
snapshot would have answered, at each moment of the read) and `commits` are auxiliary. A
row stands for its wording: a PATCH that renames a row is not told from one that leaves
its name.

| Action | Code |
|---|---|
| `ReadUser` | `findByIdWithPermissions` of `prisma-users.repository.ts:110-126`, called by `auth.service.ts:356` through the cache |
| `ReadRoles` … `ReadAttributes` | the levels of `userSelect`, `prisma-users.repository.ts:40-75` |
| `ToMeResponse` with `ExtractRules`, `DeduplicateRules`, `NormalizeConditions` | `auth.mapper.ts`: role names and rules |
| `Finish` | the answer, or an error of a statement: a required row is missing |
| `Others` | a step of `AccessMap` |

### State and actions of Media

`departments` and `ports` are rows, `requests` the handlers between a read and what
follows it, `urls` the presigned PUTs the store still honours, `objects` the keys in the
bucket. A key is code, port and name, and a name its second and its random characters.
`listing` is the answer of a listing in the step that gives it. `stood` is
auxiliary: when each department was last active under each code.

| Action | Code |
|---|---|
| `CreateDepartment`, `FindDepartment`, `UpdateDepartment`, `RemoveDepartment` | `departments.service.ts`: a read, then a write by id alone |
| `FindSite`, `CreatePort` | `ports.service.ts:28-44` |
| `FindPort`, `ValidatePort` | `ports.service.ts:46-66`, the two reads of the check |
| `GenerateUploadUrl` | `files.service.ts:83-152` after its check |
| `Put` | a client with the URL; external |
| `FindAllByPort`, `RemoveFile` | `files.service.ts:154-239` after their checks |
| `Fail` | an error or the end of the replica between two steps |
| `Tick` | the clock; URLs expire |

A call to the store that fails may have been carried out or not: `RemoveFile` and `Fail`.
`Lag` bounds the time a handler waits after a read, as in `AccessGuard`.

### State and actions of BrowserSession

`jar` holds the two cookies, each by the identity of the refresh token it was set
with. `tab` is what each tab waits for: the cookies that were sent, the jar at that
moment, and, once the server has decided, its answer. `family` and `parent` record where a
token comes from; `current` and `issued` are those of `TokenFamilies`.

| Action | Code |
|---|---|
| `Send` | a browser attaches the cookies whose path is a prefix of the request's (`auth-cookie.service.ts:21-34`); external |
| `Login`, `Refresh`, `Logout`, `ChangePassword` | `auth.controller.ts:58-134` with what the service does to families |
| `MissingCookie`, `Refused` | `refresh-token.guard.ts`, `access-token.guard.ts` |
| `Receive`, `Lose`, `Expire` | the answer reaches the jar or does not; a cookie expires |
| `RevokeElsewhere` | another device, an administrator, the expiry of a token |

A password change is one step here; that it can miss a rotation under way is in
`Sessions`. A refresh whose database fails may or may not have committed the rotation.

### State and actions of Lists

`list` says which of the six lists an instance is: they differ in deleting softly
(`Soft`), in reading before a write (`Checked`) and in passing on page and limit
(`Forwarding`). `createdAt` is the millisecond a row is created in, the times that occur
numbered without gaps; the row gets it before its INSERT is visible, so that it may appear
behind newer rows. Rows may share a millisecond, and the queries order by nothing else:
`Orders` are all orders in which the database may find the selected rows, another one for
each query, and `Pages` what `skip` and `take` cut out of one of them. A row is `Alone` if
it shares its millisecond with no other. A page is a set; nothing depends on the order
inside it. The answer to a write may be lost with its connection before or after the
statement is carried out: `Fail` and `Told`. `walk` is a client that asks for page
after page, with counters of what happened meanwhile, which no guard reads.

| Action | Code |
|---|---|
| `Create`, `Insert` | `create` of the six services and `PrismaRepository.create` |
| `Change`, `Check`, `Update`, `Delete` | `update` and `remove`, e.g. `whitelist-ip.service.ts:19-92`, `attribute.service.ts:54-65` |
| `Fail`, `Told` | an error before the statement is done, mapped by `Errors`; after it, 500 |
| `Start`, `FindMany`, `Count`, `Turn` | `findManyPaginated`: `findMany` and `count` in one transaction at READ COMMITTED, two snapshots; `totalPages` |
| `FailList` | an error of either |

## 3. Properties and runs

| Run | Instance | Checks |
|---|---|---|
| `sessions_rotation` | 1 user, 3 tokens, 2 requests, clock to 2, no account requests | `RotationChain`, `RotatedOnce`, `OneLivePerFamily`, `MissedClaimIsExplained`, `NoResurrection`, `RefreshRevokesItsTokenOnly`, `ImplementsTokenFamilies` |
| `sessions_accounts` | 1 user, 2 tokens, 2 requests, the clock stands still, no grace period, 2 account requests | `SessionsInv`, `ActiveIffNotDeleted`, `VersionCountsChanges`, `ImplementsAccounts`, `EveryRequestAnswered` |
| `password_change_sessions` | 1 user, 2 tokens, 2 requests | refutes `PasswordChangeEndsSessions` |
| `access_guard` | 1 user, 2 requests, 2 versions, TTL 1, Lag 1, no symmetry | `GuardInv`, `AnswersAreRecent`, `CurrentTokensRefusedBriefly`, `CacheConverges` |
| `outbox` | 2 events of which 1 is rejected for ever, 2 replicas, batches of 2, 1 rejection counted, 2 failures, no symmetry | `NoOvertaking`, `OutboxInv`, `DuplicatesAreExplained`, `DeliversAtLeastOnce`, `EventuallyProcessed` |
| `access_control` | 1 user, 1 role, 1 permission, 2 attributes, 2 requests | `ControlInv`, `UpdatesDoNotDeadlock`, `ChangesOneOwner`, `CommittedAsAsked` |
| `rules` | 1 user, 2 roles, 1 permission, 2 attributes, 2 commits during a read | `RulesInv`, `AnswerIsOneMoment` |
| `media` | 2 departments, 2 codes, 1 port, 2 requests, URLs for 1 s, Lag 1, clock to 2, pages of 1 | `MediaInv`, `EffectsNeedAStandingSite`, `FilesStayGone`, `DeletionsSettle` |
| `media_listing` | the same with 1 request and pages of 2 | refutes `ListingsShowEveryFile` |
| `browser` | 4 tokens, 2 tabs | `BrowserInv`, `JarFollowsRotation`, `SessionsAreNotLostQuietly` |
| `browser_logout` | 3 tokens, 2 tabs | refutes `LogoutEndsSession` |
| `lists` | each of the 6 lists, 3 rows, 3 keys, 2 requests, limits 1 and 2, default 1 | `ListsInv`, `WalksMissOnlyForRemovals`, `WalksRepeatOnlyForCreations`, `TotalsFitTheirPage`, `PermissionsShowTheFirstPage`, `AnswersTellTheOutcome` |

Bounds. `MaxTime` stops the clock; with `Grace = 1` and `Lifetime = 2` the value 2
is enough for a replay after the grace period and for an expired token.
In `sessions_accounts` the clock stands still and there is no grace period, so that every
spent token is a replay: what an account goes through does not depend on the time.
`MaxAccountRequests` bounds the requests for accounts, which could otherwise
increase `token_version` for ever; logins and refreshes are bounded by the pool of
tokens, and are received only while the pool has an identity for what they insert
(`Room`). Three tokens are a chain of two rotations, or a rotation and a second
family; two requests are enough for every conflict between a pair of
transactions. One user is enough because no statement of a request touches a
second user's rows. Two passwords suffice for a check that fails and one that
holds. Tokens and requests are symmetric in `sessions_rotation`; the runs with a liveness property use no symmetry.

Bounds of `AccessGuard`: `MaxVersion` stops the changes of a key; two versions are
one change, and what a property says concerns one superseded version. `Lag` bounds
the time a replica sits on a snapshot it has read; nothing in the code does, so the
results are of the form "as long as readers are no slower than Lag". With TTL 1 and
Lag 1 entries are written late, expire and are written late again. Two requests are
a slow reader and a fast one. Bounds of `Outbox`: two events are one that is rejected for
ever and one behind or before it, and `Batch` is one more than the rejected ones, as
`EventuallyProcessed` requires; `MaxTime = 1` lets events share a millisecond or not;
`MaxFailures` counts crashes, failed queries and rejections of events that are not
poisoned, `MaxRefusals` the rejections of one event a replica still counts, beyond which
another one changes nothing the properties see. Batches that do not hold all pending
events are left to the theorems, which are about any `Batch` and any number of events.

`AccessControl` needs no bound but its sets: a row is inserted and removed once, and
nothing counts. Every initial content is tried. Two attributes are two members of one
permission, so that a set can be replaced in part, links can be taken in two orders and
the sets of two updates can mix; the user, the role and the permission are owners whose
member is an owner, so that a deletion can cascade in both directions.

Bounds of `Rules`: two roles with one permission each are two ways to a rule, and two
attributes are conditions that can change in part. Two commits are one more than
`AnswerIsOneMoment` allows, so that its hypothesis is not met by the bound alone. Bounds
of `Media`: `MaxNow`, the clock, and `MaxFiles`, the names in use at once. Two departments
and two codes allow a department to leave a code and another to take it; with the clock at
2 a URL can be signed, outlive the check it was signed after by a second, and expire. Two
requests are a check and what overtakes it. Bounds of `BrowserSession`: its pool of tokens;
four are a login, a rotation, a second login and one more rotation, in two tabs whose
answers can come in either order. `Lists` is bounded by its rows: of three, some are there
at the start and the others still to come; they share a millisecond or not, are pages of
one or two that a write can shift, and the default limit of one is less than they are.

What the runs show:

* The claim in one conditional UPDATE makes rotation safe: a token has at most one
  committed successor, families are chains with at most one usable token, and
  every commit is one step of `TokenFamilies` (open, rotate, revoke).
* When the claim matches nothing, the statement that reads the row afterwards
  always finds a reason, so the last `throw` of `refresh` is unreachable.
* Replay detection changes nothing. The family is revoked and the version
  incremented in the transaction that the exception then rolls back, so a replay
  ends with every other token as usable as before (`RefreshRevokesItsTokenOnly`)
  and the version as it was (`VersionCountsChanges`).
* A password change does not end all sessions: a rotation or a login under way
  inserts a row the UPDATE does not reach. `PasswordChangeEndsSessions`, which
  restates `auth.service.spec.ts:252`, is refuted.
* PATCH with `isActive: false` cannot succeed: the reload looks for an active
  account, answers 404 and the change is rolled back. That is the reason why
  `ActiveIffNotDeleted` holds, also for a PATCH that has waited for a DELETE.
* A password never changes without the version, however requests race, so every access token
  signed before the change is outdated by it (`ImplementsAccounts`).
* Every request is answered, even when replay and password change deadlock.
* A superseded or deleted account passes the guard for less than `TTL + 2 Lag`
  (`AnswersAreRecent`). In the other direction a user who changes the password and logs in
  again may be refused as outdated with a token of the current version, but no longer
  than that (`CurrentTokensRefusedBriefly`); `access-token.strategy.ts:51` then names the
  older version as the current one.
* The cache goes back to an older version when a slow reader writes it, and still
  converges when changes stop (`CacheConverges`).
* The outbox implements `AtLeastOnce` with any number of replicas and crashes. A replica
  publishes an event twice only after a crash, a failed mark or a rejection
  (`DuplicatesAreExplained`); all replicas together publish it up to once each in the
  normal course of things. A rejection is the reason that repeats itself: one listener
  that rejects an event for ever makes all its other listeners hear it at every scan of
  every replica.
* What the duplicates are bounded by is the replica: an event is published in the
  process that found it and need not reach a listener of any other.
* Events are tried in order of creation with the exception that a later millisecond can
  commit first. Fewer rejected events than a batch holds cannot stop the others;
  with a full batch of them every scan reads these and nothing else.
* What an update of a user, a role or a permission commits holds the whole list that was
  asked for, and beyond it only links that others committed after its `deleteMany`
  (`CommittedAsAsked`); links always lead from an owner to members that are present, and
  one commit changes the links of one owner (`ChangesOneOwner`). The exception is what two
  PATCHes that name a list and no column do to each other: neither locks the owner before
  it deletes, and the owner is left with the members of both lists, which no one asked for
  (`update-user.dto.ts:51` calls the field the new list of roles). A PATCH that also
  names a column locks its owner first, and nothing mixes.
* Creations, and updates that write their owner's row, wait for each other in no circle
  (`UpdatesDoNotDeadlock`). Updates of the list alone, and deletions, whose cascades
  reach links of owners they have not locked, can deadlock with them and with each other,
  and then PostgreSQL ends one of the two.
* A PATCH of a permission without `conditions` deletes its conditions, where one of a
  user or a role keeps its set: `Asked` in `CommittedAsAsked` states both.
* What `me` answers while one other request commits, role names and rules together, is what
  one moment would have answered, although its levels come from different snapshots, with
  two exceptions: a role that is deleted meanwhile may be named without its rules, and a
  permission that is deleted meanwhile may be answered without its conditions
  (`AnswerIsOneMoment`). With two commits during a read an answer can be a mixture that
  never held.
* Whatever is done to the files or ports of a department is done within `Lag`, and an
  upload within `Lag + UrlLife`, of a moment at which the department was active under the
  code of the path (`EffectsNeedAStandingSite`): the checks are two statements away from
  the effect, but neither a deletion nor a change of code leaves a way in that lasts. A
  department that takes the code of another does not reach its files.
* A removed file does not come back after its upload URL has expired; until then it can
  (`FilesStayGone`).
* A listing of a port is not the list of all its files that `files.controller.ts:118` says
  it is: `ListingsShowEveryFile` is refuted. PATCH of a department's code moves no object,
  so what was uploaded under the old code is in no listing; and of more than a thousand
  keys the rest is left out. The theorem `ListingsComplete` says that there is no third way.
* A PATCH of a department that waited for its DELETE changes a deleted row, but does not
  revive it (`DeletionsSettle`).
* The refresh token in a jar is replaced by its own successor or by another session's
  only through a login or overlapping requests (`JarFollowsRotation`). A browser that
  sends one request at a time loses a session the server still honours only to an expired
  cookie, a lost answer, an error of the server or a login; with two requests in flight a
  refresh that lost the race can clear what the winner has set
  (`SessionsAreNotLostQuietly`).
* A logout never ends a session: the refresh cookie has the path of the refresh endpoint
  and is not sent with it, so the handler throws 401 before anything is revoked or
  cleared. `LogoutEndsSession`, which restates `auth/auth.controller.ts:95`, is refuted.
* A walk over the pages of users, roles, departments or the whitelist misses no more of the
  rows that stood throughout than rows were removed meanwhile, and repeats no more than
  were created. This is so of rows that share their millisecond with no other. Nothing
  orders the others, so a walk may miss or repeat them though nobody writes; a tie-break
  by id would end that.
* The lists of permissions and attributes have one page, whatever is asked and whatever meta
  says, although `permissions.controller.ts:61` and `attribute.controller.ts:58` document
  paging: `PermissionsShowTheFirstPage` holds of the code, and a walk never gets beyond the
  first ten. Attributes come in no order, so that even this page is not fixed.
* An answer below 500 tells what became of a write, and of two removals of a row one is told
  that it is gone (`AnswersTellTheOutcome`, `RemovedByOne`), except in the lists that keep
  deleted rows, where both succeed. An answer of 500 tells nothing: the connection may have
  been lost after the row was written.

Fairness. `FairSpec` assumes strong fairness of `Step(p)`: a handler runs as long
as its replica does, and PostgreSQL serves the waiters of a row lock in turn, so a
statement that can proceed again and again does. It assumes weak fairness of
`Fail(p)` only while a transaction waits and cannot proceed: the deadlock
detector or Prisma's five-second timeout ends it. Nothing forces requests to
arrive, the clock to advance or other failures to happen. In `AccessGuard` weak fairness
of `Tick` and of `Step(p)` says that time passes and that a replica resumes a handler
whose await has settled. In `Outbox` the timer of every replica fires again and again and
the loop goes on as long as its process lives; crashes are bounded by `MaxFailures`. The
other modules state no liveness and assume no fairness.

Each property of a passing run has a mutant beside the definition it changes
(`ClaimableUnchecked`, `LogoutUnlocked`, `PatchReloadUnchecked`, …): the same code
with a plausible mistake, for which TLC finds the property violated.

## 4. Proofs

The theorems hold for all values of the constants that satisfy the assumptions beside
their declarations: durations and bounds are natural numbers, batches and lives of
entries are not zero, kinds of rows are disjoint, `None` and `NoToken` are none of the other
values; in `Outbox` the set of events is finite, and in `Lists` the set of rows is, and no
limit is zero.

* `SessionsProofs` first proves that `TypeOK /\ RequestShape` is inductive.
  `RequestShape` says which statements belong to which kind of request and what a
  request carries there; without it no assignment to a row can be typed.
  `TokenInv` is inductive relative to it. The
  safety properties of rotation are not inductive alone: that a commit keeps
  them depends on what the drafts are. `TokenDrafts` says that a draft of a
  committed row revokes it and a draft of a new row is the successor of the token
  its transaction has claimed, `OneInsert` that a transaction inserts at most one
  row, `ClaimHeld` that a claimed token stays usable and locked until the commit,
  and `TokenWriters` who can have drafts at all. There is one lemma per action that
  writes rows of tokens (`LoginCreateStep`, `LogoutStep`, `ClaimStep`,
  `RefreshCreateStep`, `RevokeRowStep`, `CommitStep`), and two for all the others
  (`DiscardStep`, `MoveStep`).
* From it follow `TypeCorrect`, `RotationsFormChains`, `RotationIsSafe`,
  `FamiliesHaveOneHead`, `MissesAreExplained`, `RevokedForGood` and `ReplayLeavesFamilies`,
  and the refinement `SessionsRotateFamilies`: a commit of a login opens a family, one of
  a refresh rotates the family of the token it has held since its claim (`FamilySteps`),
  and all else that reaches committed rows revokes; `CurrentIs` says what the
  refinement mapping chooses, which needs `OneLivePerFamily`.
* The second half of `SessionsProofs` proves that `UserInv` is inductive, and with it
  `SessionsInv`. `UserDrafts` explains each draft of an account by the statement its
  transaction has reached: a password change keeps `isActive` and `deletedAt` and adds
  one to the version, a PATCH keeps `deletedAt` and reaches its commit only with an
  account the reload has found, a DELETE marks the account, and the increment of a
  replay is on its way to a rollback. `UserHeld` is the converse: a transaction at
  such a statement has its draft, so no increment is lost. `CommittedUsers` draws
  from both what a commit does to a row. `DeadExplained` says why a refresh came too
  late; since revoked tokens and deleted accounts stay so, it is stopped by its
  claim or by the check of the owner. From these follow `ActiveMeansNotDeleted`,
  `AccountsAreSafe`, `DeletedForGood` (`DeletionIsFinal`), `DeadStayDead` and `SessionsInvariant`, and the
  refinement `SessionsChangeAccounts`: only a commit changes rows of users, it changes one,
  and a row that keeps its version keeps its password (`AccountSteps`).
* `AccessGuardProofs` proves that `GuardInv` is inductive. Its core is a sum: the age of a
  superseded version and the life left to its entry never exceed `TTL + Lag`, because a
  tick takes from the one what it adds to the other and a reader writes what it found
  at most `Lag` ticks ago. `AnswersRecent` adds the age of the reader; `RefusedBriefly`
  needs that versions are superseded in their order.
* `OutboxProofs` proves `OutboxInv` scan by scan: a step of one scan leaves the shape and
  the order of the others' batches alone, for what is committed stays so and what has been
  tried stays tried. `NoneOvertakes` follows since a batch is a prefix of what is
  pending and is worked off in order. `DuplicatesExplained` follows from the flag that
  allows one scan per replica: `AgainForAReason` says that a replica has published an event
  no more often than it has reasons, or once more and then is about to mark it or has, and
  reads it no more. `OutboxDelivers` maps every step to one of `AtLeastOnce`, with
  `MarkedIsAccepted` for the marks.
* `AccessControlProofs` proves `ControlInv` request by request. A step that is not a commit
  leaves the other requests and their locks alone; a commit is the only one that changes
  the tables, and whatever another request relies on is guarded by a lock that conflicts
  with those of the committing one (`LocksExclude`), or is accounted for in `fresh`: an
  update that has not named a column holds its owner only from `CheckOwner` on
  (`OwnerHeld`). `AsAsked` and the refinement `Implements` read the links of an owner off
  the drafts of the commit (`FoundIsCut`: what was found is cut or fresh). `NoCircle`
  follows from `WaitEdges`, for requests that create or write a column: nobody waits for
  one that is still at its owner's row, and one that is past it waits only for requests
  whose owner is a member of its own, further down from users over roles to permissions.
* `MediaProofs` proves `MediaInv`: a request is traced to the read of its department, a URL
  to the request that signed it, an object to its URL, and `stood` only grows. The
  action properties follow; `ListingsComplete` needs in addition that the store is
  always finite. It proves `ListingsExplained`, which no run checks: a listing that breaks
  `ListingsShowEveryFile` is full, or leaves out a file under another code that the
  department of the port did bear.
* `RulesProofs` predicts the answer: `MeDue` is what a read under way will answer, role names
  and rules, if nobody commits any more, the levels it has yet to read taken from the tables as they are. The
  steps of the read do not change it; as long as nobody has committed it is what one
  moment answers (`DueNow`), and `CommitSeen` goes through what one step of `AccessMap`
  can do to it: the links of one owner are rewritten or one row is erased, so only one
  level of the read is touched, and what is due is the answer of before or the one of after, but for what was deleted.
* `BrowserSessionProofs` proves `BrowserInv`, which says three things: families are
  chains with one childless token, the only one that may be usable (`FamiliesAreChains`);
  the successor of the token in the jar has never been in it (`JarLeads`); and a token on its
  way is childless, in one answer only, and succeeds the jar's token if the jar is in its
  family at all (`AnswersFit`). What the endpoints do to families is one lemma
  (`ServerKeeps`): tokens keep their ancestors, and the new ones descend from what the request
  sent. `JarIsLed` and `SessionsKept` follow step by step from the invariant.
* `ListsProofs` proves `ListsInv`, whose core counts rows about one border: `Fetched` is the
  number of places the pages fetched so far cover, `Missed` are the rows in these places that
  were never shown, `Ahead` the shown ones behind them. An order of the database fills the
  places from 0 to the number of rows less one, so a page has as many rows as it is due
  (`Between`, `PageHolds`). A row that is alone has one place in all of them, the number of
  rows created after it (`PlaceIsPosition`, `OnPage`), and only such rows are counted. One row more or less moves the others by at most one place, all
  in the same direction, and so at most one of them over the border (`PosOfMore`,
  `PosOfFewer`): a removal adds at most one to `Missed` and none to `Ahead`, a creation the
  other way round (`Shrink`, `Grow`). `FindMany` moves the border behind the page it
  fetches: the rows of the page are shown, so `Missed` does not grow, and those of them that
  were in `Ahead` leave it as repeats. When a walk ends, `totalPages` says that all rows lie below the
  border, and what was not shown is in `Missed`. `CountFits` needs that what is due grows by
  at most one with each row. From these follow `ListsInvariant`, `MissedForRemovals`,
  `RepeatedForCreations` and `TotalsFit`. `AnswersTold` needs only that a row that is stamped
  waits for the one request that creates it. `OnlyTheFirstPage` is an invariant of its own: a
  row is shown within the first ten places, and only a creation moves it behind them.

Only model-checked: `EveryRequestAnswered`, `CacheConverges` and `EventuallyProcessed`
(liveness under fairness is beyond the prover). `PasswordChangeEndsSessions`,
`LogoutEndsSession` and `ListingsShowEveryFile` are what the code does not fulfil.

## 5. Not modelled

In the modelled components:

* `register`, which is `create` without roles; the metadata of a session;
  `createSessionForUser`, `ensureRefreshTokenUsable`, `evict` and `delByPattern`, which
  nothing calls. `delByPattern` would resolve before its deletions are done.
* That `changePassword` verifies the current password against an account cached for up to
  half an hour, which no write invalidates, is what `Sessions` does (`UserFill`); no property
  states more than that, because the code promises nothing about it.
* In `Sessions` the users of an instance exist from the start; their creation is in
  `AccessControl`. There a role has no parent (`parent_role_id`, which no code follows, set
  to NULL when the parent is deleted), a condition no logic besides its attribute, so that
  a permission has at most one condition for each, and names are left out: a name in use
  ends the transaction as `Fail` does, and so does a member listed twice for a user or a
  role. An attribute listed twice for a permission leaves two rows, as `permission_conditions`
  has no key over its ids; so do two updates that both insert it. The model has one link
  for them. In `Lists` the name is the unique key. In `Rules` the wording of a row is fixed.
* The endpoints of `files.controller.ts:151-286`, which answer constants, and
  `test-upload-directly-via-swagger`, which is one more client of an upload URL. The size
  and extension of a file refuse a request before it acts and depend on nothing else.
* `sortBy` and `search` of the lists: the rows a list selects are all there are, in the
  order of creation or in any order. Failures of most lists are not mapped by
  `handlePrismaError`, because the repositories return the promise without awaiting it;
  the status of a failed list is no part of the model.
* The parsing of token lifetimes: a value without a unit is seconds to one reader
  and milliseconds to another, but the default has one.
* The limit of 40 connections of the pool: a request that waits for a connection has
  taken no step yet.

External and modelled by what the code relies on: PostgreSQL at READ COMMITTED with its
row locks and deadlock detector, Redis with expiry, eviction and errors (not the loss of
its last second of writes), Prisma's nested reads, the JWT library, the S3 store with
presigned URLs, and the browser.

Validation of environment and DTOs, logging, pipes, interceptors and Swagger keep no state
and decide nothing but shapes and formats.

## 6. Plan

What could be added, in order of importance:

1. The parents of roles in `AccessControl`: two renames that make each other's role the
   parent wait for each other, which `UpdatesDoNotDeadlock` would then have to except.
2. The parsing of lifetimes, as a function against a reference definition.
