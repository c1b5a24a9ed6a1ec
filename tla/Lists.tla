------------------------------- MODULE Lists -------------------------------
(***************************************************************************)
(* The six paged lists, each a table with a unique key, its requests that  *)
(* create, update and remove rows, and a client that walks its pages.      *)
(*                                                                         *)
(* A row takes its createdAt before the statement that inserts it is       *)
(* committed, so a row may appear behind rows that were created later.     *)
(* createdAt counts milliseconds: rows may share it, and nothing else      *)
(* orders them, so two pages may show such rows in two orders.             *)
(* findMany and count stand in one $transaction but each has a snapshot    *)
(* of its own (READ COMMITTED).                                            *)
(***************************************************************************)
EXTENDS Integers, FiniteSets, Functions, Errors

CONSTANTS
    Ids,           \* rows that may ever be created
    Keys,          \* username, name, code or address: unique in the table
    Requests,
    None,
    Limits,        \* what clients ask for
    DefaultLimit,  \* 10
    Rows           \* bound on the rows at the start

Answers == [status : Nat, errorCode : {"none", "HTTP_EXCEPTION", "INTERNAL_SERVER_ERROR", "DB_VAL_001", "DB_CON_001"}]
Request == [op : {"create", "update", "remove"}, id : Ids, key : Keys,
            pc : {"check", "write", "done"}, answer : Answers \cup {None}]

ASSUME ListsConstants ==
    /\ Limits \subseteq Nat \ {0} /\ DefaultLimit \in Nat \ {0} /\ Rows \in Nat
    /\ IsFiniteSet(Ids)
ASSUME NoneIsNone == None \notin Keys /\ None \notin Answers /\ None \notin Request

VARIABLES
    list,       \* which of the lists this is
    createdAt,  \* of each row, the times that occur being numbered 1, 2, ...; 0 before
    rows,
    requests,
    walk        \* the client: the page it is at, the rows it has been shown

vars == <<list, createdAt, rows, requests, walk>>

Paged == {"users", "roles", "departments", "whitelist", "permissions", "attributes"}
Soft == {"users", "departments"}                       \* deletedAt instead of DELETE
Checked(op) ==                                         \* read before the write
    \/ list \in {"users", "departments", "whitelist"}
    \/ list = "roles" /\ op = "remove"
Forwarding == Paged \ {"permissions", "attributes"}    \* page and limit reach the repository

Row == [state : {"unused", "stamped", "live", "deleted", "gone"}, key : Keys \cup {None}]
Walk == [pc : {"idle", "find", "count", "shown", "done", "failed"}, page : Nat \ {0}, limit : Nat \ {0},
         items : SUBSET Ids, total : Nat, seen : SUBSET Ids, watched : SUBSET Ids,
         repeats : Nat, inserted : Nat, removed : Nat, skew : Nat]

LTypeOK ==
    /\ list \in Paged
    /\ createdAt \in [Ids -> Nat]
    /\ rows \in [Ids -> Row]
    /\ requests \in [Requests -> Request \cup {None}]
    /\ walk \in Walk

Live == {i \in Ids : rows[i].state = "live"}
Created == {i \in Ids : createdAt[i] > 0}

Init ==
    /\ list \in Paged
    /\ createdAt \in [Ids -> 0..Rows]
    /\ Cardinality(Created) <= Rows
    /\ \A i \in Created : \A t \in 1..createdAt[i] : \E j \in Created : createdAt[j] = t
    /\ \E key \in [Ids -> Keys] :
           /\ \A i, j \in Created : key[i] = key[j] => i = j
           /\ rows = [i \in Ids |-> IF createdAt[i] > 0 THEN [state |-> "live", key |-> key[i]]
                                    ELSE [state |-> "unused", key |-> None]]
    /\ requests = [q \in Requests |-> None]
    /\ walk = [pc |-> "idle", page |-> 1, limit |-> 1, items |-> {}, total |-> 0, seen |-> {}, watched |-> {},
               repeats |-> 0, inserted |-> 0, removed |-> 0, skew |-> 0]

-----------------------------------------------------------------------------
(***************************************************************************)
(* Writes.  What the walk records of them is auxiliary.                    *)
(***************************************************************************)
Stored(i) == rows[i].state \in {"live", "deleted"}
Ok == [status |-> 200, errorCode |-> "none"]
Holders(k) == {i \in Ids : rows[i].state \in {"live", "deleted"} /\ rows[i].key = k}

Walking == walk.pc \in {"find", "count", "shown"}
Noted(inserted, removed) ==
    walk' = IF ~Walking THEN walk
            ELSE [walk EXCEPT !.watched = @ \cap {i \in Ids : rows'[i].state = "live"},
                              !.inserted = @ + inserted, !.removed = @ + removed,
                              !.skew = IF walk.pc = "count" THEN @ + inserted + removed ELSE @]

Answered(q, answer) ==
    requests' = [requests EXCEPT ![q].pc = "done", ![q].answer = answer]
\* The connection may be lost before the statement, or its COMMIT, is acknowledged.
Unacknowledged == Failure("P1017")
Told(q, answer) == \E told \in {answer, Unacknowledged} : Answered(q, told)
Ask(q, op, i, k, pc) ==
    /\ requests[q] = None
    /\ requests' = [requests EXCEPT ![q] = [op |-> op, id |-> i, key |-> k, pc |-> pc, answer |-> None]]

Create(q, i, k) ==
    /\ rows[i].state = "unused"
    /\ Ask(q, "create", i, k, "write")
    /\ rows' = [rows EXCEPT ![i] = [state |-> "stamped", key |-> k]]
    /\ \E now \in 1..Cardinality(Ids) :      \* in the last millisecond that was taken, or later
           /\ \A j \in Ids : createdAt[j] <= now
           /\ \E j \in Ids : createdAt[j] >= now - 1
           /\ createdAt' = [createdAt EXCEPT ![i] = now]
    /\ UNCHANGED <<list, walk>>

\* PATCH and DELETE; the client knows the id from a list it was shown.
Change(q, op, i, k) ==
    /\ rows[i].state \in {"live", "deleted", "gone"}
    /\ op = "remove" \/ list = "users" => k = rows[i].key   \* DELETE, and PATCH of a user, name no key
    /\ Ask(q, op, i, k, IF Checked(op) THEN "check" ELSE "write")
    /\ UNCHANGED <<list, createdAt, rows, walk>>

\* find...OrThrow
Check(q) ==
    LET found == rows[requests[q].id].state = "live" IN
    /\ requests[q] # None /\ requests[q].pc = "check"
    /\ IF found THEN requests' = [requests EXCEPT ![q].pc = "write"]
                ELSE Answered(q, Caught(Http(404)))
    /\ UNCHANGED <<list, createdAt, rows, walk>>

Writing(q, op) == requests[q] # None /\ requests[q].pc = "write" /\ requests[q].op = op

Insert(q) ==
    LET i == requests[q].id
        taken == Holders(requests[q].key) # {}
    IN
    /\ Writing(q, "create")
    /\ rows' = [rows EXCEPT ![i].state = IF taken THEN "gone" ELSE "live"]
    /\ Told(q, IF taken THEN Failure("P2002") ELSE Ok)
    /\ Noted(IF taken THEN 0 ELSE 1, 0)
    /\ UNCHANGED <<list, createdAt>>

\* Mutant of Update: upsert instead of update.
UpdateOrCreate(q) ==
    LET i == requests[q].id
        k == requests[q].key
        taken == Holders(k) \ {i} # {}
    IN
    /\ Writing(q, "update")
    /\ rows' = IF taken THEN rows ELSE [rows EXCEPT ![i] = [state |-> "live", key |-> k]]
    /\ Answered(q, IF taken THEN Failure("P2002") ELSE Ok)
    /\ UNCHANGED <<list, createdAt, walk>>
Update(q) ==
    LET i == requests[q].id
        k == requests[q].key
        found == IF list = "users" THEN rows[i].state = "live"   \* or it is undone at the reload
                 ELSE Stored(i)
        taken == Holders(k) \ {i} # {}
    IN
    /\ Writing(q, "update")
    /\ rows' = IF found /\ ~taken THEN [rows EXCEPT ![i].key = k] ELSE rows
    /\ Told(q, IF ~found THEN Failure("P2025")
               ELSE IF taken THEN Failure("P2002") ELSE Ok)
    /\ UNCHANGED <<list, createdAt, walk>>

\* Mutant of Delete: deleteMany instead of delete, which finds no row without an error.
DeleteMany(q) ==
    LET i == requests[q].id IN
    /\ Writing(q, "remove")
    /\ rows' = IF Stored(i)
               THEN [rows EXCEPT ![i].state = IF list \in Soft THEN "deleted" ELSE "gone"]
               ELSE rows
    /\ Answered(q, Ok)
    /\ Noted(0, IF i \in Live THEN 1 ELSE 0)
    /\ UNCHANGED <<list, createdAt>>
Delete(q) ==
    LET i == requests[q].id IN
    /\ Writing(q, "remove")
    /\ rows' = IF Stored(i)
               THEN [rows EXCEPT ![i].state = IF list \in Soft THEN "deleted" ELSE "gone"]
               ELSE rows
    /\ Told(q, IF Stored(i) THEN Ok ELSE Failure("P2025"))
    /\ Noted(0, IF i \in Live THEN 1 ELSE 0)
    /\ UNCHANGED <<list, createdAt>>

\* The pool has no connection, or a deadlock: the statement did nothing.
Fail(q, code) ==
    /\ requests[q] # None /\ requests[q].pc \in {"check", "write"}
    /\ rows' = [rows EXCEPT ![requests[q].id].state = IF @ = "stamped" THEN "gone" ELSE @]
    /\ Answered(q, Failure(code))
    /\ UNCHANGED <<list, createdAt, walk>>

-----------------------------------------------------------------------------
(***************************************************************************)
(* Lists.  The orders a query may find the selected rows in, and the page  *)
(* that skip and take cut out of one.                                      *)
(***************************************************************************)
\* The latest stamp first; rows with the same stamp in any order, another one each time.
Orders(selected, stamp) ==
    {order \in Injection(selected, 0..(Cardinality(selected) - 1)) :
        \A i, j \in selected : stamp[i] > stamp[j] => order[i] < order[j]}

Skip(page, limit) == (page - 1) * limit
\* Mutant of Page: the last row of a page is the first of the next.
PageOneMore(order, page, limit) ==
    {i \in DOMAIN order : order[i] \in Skip(page, limit)..(Skip(page, limit) + limit)}
Page(order, page, limit) ==
    {i \in DOMAIN order : order[i] \in Skip(page, limit)..(Skip(page, limit) + limit - 1)}
Pages(selected, stamp, page, limit) == {Page(order, page, limit) : order \in Orders(selected, stamp)}

\* Auxiliary: no other row has taken its createdAt in the same millisecond.
Alone(i) == \A j \in Created : createdAt[j] = createdAt[i] => j = i

\* The rows of two repositories are deleted softly: deletedAt IS NULL.
NotDeleted == Live
Kept == {i \in Ids : Stored(i)}

UsersPage(page, limit) == Pages(NotDeleted, createdAt, page, limit)
DepartmentsPage(page, limit) == Pages(NotDeleted, createdAt, page, limit)
RolesPage(page, limit) == Pages(Kept, createdAt, page, limit)
WhitelistPage(page, limit) == Pages(Kept, createdAt, page, limit)
PermissionsPage(page, limit) == Pages(Kept, createdAt, page, limit)
\* The base repository orders by nothing unless sortBy is given.
AttributesPage(page, limit) == Pages(Kept, [i \in Ids |-> 0], page, limit)

\* What the services pass on: two of them take page and limit out of the query.
FindUsers == UsersPage(walk.page, walk.limit)
FindRoles == RolesPage(walk.page, walk.limit)
FindDepartments == DepartmentsPage(walk.page, walk.limit)
FindWhitelist == WhitelistPage(walk.page, walk.limit)
\* Mutant of FindPermissions: page and limit are passed on.
FindPermissionsForwarded == PermissionsPage(walk.page, walk.limit)
FindPermissions == PermissionsPage(1, DefaultLimit)
FindAttributes == AttributesPage(1, DefaultLimit)

Served ==
    CASE list = "users" -> FindUsers
      [] list = "roles" -> FindRoles
      [] list = "departments" -> FindDepartments
      [] list = "whitelist" -> FindWhitelist
      [] list = "permissions" -> FindPermissions
      [] list = "attributes" -> FindAttributes

Start ==
    /\ walk.pc = "idle"
    /\ \E limit \in Limits : walk' = [walk EXCEPT !.pc = "find", !.limit = limit, !.watched = Live]
    /\ UNCHANGED <<list, createdAt, rows, requests>>

FindMany ==
    /\ walk.pc = "find"
    /\ \E items \in Served :
           walk' = [walk EXCEPT !.pc = "count", !.items = items, !.skew = 0,
                                !.seen = @ \cup items,
                                !.repeats = @ + Cardinality({i \in items \cap walk.seen : Alone(i)})]
    /\ UNCHANGED <<list, createdAt, rows, requests>>

\* Mutant of Count: the deleted rows are counted too.
CountDeletedToo ==
    /\ walk.pc = "count"
    /\ walk' = [walk EXCEPT !.pc = "shown", !.total = Cardinality(Kept)]
    /\ UNCHANGED <<list, createdAt, rows, requests>>
Count ==
    /\ walk.pc = "count"
    /\ walk' = [walk EXCEPT !.pc = "shown", !.total = Cardinality(Live)]
    /\ UNCHANGED <<list, createdAt, rows, requests>>

\* Mutant of TotalPages: Math.floor for Math.ceil.
TotalPagesFloor == walk.total \div walk.limit
TotalPages == (walk.total + walk.limit - 1) \div walk.limit

\* The client asks for the pages up to the totalPages of the last answer.
Turn ==
    /\ walk.pc = "shown"
    /\ walk' = IF walk.page < TotalPages
               THEN [walk EXCEPT !.pc = "find", !.page = @ + 1, !.items = {}, !.total = 0]
               ELSE [walk EXCEPT !.pc = "done"]
    /\ UNCHANGED <<list, createdAt, rows, requests>>

FailList ==
    /\ walk.pc \in {"find", "count"}
    /\ walk' = [walk EXCEPT !.pc = "failed"]
    /\ UNCHANGED <<list, createdAt, rows, requests>>

-----------------------------------------------------------------------------
FailureCodes == {"P2024", "P2034"}

Next ==
    \/ \E q \in Requests :
           \/ \E i \in Ids, k \in Keys :
                  \/ Create(q, i, k)
                  \/ \E op \in {"update", "remove"} : Change(q, op, i, k)
           \/ Check(q) \/ Insert(q) \/ Update(q) \/ Delete(q)
           \/ \E code \in FailureCodes : Fail(q, code)
    \/ Start \/ FindMany \/ Count \/ Turn \/ FailList

Spec == Init /\ [][Next]_vars
=============================================================================
