--------------------------- MODULE AccessControl ---------------------------
(***************************************************************************)
(* Users with their roles, roles with their permissions and permissions    *)
(* with the attributes of their conditions.  An update replaces the links  *)
(* of its owner in one transaction: it writes the owner's row if the       *)
(* request names a column of it, deletes the links one statement finds and *)
(* inserts the listed ones.  The deletion of a role, a permission or an    *)
(* attribute cascades to its links; that of a user only marks the user.    *)
(*                                                                         *)
(* PostgreSQL is at READ COMMITTED: every statement sees what is committed *)
(* when it starts, waits for the locks of others and then looks again.     *)
(***************************************************************************)
EXTENDS FiniteSets

CONSTANTS Users, Roles, Permissions, Attributes, Requests, Unset, None

Owners == Users \cup Roles \cup Permissions
Members(o) == IF o \in Users THEN Roles ELSE IF o \in Roles THEN Permissions ELSE Attributes
Rows == Owners \cup Attributes

ASSUME KindsAssumption ==
    /\ Users \cap (Roles \cup Permissions \cup Attributes) = {}
    /\ Roles \cap (Permissions \cup Attributes) = {} /\ Permissions \cap Attributes = {}
    /\ None \notin Rows
    /\ \A o \in Owners : \A S \in SUBSET Members(o) : S # Unset

Links == UNION {{o} \X Members(o) : o \in Owners}
Touching(x) == {l \in Links : x \in {l[1], l[2]}}

VARIABLES
    state,  \* per row: "never" inserted, "present" or "gone"
    links,  \* rows of user_roles, role_permissions and permission_conditions
    locks,  \* <<request, row, mode>>
    put,    \* per request: links it has inserted and not committed
    cut,    \* per request: links it has deleted and not committed
    fresh,  \* per request: links others have committed since its scan, which did not see them
    pc,
    req

vars == <<state, links, locks, put, cut, fresh, pc, req>>

Modes == {"share", "nokey", "full"}  \* FOR KEY SHARE, FOR NO KEY UPDATE, FOR UPDATE
Scanned == {"cut", "put", "owner", "check", "reload", "commit"}
Labels == {"idle", "update", "read", "delete", "scan", "rollback"} \cup Scanned
Ops == {"none", "create", "update", "remove"}
Lists == {Unset} \cup (SUBSET Roles) \cup (SUBSET Permissions) \cup (SUBSET Attributes)
\* named: a column of the row is among the fields of the request.
Request == [op : Ops, row : Rows \cup {None}, list : Lists, named : BOOLEAN, todo : SUBSET Links]
Blank == [op |-> "none", row |-> None, list |-> Unset, named |-> FALSE, todo |-> {}]

CTypeOK ==
    /\ state \in [Rows -> {"never", "present", "gone"}]
    /\ links \subseteq Links
    /\ locks \subseteq Requests \X Rows \X Modes
    /\ put \in [Requests -> SUBSET Links] /\ cut \in [Requests -> SUBSET Links]
    /\ fresh \in [Requests -> SUBSET Links]
    /\ pc \in [Requests -> Labels]
    /\ req \in [Requests -> Request]

Present == {x \in Rows : state[x] = "present"}

Init ==
    /\ state \in [Rows -> {"never", "present"}]
    /\ links \in SUBSET {l \in Links : l[1] \in Present /\ l[2] \in Present}
    /\ locks = {}
    /\ put = [p \in Requests |-> {}] /\ cut = [p \in Requests |-> {}]
    /\ fresh = [p \in Requests |-> {}]
    /\ pc = [p \in Requests |-> "idle"]
    /\ req = [p \in Requests |-> Blank]

-----------------------------------------------------------------------------
(* Locks.                                                                  *)

Conflict(m, n) == "full" \in {m, n} \/ (m = "nokey" /\ n = "nokey")
Holders(x, m) == {q \in Requests : \E n \in Modes : <<q, x, n>> \in locks /\ Conflict(m, n)}
Writers(l) == {q \in Requests : l \in put[q] \cup cut[q]}
Deleters(l) == {q \in Requests : l \in cut[q]}

Free(p, x, m) == Holders(x, m) \subseteq {p}
Lock(p, x, m) == locks' = locks \cup {<<p, x, m>>}

Goto(p, label) == pc' = [pc EXCEPT ![p] = label]
Reach(p, label, todo) == Goto(p, label) /\ req' = [req EXCEPT ![p].todo = todo]

-----------------------------------------------------------------------------
(* Requests.                                                               *)

Idle(p, o) == pc[p] = "idle" /\ state[o] # "never"
Begin(p, label, request) == Goto(p, label) /\ req' = [req EXCEPT ![p] = request]
NewLinks(o, list) == IF list = Unset THEN {} ELSE {o} \X list
Unnamed(o) == state[o] = "never" /\ \A q \in Requests : req[q].row # o

\* The INSERT of the owner opens the transaction; nobody else sees the new row.
Create(p) == \E o \in Owners : \E list \in (SUBSET Members(o)) \cup {Unset} :
    LET new == NewLinks(o, list) IN
    /\ pc[p] = "idle" /\ Unnamed(o)
    /\ Begin(p, IF new = {} THEN "commit" ELSE "put",
             [op |-> "create", row |-> o, list |-> list, named |-> TRUE, todo |-> new])
    /\ UNCHANGED <<state, links, locks, put, cut, fresh>>

\* One autocommitted statement.
CreateAttribute(a) ==
    /\ state[a] = "never"
    /\ state' = [state EXCEPT ![a] = "present"]
    /\ UNCHANGED <<links, locks, put, cut, fresh, pc, req>>

ReceiveUpdate(p) == \E o \in Owners, named \in BOOLEAN : \E list \in (SUBSET Members(o)) \cup {Unset} :
    /\ Idle(p, o)
    /\ Begin(p, "update", [op |-> "update", row |-> o, list |-> list, named |-> named, todo |-> {}])
    /\ UNCHANGED <<state, links, locks, put, cut, fresh>>

\* UsersService.remove and RolesService.remove read the row first; the others delete at
\* once.
ReceiveRemove(p) == \E x \in Rows :
    /\ Idle(p, x)
    /\ Begin(p, IF x \in Users \cup Roles THEN "read" ELSE "delete", [Blank EXCEPT !.op = "remove", !.row = x])
    /\ UNCHANGED <<state, links, locks, put, cut, fresh>>

-----------------------------------------------------------------------------
(* Statements.                                                             *)

\* Mutant of Replaces: an omitted list counts as an empty one everywhere.
ReplacesAlways(r) == r.op = "update"
\* A user or a role keeps what is omitted, a permission loses it.
Replaces(r) == r.op = "update" /\ (r.list # Unset \/ r.row \in Permissions)

\* The row of a deleted user is still there.
Writable(o) == state[o] = "present" \/ (o \in Users /\ state[o] = "gone")
\* A new name is a new key and takes the stronger lock; a username never changes.
UpdateModes(o) == IF o \in Users THEN {"nokey"} ELSE {"nokey", "full"}
\* findUserOrThrow and findRoleOrThrow reload the row; a permission is not reloaded.
Reloads(r) == r.op = "update" /\ r.row \notin Permissions
Finish(p) == Reach(p, IF Reloads(req[p]) THEN "reload" ELSE "commit", {})
AfterUpdate(p) == IF Replaces(req[p]) THEN Reach(p, "scan", {}) ELSE Finish(p)
Miss(p) == Goto(p, "rollback") /\ UNCHANGED <<req, locks>>

\* Mutant of UpdateRow: the row is never written nor waited for.
UpdateRowUnlocked(p) ==
    /\ pc[p] = "update"
    /\ IF Writable(req[p].row) THEN AfterUpdate(p) /\ UNCHANGED locks ELSE Miss(p)
    /\ UNCHANGED <<state, links, put, cut, fresh>>
\* An UPDATE locks the row.  With no column named there is nothing to set: Prisma only
\* reads the row, waits for nobody and locks nothing.
UpdateRow(p) == LET o == req[p].row IN
    /\ pc[p] = "update"
    /\ \/ /\ req[p].named
          /\ \E mode \in UpdateModes(o) :
                 /\ Free(p, o, mode)
                 /\ IF Writable(o) THEN Lock(p, o, mode) /\ AfterUpdate(p) ELSE Miss(p)
       \/ /\ ~req[p].named
          /\ IF Writable(o) THEN AfterUpdate(p) /\ UNCHANGED locks ELSE Miss(p)
    /\ UNCHANGED <<state, links, put, cut, fresh>>

ReadRow(p) ==
    /\ pc[p] = "read"
    /\ Goto(p, IF state[req[p].row] = "present" THEN "delete" ELSE "rollback")
    /\ UNCHANGED <<state, links, locks, put, cut, fresh, req>>

DeleteRow(p) == LET x == req[p].row IN
    /\ pc[p] = "delete"
    /\ \/ /\ x \in Users /\ Free(p, x, "nokey")
          /\ Lock(p, x, "nokey") /\ Goto(p, "commit")
       \/ /\ x \notin Users /\ Free(p, x, "full")
          /\ IF state[x] = "present" THEN Lock(p, x, "full") /\ Goto(p, "scan")
             ELSE Goto(p, "rollback") /\ UNCHANGED locks
    /\ UNCHANGED <<state, links, put, cut, fresh, req>>

\* What follows the deletion of the links.
AfterCut(p) == LET new == NewLinks(req[p].row, req[p].list) IN
    IF req[p].op = "update" /\ new # {} THEN Reach(p, "put", new) ELSE Finish(p)
CutOn(p, rest) == IF rest = {} THEN AfterCut(p) ELSE Reach(p, "cut", rest)

\* Mutant of Found: the relation of a link to its member does not cascade.
FoundOfOwner(r) == {l \in links : l[1] = r.row}
\* deleteMany by owner, or the cascades of the deleted row.
Found(r) == IF r.op = "remove" THEN links \cap Touching(r.row) ELSE {l \in links : l[1] = r.row}

Scan(p) ==
    /\ pc[p] = "scan"
    /\ CutOn(p, Found(req[p]))
    /\ UNCHANGED <<state, links, locks, put, cut, fresh>>

\* The two ids are the key of user_roles and of role_permissions; a condition has a key
\* of its own.
Keyed(l) == l[1] \notin Permissions

\* What is fresh is a new row and stays; of a condition the row found may be there as well.
CutLink(p) == \E l \in req[p].todo : \E gone \in SUBSET ({l} \cap links) :
    /\ pc[p] = "cut" /\ Deleters(l) \subseteq {p}
    /\ l \notin fresh[p] => gone = {l} \cap links
    /\ l \in fresh[p] /\ Keyed(l) => gone = {}
    /\ cut' = [cut EXCEPT ![p] = @ \cup gone]
    /\ CutOn(p, req[p].todo \ {l})
    /\ UNCHANGED <<state, links, locks, put, fresh>>

\* createMany.
PutLink(p) == \E l \in req[p].todo :
    /\ pc[p] = "put" /\ (Keyed(l) => Writers(l) \subseteq {p})
    /\ IF Keyed(l) /\ l \in links \ cut[p]
       THEN Goto(p, "rollback") /\ UNCHANGED <<put, req>>
       ELSE /\ put' = [put EXCEPT ![p] = @ \cup {l}]
            /\ IF req[p].todo # {l} THEN Reach(p, "put", req[p].todo \ {l})
               ELSE Reach(p, IF req[p].op = "update" THEN "owner" ELSE "check", put'[p])
    /\ UNCHANGED <<state, links, locks, cut, fresh>>

\* Mutant of CheckOwner: no foreign key from a link to its owner.
CheckOwnerUnchecked(p) ==
    /\ pc[p] = "owner" /\ Goto(p, "check")
    /\ UNCHANGED <<state, links, locks, put, cut, fresh, req>>
\* The foreign keys: the owner, which a list alone has not locked, and the members are
\* locked against deletion, or they are not there.
CheckOwner(p) == LET o == req[p].row IN
    /\ pc[p] = "owner" /\ Free(p, o, "share")
    /\ IF Writable(o) THEN Lock(p, o, "share") /\ Goto(p, "check") /\ UNCHANGED req ELSE Miss(p)
    /\ UNCHANGED <<state, links, put, cut, fresh>>

CheckLink(p) == \E l \in req[p].todo :
    /\ pc[p] = "check" /\ Free(p, l[2], "share")
    /\ \/ /\ state[l[2]] = "present"
          /\ Lock(p, l[2], "share")
          /\ IF req[p].todo = {l} THEN Finish(p) ELSE Reach(p, "check", req[p].todo \ {l})
       \/ state[l[2]] # "present" /\ Miss(p)
    /\ UNCHANGED <<state, links, put, cut, fresh>>

Reload(p) ==
    /\ pc[p] = "reload"
    /\ Goto(p, IF state[req[p].row] = "present" THEN "commit" ELSE "rollback")
    /\ UNCHANGED <<state, links, locks, put, cut, fresh, req>>

-----------------------------------------------------------------------------
(* The end of a transaction.                                               *)

End(p) ==
    /\ locks' = {k \in locks : k[1] # p}
    /\ put' = [put EXCEPT ![p] = {}] /\ cut' = [cut EXCEPT ![p] = {}]
    /\ Begin(p, "idle", Blank)
Forget(p) == fresh' = [fresh EXCEPT ![p] = {}]

\* Where the links a request may delete are.
Scope(r) == IF r.op = "remove" THEN Touching(r.row) ELSE {l \in Links : l[1] = r.row}

Commit(p) ==
    /\ pc[p] = "commit"
    /\ links' = (links \ (cut[p] \ fresh[p])) \cup put[p]
    /\ fresh' = [q \in Requests |-> IF q = p THEN {} ELSE
          IF pc[q] \in Scanned THEN fresh[q] \cup (put[p] \cap Scope(req[q])) ELSE fresh[q]]
    /\ state' = CASE req[p].op = "create" -> [state EXCEPT ![req[p].row] = "present"]
                  [] req[p].op = "remove" -> [state EXCEPT ![req[p].row] = "gone"]
                  [] OTHER -> state
    /\ End(p)

Rollback(p) ==
    /\ pc[p] = "rollback"
    /\ Forget(p) /\ End(p) /\ UNCHANGED <<state, links>>

\* A lost connection, a deadlock victim, the five-second timeout, a conflict of names.
Fail(p) ==
    /\ pc[p] # "idle"
    /\ Forget(p) /\ End(p) /\ UNCHANGED <<state, links>>

Step(p) ==
    \/ UpdateRow(p) \/ ReadRow(p) \/ DeleteRow(p)
    \/ Scan(p) \/ CutLink(p) \/ PutLink(p) \/ CheckOwner(p) \/ CheckLink(p) \/ Reload(p)
    \/ Commit(p) \/ Rollback(p)

Next ==
    \/ \E p \in Requests : Create(p) \/ ReceiveUpdate(p) \/ ReceiveRemove(p) \/ Step(p) \/ Fail(p)
    \/ \E a \in Attributes : CreateAttribute(a)

Spec == Init /\ [][Next]_vars
=============================================================================
