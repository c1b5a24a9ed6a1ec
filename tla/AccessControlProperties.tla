----------------------- MODULE AccessControlProperties -----------------------
(***************************************************************************)
(* Properties of AccessControl and its refinement of AccessMap.            *)
(***************************************************************************)
EXTENDS AccessControl

(***************************************************************************)
(* Every commit creates an owner with its links, changes the links of one  *)
(* owner, or removes a row with all its links; all members are present     *)
(* whenever links change, and nothing else changes what is committed: a    *)
(* transaction that ends in an error leaves nothing.  (What an update      *)
(* makes of the links of its owner is CommittedAsAsked.)  Concerns the     *)
(* foreign keys and cascades against updates that have not locked their    *)
(* owner.                                                                  *)
(***************************************************************************)
Map == INSTANCE AccessMap WITH
    present <- Present,
    removed <- {x \in Rows : state[x] = "gone"}

ChangesOneOwner == Map!Spec

(***************************************************************************)
(* When a create or an update of an owner commits, the owner has the links *)
(* of the request (with no list those before, or none for a permission)    *)
(* and no others but such as other updates committed after the deleteMany  *)
(* of this one, which it could not see.  Concerns the deleteMany and       *)
(* createMany of UsersService, RolesService and PermissionsService against *)
(* concurrent updates and deletions.                                       *)
(***************************************************************************)
LinksOf(o) == {l \in links : l[1] = o}
Asked(r) == IF r.op = "create" \/ r.list # Unset \/ r.row \in Permissions
            THEN NewLinks(r.row, r.list) ELSE LinksOf(r.row)

CommittedAsAsked == [][\A p \in Requests :
    req[p].op \in {"create", "update"} /\ Commit(p) =>
        LET now == {l \in links' : l[1] = req[p].row} IN
        Asked(req[p]) \subseteq now /\ now \subseteq Asked(req[p]) \cup fresh[p]]_vars

(***************************************************************************)
(* Creations and updates that name a column wait for each other but never  *)
(* in a circle, as the owner's row is written before any of its links.     *)
(* Only the others can deadlock with them: an update of the list alone,    *)
(* which locks links first, and a deletion, whose cascade wants links of   *)
(* owners it has not locked.  (Roles have no parents here: two renames     *)
(* that make each other's role the parent could wait for each other.)      *)
(***************************************************************************)
WaitsFor(p) == CASE
       pc[p] = "update" -> IF req[p].named THEN Holders(req[p].row, "full") \ {p} ELSE {}
    [] pc[p] = "delete" -> Holders(req[p].row, "full") \ {p}
    [] pc[p] = "cut" -> (UNION {Deleters(l) : l \in req[p].todo}) \ {p}
    [] pc[p] = "put" -> (UNION {Writers(l) : l \in {k \in req[p].todo : Keyed(k)}}) \ {p}
    [] pc[p] = "owner" -> Holders(req[p].row, "share") \ {p}
    [] pc[p] = "check" -> (UNION {Holders(l[2], "share") : l \in req[p].todo}) \ {p}
    [] OTHER -> {}

WritesRow(r) == r.op = "create" \/ (r.op = "update" /\ r.named)

UpdatesDoNotDeadlock == \A S \in SUBSET {p \in Requests : WritesRow(req[p])} :
    S # {} => \E p \in S : WaitsFor(p) \cap S = {}

(***************************************************************************)
(* The inductive invariant, which says what locks and drafts mean in the   *)
(* middle of a transaction: what it found is cut before it goes on, what   *)
(* it did not cut is fresh, and a link that has passed its checks has an   *)
(* owner and a member nobody can delete.                                   *)
(***************************************************************************)
Holds(p, x, modes) == \E m \in modes : <<p, x, m>> \in locks
Writes(r) == r.op \in {"create", "update"}
Cuts(r) == Replaces(r) \/ (r.op = "remove" /\ r.row \notin Users)

LocksExclude == \A k, n \in locks : k[2] = n[2] /\ Conflict(k[3], n[3]) => k[1] = n[1]

\* What a request is about, and at which statements it can be.
RequestShape == \A p \in Requests : LET r == req[p] IN
    /\ pc[p] = "idle" => r.op = "none"
    /\ Writes(r) => r.row \in Owners /\ r.list \in (SUBSET Members(r.row)) \cup {Unset}
    /\ r.op = "remove" => r.row \in Rows
    /\ r.op \in {"update", "remove"} => state[r.row] # "never"
    /\ pc[p] \in {"update", "reload"} => r.op = "update"
    /\ pc[p] \in {"put", "check"} => r.op = "create" \/ Replaces(r)
    /\ pc[p] = "owner" => Replaces(r)
    /\ pc[p] \in {"read", "delete"} => r.op = "remove"
    /\ pc[p] \in {"scan", "cut"} => Cuts(r)
    /\ pc[p] = "commit" => r.op # "none"
    /\ pc[p] = "commit" /\ r.op = "update" /\ r.named => state[r.row] = "present"

\* The row being created belongs to one request alone.
CreatesAlone == \A p \in Requests : req[p].op = "create" =>
    /\ state[req[p].row] = "never"
    /\ \A q \in Requests \ {p} : req[q].row # req[p].row

\* A share lock is that of a checked member or owner, every other one that of the row
\* written.
LocksMean == \A k \in locks : LET p == k[1] x == k[2] r == req[k[1]] IN
    /\ pc[p] \notin {"update", "read", "delete"}
    /\ IF x = r.row
       THEN /\ r.op \in {"update", "remove"} /\ Writable(x)
            /\ k[3] = "share" => r.op = "update"
            /\ x \in Users => k[3] # "full"
       ELSE k[3] = "share" /\ Writes(r) /\ x \in Members(r.row) /\ state[x] = "present"

\* What a transaction has written so far.
DraftsFollow == \A p \in Requests : LET r == req[p] IN
    /\ put[p] \subseteq {l \in Links : l[1] = r.row}
    /\ cut[p] \subseteq Scope(r)
    /\ pc[p] \in {"idle", "update", "read", "delete", "scan"} => put[p] = {} /\ cut[p] = {}
    /\ ~Cuts(r) => cut[p] = {}
    /\ ~(r.op = "create" \/ Replaces(r)) => put[p] = {}
    /\ pc[p] = "cut" => put[p] = {} /\ r.todo \subseteq Scope(r)
    /\ pc[p] = "put" => put[p] \cup r.todo = NewLinks(r.row, r.list)
    /\ pc[p] \in {"owner", "check"} => r.todo \subseteq put[p]
    /\ pc[p] = "owner" => r.todo = put[p]
    /\ pc[p] \in {"owner", "check", "reload", "commit"} /\ (r.op = "create" \/ Replaces(r)) =>
         put[p] = NewLinks(r.row, r.list)
    /\ fresh[p] \subseteq Scope(r)
    /\ pc[p] \notin Scanned \cup {"rollback"} => fresh[p] = {}
    /\ r.op = "remove" /\ Cuts(r) => fresh[p] = {}

OwnerHeld == \A p \in Requests : LET r == req[p] IN
    /\ pc[p] \in Scanned \cup {"scan"} =>
          /\ r.op = "create" => state[r.row] = "never"
          /\ r.op = "update" /\ r.named => Holds(p, r.row, {"nokey", "full"})
          /\ r.op = "remove" => Holds(p, r.row, IF r.row \in Users THEN {"nokey"} ELSE {"full"})
    /\ pc[p] \in {"check", "reload", "commit"} /\ r.op = "update" /\ put[p] # {} => Holds(p, r.row, Modes)

FoundIsCut == \A p \in Requests :
    /\ pc[p] = "cut" => Found(req[p]) \subseteq cut[p] \cup fresh[p] \cup req[p].todo
    /\ pc[p] \in {"put", "owner", "check", "reload", "commit"} /\ Cuts(req[p]) =>
         Found(req[p]) \subseteq cut[p] \cup fresh[p]

MembersHeld == \A p \in Requests : pc[p] \in {"check", "reload", "commit"} =>
    \A l \in put[p] : (pc[p] = "check" /\ l \in req[p].todo) \/ Holds(p, l[2], {"share"})

NoDanglingLinks == \A l \in links : state[l[2]] = "present" /\ Writable(l[1])

ControlInv ==
    /\ CTypeOK /\ RequestShape /\ CreatesAlone /\ LocksExclude /\ LocksMean
    /\ DraftsFollow /\ OwnerHeld /\ FoundIsCut /\ MembersHeld /\ NoDanglingLinks
=============================================================================
