------------------------ MODULE AccessControlProofs ------------------------
(***************************************************************************)
(* ControlInv, and with it what a commit makes of the links of an owner,   *)
(* that updates which name a column never wait in a circle and that        *)
(* AccessControl implements AccessMap; for any sets of users, roles,       *)
(* permissions, attributes and requests.  A step of a request leaves the   *)
(* others and their locks alone (Alone); only Commit touches the tables,   *)
(* and what the other requests know of them is either guarded by locks     *)
(* that the committing request cannot share (LocksExclude) or accounted    *)
(* for in fresh.                                                           *)
(***************************************************************************)
EXTENDS AccessControlProperties, TLAPS

\* The kinds of rows.
LEMMA Kinds ==
    /\ Owners \subseteq Rows /\ Attributes \subseteq Rows /\ Users \subseteq Owners
    /\ \A a \in Attributes : a \notin Owners
    /\ \A o \in Owners : /\ Members(o) \subseteq Rows /\ Members(o) \cap Users = {}
                         /\ SUBSET Members(o) \subseteq Lists /\ Unset \notin SUBSET Members(o)
    /\ Unset \in Lists /\ None \notin Rows
<1>1. /\ Owners \subseteq Rows /\ Attributes \subseteq Rows /\ Users \subseteq Owners
      /\ \A a \in Attributes : a \notin Owners
      /\ Unset \in Lists /\ None \notin Rows
  BY KindsAssumption DEF Owners, Rows, Lists
<1>2. ASSUME NEW o \in Owners
      PROVE  /\ Members(o) \subseteq Rows /\ Members(o) \cap Users = {}
             /\ SUBSET Members(o) \subseteq Lists /\ Unset \notin SUBSET Members(o)
  <2>1. Members(o) \in {Roles, Permissions, Attributes}
    BY DEF Members
  <2>2. Members(o) \subseteq Rows /\ Members(o) \cap Users = {}
    BY <2>1, KindsAssumption DEF Owners, Rows
  <2>3. SUBSET Members(o) \subseteq Lists
    <3>1. \A S : S \in SUBSET Roles \/ S \in SUBSET Permissions \/ S \in SUBSET Attributes
                  => S \in Lists
      BY DEF Lists
    <3>. QED BY <2>1, <3>1
  <2>. QED BY <2>2, <2>3, KindsAssumption
<1>. QED BY <1>1, <1>2

LEMMA LinkParts ==
    ASSUME NEW l \in Links
    PROVE  l = <<l[1], l[2]>> /\ l[1] \in Owners /\ l[2] \in Members(l[1]) /\ l[2] \in Rows
<1>1. PICK o \in Owners : l \in {o} \X Members(o)
  BY DEF Links
<1>. QED BY <1>1, Kinds

LEMMA NewLinksOf ==
    ASSUME NEW o \in Owners, NEW list \in (SUBSET Members(o)) \cup {Unset}
    PROVE  /\ NewLinks(o, list) \subseteq {l \in Links : l[1] = o}
           /\ list \in Lists
           /\ \A l \in NewLinks(o, list) : l[2] \in list
           /\ list # Unset => NewLinks(o, list) = {o} \X list
<1>1. CASE list = Unset
  BY <1>1, Kinds DEF NewLinks
<1>2. CASE list \in SUBSET Members(o)
  <2>1. list # Unset /\ NewLinks(o, list) = {o} \X list
    BY <1>2, Kinds DEF NewLinks
  <2>2. {o} \X Members(o) \subseteq Links
    BY DEF Links
  <2>3. ASSUME NEW l \in {o} \X list PROVE l \in Links /\ l[1] = o /\ l[2] \in list
    BY <1>2, <2>2
  <2>4. list \in Lists
    BY <1>2, Kinds
  <2>5. \A l \in NewLinks(o, list) : l \in Links /\ l[1] = o /\ l[2] \in list
    BY <2>1, <2>3
  <2>6. NewLinks(o, list) \subseteq {l \in Links : l[1] = o}
    BY <2>5
  <2>. QED BY <2>1, <2>4, <2>5, <2>6
<1>. QED BY <1>1, <1>2

LEMMA NotItsOwnMember == \A o \in Owners : o \notin Members(o)
  BY KindsAssumption DEF Owners, Members

-----------------------------------------------------------------------------
(* The invariant, request by request.                                      *)

Shape(p) == LET r == req[p] IN
    /\ pc[p] = "idle" => r.op = "none"
    /\ Writes(r) => r.row \in Owners /\ r.list \in (SUBSET Members(r.row)) \cup {Unset}
    /\ r.op = "remove" => r.row \in Rows
    /\ r.op \in {"update", "remove"} => state[r.row] # "never"
    /\ pc[p] \in {"update", "reload"} => r.op = "update"
    /\ pc[p] \in {"put", "check"} => r.op = "create" \/ Replaces(r)
    /\ pc[p] = "owner" => Replaces(r)
    /\ pc[p] \in {"read", "delete"} => r.op = "remove"
    /\ pc[p] \in {"scan", "cut"} => Cuts(r)
    /\ pc[p] = "commit" => r.op # "none"
    /\ pc[p] = "commit" /\ r.op = "update" /\ r.named => state[r.row] = "present"
CreatesAloneAt(p) == req[p].op = "create" =>
    /\ state[req[p].row] = "never"
    /\ \A q \in Requests \ {p} : req[q].row # req[p].row
Meaning(k) == LET p == k[1] x == k[2] r == req[k[1]] IN
    /\ pc[p] \notin {"update", "read", "delete"}
    /\ IF x = r.row
       THEN /\ r.op \in {"update", "remove"} /\ Writable(x)
            /\ k[3] = "share" => r.op = "update"
            /\ x \in Users => k[3] # "full"
       ELSE k[3] = "share" /\ Writes(r) /\ x \in Members(r.row) /\ state[x] = "present"
Drafts(p) == LET r == req[p] IN
    /\ put[p] \subseteq {l \in Links : l[1] = r.row}
    /\ cut[p] \subseteq Scope(r)
    /\ pc[p] \in {"idle", "update", "read", "delete", "scan"} => put[p] = {} /\ cut[p] = {}
    /\ ~Cuts(r) => cut[p] = {}
    /\ ~(r.op = "create" \/ Replaces(r)) => put[p] = {}
    /\ pc[p] = "cut" => put[p] = {} /\ r.todo \subseteq Scope(r)
    /\ pc[p] = "put" => put[p] \cup r.todo = NewLinks(r.row, r.list)
    /\ pc[p] \in {"owner", "check"} => r.todo \subseteq put[p]
    /\ pc[p] = "owner" => r.todo = put[p]
    /\ pc[p] \in {"owner", "check", "reload", "commit"} /\ (r.op = "create" \/ Replaces(r)) =>
         put[p] = NewLinks(r.row, r.list)
    /\ fresh[p] \subseteq Scope(r)
    /\ pc[p] \notin Scanned \cup {"rollback"} => fresh[p] = {}
    /\ r.op = "remove" /\ Cuts(r) => fresh[p] = {}
Owning(p) == LET r == req[p] IN
    /\ pc[p] \in Scanned \cup {"scan"} =>
          /\ r.op = "create" => state[r.row] = "never"
          /\ r.op = "update" /\ r.named => Holds(p, r.row, {"nokey", "full"})
          /\ r.op = "remove" => Holds(p, r.row, IF r.row \in Users THEN {"nokey"} ELSE {"full"})
    /\ pc[p] \in {"check", "reload", "commit"} /\ r.op = "update" /\ put[p] # {} => Holds(p, r.row, Modes)
Cutting(p) ==
    /\ pc[p] = "cut" => Found(req[p]) \subseteq cut[p] \cup fresh[p] \cup req[p].todo
    /\ pc[p] \in {"put", "owner", "check", "reload", "commit"} /\ Cuts(req[p]) =>
         Found(req[p]) \subseteq cut[p] \cup fresh[p]
Checked(p) == pc[p] \in {"check", "reload", "commit"} =>
    \A l \in put[p] : (pc[p] = "check" /\ l \in req[p].todo) \/ Holds(p, l[2], {"share"})

Sound(p) == Shape(p) /\ Drafts(p) /\ Owning(p) /\ Cutting(p) /\ Checked(p)

LEMMA ByRequest ==
    /\ RequestShape <=> \A p \in Requests : Shape(p)
    /\ CreatesAlone <=> \A p \in Requests : CreatesAloneAt(p)
    /\ LocksMean <=> \A k \in locks : Meaning(k)
    /\ DraftsFollow <=> \A p \in Requests : Drafts(p)
    /\ OwnerHeld <=> \A p \in Requests : Owning(p)
    /\ FoundIsCut <=> \A p \in Requests : Cutting(p)
    /\ MembersHeld <=> \A p \in Requests : Checked(p)
<1>1. /\ RequestShape <=> \A p \in Requests : Shape(p)
      /\ CreatesAlone <=> \A p \in Requests : CreatesAloneAt(p)
      /\ LocksMean <=> \A k \in locks : Meaning(k)
  BY DEF RequestShape, Shape, CreatesAlone, CreatesAloneAt, LocksMean, Meaning
<1>2. DraftsFollow <=> \A p \in Requests : Drafts(p)
  BY DEF DraftsFollow, Drafts
<1>3. /\ OwnerHeld <=> \A p \in Requests : Owning(p)
      /\ FoundIsCut <=> \A p \in Requests : Cutting(p)
      /\ MembersHeld <=> \A p \in Requests : Checked(p)
  BY DEF OwnerHeld, Owning, FoundIsCut, Cutting, MembersHeld, Checked
<1>. QED BY <1>1, <1>2, <1>3

LEMMA InvByRequest ==
    ControlInv <=> /\ CTypeOK /\ LocksExclude /\ NoDanglingLinks
                   /\ \A p \in Requests : Sound(p) /\ CreatesAloneAt(p)
                   /\ \A k \in locks : Meaning(k)
  BY ByRequest DEF ControlInv, Sound

LEMMA InvByRequestNext ==
    (/\ CTypeOK' /\ LocksExclude' /\ NoDanglingLinks'
     /\ \A p \in Requests : Sound(p)' /\ CreatesAloneAt(p)'
     /\ \A k \in locks' : Meaning(k)') => ControlInv'
<1>1. ControlInv' <=> (/\ CTypeOK /\ LocksExclude /\ NoDanglingLinks
                       /\ \A p \in Requests : Sound(p) /\ CreatesAloneAt(p)
                       /\ \A k \in locks : Meaning(k))'
  BY InvByRequest, PTL
<1>. QED BY <1>1

\* A request that does nothing holds nothing.
LEMMA IdleHoldsNothing ==
    ASSUME ControlInv, NEW p \in Requests, pc[p] \in {"idle", "update", "read", "delete"}
    PROVE  /\ put[p] = {} /\ cut[p] = {} /\ fresh[p] = {}
           /\ \A k \in locks : k[1] # p
<1>1. Shape(p) /\ Drafts(p)
  BY InvByRequest DEF Sound
<1>2. ASSUME NEW k \in locks, k[1] = p PROVE FALSE
  <2>1. Meaning(k)
    BY InvByRequest
  <2>2. pc[p] = "idle" /\ req[p].op \in {"create", "update", "remove"}
    BY <1>2, <2>1 DEF Meaning, Writes
  <2>. QED BY <1>1, <2>2 DEF Shape
<1>. QED BY <1>1, <1>2 DEF Drafts, Scanned

-----------------------------------------------------------------------------
(* A step of one request inside its transaction.                           *)

\* The tables and the other requests stay, and p may take locks that are free.
Alone(p) ==
    /\ UNCHANGED <<state, links, fresh>>
    /\ \A q \in Requests \ {p} : /\ pc'[q] = pc[q] /\ req'[q] = req[q]
                                 /\ put'[q] = put[q] /\ cut'[q] = cut[q]
    /\ locks \subseteq locks'
    /\ \A k \in locks' \ locks : k[1] = p /\ Free(p, k[2], k[3])

\* The request itself stays what it is.
SameRequest(p) == /\ req'[p].op = req[p].op /\ req'[p].row = req[p].row
                  /\ req'[p].list = req[p].list /\ req'[p].named = req[p].named

LEMMA SymmetricConflict == \A m, n : Conflict(m, n) => Conflict(n, m)
  BY DEF Conflict

LEMMA LocksStayExclusive ==
    ASSUME ControlInv, CTypeOK', NEW p \in Requests, Alone(p)
    PROVE  LocksExclude'
<1>. SUFFICES ASSUME NEW k \in locks', NEW n \in locks', k[2] = n[2], Conflict(k[3], n[3])
              PROVE  k[1] = n[1]
  BY DEF LocksExclude
<1>1. \A j \in locks : j = <<j[1], j[2], j[3]>> /\ j[1] \in Requests /\ j[3] \in Modes
  BY InvByRequest DEF CTypeOK
<1>2. ASSUME NEW i \in locks' \ locks, NEW j \in locks, i[2] = j[2], Conflict(i[3], j[3])
      PROVE  i[1] = p /\ j[1] = p
  <2>1. i[1] = p /\ Free(p, i[2], i[3])
    BY <1>2 DEF Alone
  <2>2. <<j[1], i[2], j[3]>> \in locks
    BY <1>1, <1>2
  <2>3. j[1] \in Holders(i[2], i[3])
    BY <1>1, <1>2, <2>2 DEF Holders
  <2>. QED BY <2>1, <2>3 DEF Free
<1>3. CASE k \in locks /\ n \in locks
  BY <1>3, InvByRequest DEF LocksExclude
<1>4. CASE k \notin locks /\ n \in locks
  BY <1>2, <1>4
<1>5. CASE k \in locks /\ n \notin locks
  BY <1>2, <1>5, SymmetricConflict
<1>6. CASE k \notin locks /\ n \notin locks
  BY <1>6 DEF Alone
<1>. QED BY <1>3, <1>4, <1>5, <1>6

LEMMA OthersStaySound ==
    ASSUME ControlInv, NEW p \in Requests, Alone(p), NEW q \in Requests \ {p}
    PROVE  Sound(q)'
<1>1. Sound(q)
  BY InvByRequest
<1>2. /\ UNCHANGED <<state, links, fresh>> /\ locks \subseteq locks'
      /\ pc'[q] = pc[q] /\ req'[q] = req[q] /\ put'[q] = put[q] /\ cut'[q] = cut[q]
  BY DEF Alone
<1>3. \A x, modes : Holds(q, x, modes) => Holds(q, x, modes)'
  BY <1>2 DEF Holds
<1>4. Shape(q)' /\ Drafts(q)'
  BY <1>1, <1>2 DEF Sound, Shape, Drafts
<1>5. Owning(q)'
  BY <1>1, <1>2, <1>3 DEF Sound, Owning
<1>6. Cutting(q)'
  BY <1>1, <1>2 DEF Sound, Cutting, Found
<1>7. Checked(q)'
  BY <1>1, <1>2, <1>3 DEF Sound, Checked
<1>. QED BY <1>4, <1>5, <1>6, <1>7 DEF Sound

LEMMA AloneKeeps ==
    ASSUME ControlInv, CTypeOK', NEW p \in Requests, Alone(p), Sound(p)',
           \A q \in Requests : CreatesAloneAt(q)',
           \A k \in locks' : k[1] = p => Meaning(k)'
    PROVE  ControlInv'
<1>1. LocksExclude'
  BY LocksStayExclusive
<1>2. NoDanglingLinks'
  BY InvByRequest DEF Alone, NoDanglingLinks, Writable
<1>3. \A q \in Requests : Sound(q)'
  BY OthersStaySound
<1>4. ASSUME NEW k \in locks', k[1] # p PROVE Meaning(k)'
  <2>1. k \in locks /\ Meaning(k) /\ k[1] \in Requests
    BY <1>4, InvByRequest DEF Alone, CTypeOK
  <2>. QED BY <1>4, <2>1 DEF Alone, Meaning, Writable
<1>. QED BY <1>1, <1>2, <1>3, <1>4, InvByRequestNext

\* The usual step: the request stays, and its new locks are the row's or its members'.
LEMMA GoesOn ==
    ASSUME ControlInv, CTypeOK', NEW p \in Requests, Alone(p), SameRequest(p), Sound(p)',
           pc'[p] \notin {"update", "read", "delete"} \/ (locks' = locks /\ \A k \in locks : k[1] # p),
           \A k \in locks' \ locks : Meaning(k)'
    PROVE  ControlInv'
<1>1. \A q \in Requests : CreatesAloneAt(q)'
  <2>. SUFFICES ASSUME NEW q \in Requests PROVE CreatesAloneAt(q)'
    OBVIOUS
  <2>1. CreatesAloneAt(q) /\ state' = state
    BY InvByRequest DEF Alone
  <2>2. \A r \in Requests : req'[r].row = req[r].row /\ req'[r].op = req[r].op
    BY DEF Alone, SameRequest
  <2>. QED BY <2>1, <2>2 DEF CreatesAloneAt
<1>2. ASSUME NEW k \in locks, k[1] = p, k \in locks' PROVE Meaning(k)'
  <2>1. Meaning(k) /\ pc'[p] \notin {"update", "read", "delete"} /\ state' = state
    BY <1>2, InvByRequest DEF Alone
  <2>. QED BY <1>2, <2>1 DEF Meaning, Writable, SameRequest, Writes
<1>. QED BY <1>1, <1>2, AloneKeeps

-----------------------------------------------------------------------------
(* Where a request goes.                                                   *)

LEMMA ReachFacts ==
    ASSUME CTypeOK, NEW p \in Requests, NEW label \in Labels, NEW todo \in SUBSET Links,
           Reach(p, label, todo)
    PROVE  /\ pc' \in [Requests -> Labels] /\ req' \in [Requests -> Request]
           /\ pc'[p] = label /\ req'[p].todo = todo /\ SameRequest(p)
           /\ \A q \in Requests \ {p} : pc'[q] = pc[q] /\ req'[q] = req[q]
<1>1. req[p] \in Request /\ req \in [Requests -> Request] /\ pc \in [Requests -> Labels]
  BY DEF CTypeOK
<1>2. req' = [req EXCEPT ![p] = [req[p] EXCEPT !.todo = todo]]
  BY DEF Reach
<1>3. /\ [req[p] EXCEPT !.todo = todo] \in Request
      /\ [req[p] EXCEPT !.todo = todo].todo = todo
      /\ [req[p] EXCEPT !.todo = todo].op = req[p].op
      /\ [req[p] EXCEPT !.todo = todo].row = req[p].row
      /\ [req[p] EXCEPT !.todo = todo].list = req[p].list
      /\ [req[p] EXCEPT !.todo = todo].named = req[p].named
  BY <1>1 DEF Request
<1>4. req' \in [Requests -> Request] /\ req'[p] = [req[p] EXCEPT !.todo = todo]
  BY <1>1, <1>2, <1>3
<1>5. pc' \in [Requests -> Labels] /\ pc'[p] = label
  BY <1>1 DEF Reach, Goto
<1>. QED BY <1>1, <1>2, <1>3, <1>4, <1>5 DEF Reach, Goto, SameRequest

LEMMA GotoFacts ==
    ASSUME CTypeOK, NEW p \in Requests, NEW label \in Labels, Goto(p, label), UNCHANGED req
    PROVE  /\ pc' \in [Requests -> Labels] /\ req' \in [Requests -> Request]
           /\ pc'[p] = label /\ req'[p] = req[p] /\ SameRequest(p)
           /\ \A q \in Requests \ {p} : pc'[q] = pc[q] /\ req'[q] = req[q]
  BY DEF CTypeOK, Goto, SameRequest

LEMMA LockFacts ==
    ASSUME CTypeOK, NEW p \in Requests, NEW x \in Rows, NEW mode \in Modes,
           Lock(p, x, mode), Free(p, x, mode)
    PROVE  /\ locks' \subseteq Requests \X Rows \X Modes
           /\ locks \subseteq locks' /\ <<p, x, mode>> \in locks'
           /\ \A k \in locks' \ locks : /\ k = <<p, x, mode>> /\ k[1] = p /\ k[2] = x
                                        /\ k[3] = mode /\ Free(p, k[2], k[3])
  BY DEF CTypeOK, Lock

\* What the fields of a request decide does not change with its list of things to do.
LEMMA SameMeaning ==
    ASSUME NEW p \in Requests, SameRequest(p)
    PROVE  /\ Replaces(req[p])' <=> Replaces(req[p])
           /\ Cuts(req[p])' <=> Cuts(req[p])
           /\ Writes(req[p])' <=> Writes(req[p])
           /\ Reloads(req[p])' <=> Reloads(req[p])
           /\ Scope(req[p])' = Scope(req[p])
           /\ NewLinks(req[p].row, req[p].list)' = NewLinks(req[p].row, req[p].list)
           /\ links' = links => Found(req[p])' = Found(req[p])
  BY DEF SameRequest, Replaces, Cuts, Writes, Reloads, Scope, NewLinks, Found, Touching

\* Lists and scopes are made of links.
LEMMA RequestLinks ==
    ASSUME ControlInv, NEW p \in Requests
    PROVE  /\ Writes(req[p]) => NewLinks(req[p].row, req[p].list)
                                  \subseteq {l \in Links : l[1] = req[p].row}
           /\ Scope(req[p]) \subseteq Links
           /\ Cuts(req[p]) => Found(req[p]) \subseteq links \cap Scope(req[p])
           /\ Replaces(req[p]) => Writes(req[p])
<1>1. Shape(p) /\ links \subseteq Links
  BY InvByRequest DEF Sound, CTypeOK
<1>2. ASSUME Writes(req[p])
      PROVE  NewLinks(req[p].row, req[p].list) \subseteq {l \in Links : l[1] = req[p].row}
  BY <1>1, <1>2, NewLinksOf DEF Shape
<1>3. Scope(req[p]) \subseteq Links /\ (Replaces(req[p]) => Writes(req[p]))
  BY DEF Scope, Touching, Writes, Replaces
<1>4. Cuts(req[p]) => Found(req[p]) \subseteq links \cap Scope(req[p])
  BY <1>1 DEF Cuts, Found, Scope, Replaces
<1>. QED BY <1>2, <1>3, <1>4

\* What holds when the writes of a transaction are done.
Ready(p) == LET r == req[p] IN
    /\ put[p] = IF r.op = "create" \/ Replaces(r) THEN NewLinks(r.row, r.list) ELSE {}
    /\ cut[p] \subseteq Scope(r)
    /\ Cuts(r) => Found(r) \subseteq cut[p] \cup fresh[p]
    /\ ~Cuts(r) => cut[p] = {}
    /\ fresh[p] \subseteq Scope(r)
    /\ r.op = "remove" /\ Cuts(r) => fresh[p] = {}
    /\ r.op = "create" => state[r.row] = "never"
    /\ r.op = "update" /\ r.named => Holds(p, r.row, {"nokey", "full"})
    /\ r.op = "remove" => Holds(p, r.row, IF r.row \in Users THEN {"nokey"} ELSE {"full"})
    /\ r.op = "update" /\ put[p] # {} => Holds(p, r.row, Modes)
    /\ \A l \in put[p] : Holds(p, l[2], {"share"})

LEMMA FinishKeeps ==
    ASSUME ControlInv, CTypeOK', NEW p \in Requests, Alone(p), Finish(p), Ready(p)',
           req[p].op # "none", req[p].op = "update" /\ req[p].named => Writable(req[p].row),
           \A k \in locks' \ locks : Meaning(k)'
    PROVE  ControlInv'
<1>. DEFINE reloads == Reloads(req[p])
<1>1. Reach(p, IF reloads THEN "reload" ELSE "commit", {})
  BY DEF Finish
<1>2. CTypeOK /\ Shape(p) /\ Sound(p)
  BY InvByRequest DEF Sound
<1>3. /\ pc'[p] = IF reloads THEN "reload" ELSE "commit"
      /\ SameRequest(p)
  BY <1>1, <1>2, ReachFacts, {} \in SUBSET Links DEF Labels, Scanned
<1>4. state' = state /\ links' = links
  BY DEF Alone
<1>5. Shape(p)'
  <2>1. ~reloads /\ req[p].op = "update" /\ req[p].named => state[req[p].row] = "present"
    BY KindsAssumption DEF Writable, Reloads
  <2>. HIDE DEF reloads
  <2>2. pc'[p] \in {"reload", "commit"}
    BY <1>3
  <2>3. pc'[p] = "reload" => req[p].op = "update"
    BY <1>3 DEF reloads, Reloads
  <2>4. pc'[p] = "commit" => ~reloads
    BY <1>3
  <2>5. /\ req'[p].op = req[p].op /\ req'[p].row = req[p].row /\ req'[p].list = req[p].list
        /\ req'[p].named = req[p].named
    BY <1>3 DEF SameRequest
  <2>. QED BY <1>2, <1>4, <2>1, <2>2, <2>3, <2>4, <2>5 DEF Shape, Writes
<1>6. Drafts(p)'
  <2>1. pc'[p] \in {"reload", "commit"}
    BY <1>3
  <2>2. put'[p] \subseteq {l \in Links : l[1] = req'[p].row}
    <3>1. Writes(req[p]) => NewLinks(req[p].row, req[p].list) \subseteq {l \in Links : l[1] = req[p].row}
      BY RequestLinks
    <3>2. req'[p].op = "create" \/ Replaces(req[p])' => Writes(req[p])
      BY <1>3 DEF Replaces, Writes, SameRequest
    <3>. QED BY <1>3, <3>1, <3>2, SameMeaning DEF Ready, SameRequest
  <2>. QED BY <2>1, <2>2 DEF Ready, Drafts, Scanned
<1>7. Owning(p)' /\ Cutting(p)' /\ Checked(p)'
  <2>1. pc'[p] \in {"reload", "commit"}
    BY <1>3
  <2>. QED BY <2>1 DEF Ready, Owning, Cutting, Checked
<1>8. pc'[p] \notin {"update", "read", "delete"}
  BY <1>3
<1>9. Sound(p)'
  BY <1>5, <1>6, <1>7 DEF Sound
<1>. QED BY <1>3, <1>8, <1>9, GoesOn

-----------------------------------------------------------------------------
(* The statements.                                                         *)

LEMMA RollsBack ==
    ASSUME ControlInv, NEW p \in Requests, Goto(p, "rollback"),
           UNCHANGED <<state, links, locks, put, cut, fresh, req>>
    PROVE  ControlInv'
<1>1. CTypeOK /\ Shape(p) /\ Drafts(p)
  BY InvByRequest DEF Sound
<1>2. /\ pc'[p] = "rollback" /\ req'[p] = req[p] /\ SameRequest(p) /\ Alone(p) /\ CTypeOK'
  BY <1>1, GotoFacts DEF CTypeOK, Alone, Labels
<1>3. Shape(p)' /\ Drafts(p)'
  BY <1>1, <1>2 DEF Shape, Drafts, Writes
<1>4. Owning(p)' /\ Cutting(p)' /\ Checked(p)'
  BY <1>2 DEF Owning, Cutting, Checked, Scanned
<1>5. Sound(p)'
  BY <1>3, <1>4 DEF Sound
<1>. QED BY <1>2, <1>5, GoesOn

LEMMA AfterUpdateKeeps ==
    ASSUME ControlInv, NEW p \in Requests, pc[p] = "update", Writable(req[p].row), AfterUpdate(p),
           UNCHANGED <<state, links, put, cut, fresh>>,
           locks \subseteq locks', locks' \subseteq Requests \X Rows \X Modes,
           \A k \in locks' \ locks :
               /\ k[1] = p /\ k[2] = req[p].row /\ k[3] \in {"nokey", "full"}
               /\ req[p].row \in Users => k[3] = "nokey"
               /\ Free(p, k[2], k[3]),
           req[p].named => Holds(p, req[p].row, {"nokey", "full"})'
    PROVE  ControlInv'
<1>. DEFINE o == req[p].row
<1>1. /\ req[p].op = "update" /\ o \in Owners /\ o \in Rows
      /\ put[p] = {} /\ cut[p] = {} /\ fresh[p] = {} /\ \A k \in locks : k[1] # p
  BY InvByRequest, IdleHoldsNothing, Kinds DEF Sound, Shape, Writes
<1>2. CTypeOK /\ Shape(p)
  BY InvByRequest DEF Sound
<1>3. ASSUME NEW label \in {"scan", "reload", "commit"}, Reach(p, label, {})
      PROVE  /\ CTypeOK' /\ Alone(p) /\ SameRequest(p) /\ pc'[p] = label
             /\ \A k \in locks' \ locks : Meaning(k)'
             /\ req'[p].named => Holds(p, req[p].row, {"nokey", "full"})'
  <2>1. /\ pc' \in [Requests -> Labels] /\ req' \in [Requests -> Request]
        /\ pc'[p] = label /\ req'[p].todo = {} /\ SameRequest(p)
        /\ \A q \in Requests \ {p} : pc'[q] = pc[q] /\ req'[q] = req[q]
    BY <1>2, <1>3, ReachFacts, {} \in SUBSET Links DEF Labels, Scanned
  <2>2. CTypeOK'
    BY <1>2, <2>1 DEF CTypeOK
  <2>3. Alone(p)
    BY <2>1 DEF Alone
  <2>4. \A k \in locks' \ locks : Meaning(k)'
    BY <1>1, <1>2, <1>3, <2>1 DEF Meaning, SameRequest, Writable
  <2>. QED BY <2>1, <2>2, <2>3, <2>4 DEF SameRequest
<1>4. CASE Replaces(req[p])
  <2>1. Reach(p, "scan", {})
    BY <1>4 DEF AfterUpdate
  <2>2. /\ CTypeOK' /\ Alone(p) /\ SameRequest(p) /\ pc'[p] = "scan"
        /\ \A k \in locks' \ locks : Meaning(k)'
        /\ req'[p].named => Holds(p, req[p].row, {"nokey", "full"})'
    BY <1>3, <2>1
  <2>3. Shape(p)'
    BY <1>1, <1>2, <1>4, <2>2, SameMeaning DEF Shape, SameRequest, Writes, Cuts
  <2>4. Drafts(p)'
    BY <1>1, <2>2, SameMeaning DEF Drafts, Scanned
  <2>5. Owning(p)'
    BY <1>1, <2>2 DEF Owning, SameRequest
  <2>6. Cutting(p)' /\ Checked(p)'
    BY <2>2 DEF Cutting, Checked
  <2>7. Sound(p)' /\ pc'[p] \notin {"update", "read", "delete"}
    BY <2>2, <2>3, <2>4, <2>5, <2>6 DEF Sound
  <2>. QED BY <2>2, <2>7, GoesOn
<1>5. CASE ~Replaces(req[p])
  <2>1. Finish(p)
    BY <1>5 DEF AfterUpdate
  <2>2. PICK label \in {"reload", "commit"} : Reach(p, label, {})
    BY <2>1 DEF Finish
  <2>3. /\ CTypeOK' /\ Alone(p) /\ SameRequest(p) /\ \A k \in locks' \ locks : Meaning(k)'
        /\ req'[p].named => Holds(p, req[p].row, {"nokey", "full"})'
    BY <1>3, <2>2
  <2>4. ~Replaces(req[p])' /\ ~Cuts(req[p])' /\ req'[p].op = "update" /\ req'[p].row = o
    BY <1>1, <1>5, <2>3, SameMeaning DEF Cuts, SameRequest
  <2>5. Ready(p)'
    BY <1>1, <2>3, <2>4 DEF Ready
  <2>. QED BY <1>1, <2>1, <2>3, <2>5, FinishKeeps
<1>. QED BY <1>4, <1>5

LEMMA UpdateRowKeeps ==
    ASSUME ControlInv, NEW p \in Requests, UpdateRow(p)
    PROVE  ControlInv'
<1>. DEFINE o == req[p].row
<1>1. pc[p] = "update" /\ o \in Rows
  BY InvByRequest, Kinds DEF UpdateRow, Sound, Shape, Writes
<1>2. CTypeOK /\ UNCHANGED <<state, links, put, cut, fresh>>
  BY InvByRequest DEF UpdateRow
<1>3. CASE Miss(p)
  BY <1>2, <1>3, RollsBack DEF Miss
<1>4. ASSUME Writable(o), AfterUpdate(p), UNCHANGED locks, ~req[p].named PROVE ControlInv'
  BY <1>1, <1>2, <1>4, AfterUpdateKeeps DEF CTypeOK
<1>5. ASSUME Writable(o), AfterUpdate(p), NEW mode \in UpdateModes(o), Lock(p, o, mode), Free(p, o, mode)
      PROVE  ControlInv'
  <2>1. mode \in {"nokey", "full"} /\ (o \in Users => mode = "nokey") /\ mode \in Modes
    BY DEF UpdateModes, Modes
  <2>2. /\ locks \subseteq locks' /\ <<p, o, mode>> \in locks' /\ locks' \subseteq Requests \X Rows \X Modes
        /\ \A k \in locks' \ locks : /\ k[1] = p /\ k[2] = o /\ k[3] = mode
                                     /\ Free(p, k[2], k[3])
    <3>. HIDE DEF o
    <3>. QED BY <1>1, <1>2, <1>5, <2>1, LockFacts
  <2>3. Holds(p, o, {"nokey", "full"})'
    <3>1. req'[p].row = req[p].row
      <4>1. PICK label \in {"scan", "reload", "commit"} : Reach(p, label, {})
        BY <1>5 DEF AfterUpdate, Finish
      <4>. QED BY <1>2, <4>1, ReachFacts, {} \in SUBSET Links DEF Labels, Scanned, SameRequest
    <3>. QED BY <2>1, <2>2, <3>1 DEF Holds
  <2>4. Holds(p, req[p].row, {"nokey", "full"})'
    BY <2>3
  <2>. QED BY <1>1, <1>2, <1>5, <2>1, <2>2, <2>4, AfterUpdateKeeps
<1>. QED BY <1>3, <1>4, <1>5 DEF UpdateRow

LEMMA ReadRowKeeps ==
    ASSUME ControlInv, NEW p \in Requests, ReadRow(p)
    PROVE  ControlInv'
<1>1. /\ pc[p] = "read" /\ req[p].op = "remove"
      /\ put[p] = {} /\ cut[p] = {} /\ fresh[p] = {} /\ \A k \in locks : k[1] # p
  BY InvByRequest, IdleHoldsNothing DEF ReadRow, Sound, Shape
<1>2. CTypeOK /\ Shape(p) /\ UNCHANGED <<state, links, locks, put, cut, fresh, req>>
  BY InvByRequest DEF ReadRow, Sound
<1>3. /\ pc'[p] \in {"delete", "rollback"} /\ req'[p] = req[p] /\ SameRequest(p)
      /\ Alone(p) /\ CTypeOK'
  <2>1. PICK label \in {"delete", "rollback"} : Goto(p, label)
    BY DEF ReadRow
  <2>. QED BY <1>2, <2>1, GotoFacts DEF CTypeOK, Alone, Labels
<1>4. Shape(p)' /\ Drafts(p)' /\ Owning(p)' /\ Cutting(p)' /\ Checked(p)'
  BY <1>1, <1>2, <1>3 DEF Shape, Drafts, Owning, Cutting, Checked, Writes, Scanned
<1>5. Sound(p)'
  BY <1>4 DEF Sound
<1>. QED BY <1>1, <1>2, <1>3, <1>5, GoesOn

LEMMA DeleteRowKeeps ==
    ASSUME ControlInv, NEW p \in Requests, DeleteRow(p)
    PROVE  ControlInv'
<1>. DEFINE x == req[p].row
<1>1. /\ pc[p] = "delete" /\ req[p].op = "remove" /\ x \in Rows /\ state[x] # "never"
      /\ put[p] = {} /\ cut[p] = {} /\ fresh[p] = {} /\ \A k \in locks : k[1] # p
  BY InvByRequest, IdleHoldsNothing DEF DeleteRow, Sound, Shape
<1>2. CTypeOK /\ Shape(p) /\ UNCHANGED <<state, links, put, cut, fresh, req>>
  BY InvByRequest DEF DeleteRow, Sound
<1>3. CASE UNCHANGED locks /\ Goto(p, "rollback")
  BY <1>2, <1>3, RollsBack
<1>4. ASSUME NEW mode \in Modes, NEW label \in {"scan", "commit"}, Goto(p, label),
             Free(p, x, mode), Lock(p, x, mode), Writable(x),
             IF x \in Users THEN mode = "nokey" /\ label = "commit"
                            ELSE mode = "full" /\ label = "scan"
      PROVE  ControlInv'
  <2>1. /\ locks \subseteq locks' /\ <<p, x, mode>> \in locks' /\ locks' \subseteq Requests \X Rows \X Modes
        /\ \A k \in locks' \ locks : /\ k[1] = p /\ k[2] = x /\ k[3] = mode
                                     /\ Free(p, k[2], k[3])
    BY <1>1, <1>2, <1>4, LockFacts
  <2>2. /\ pc' \in [Requests -> Labels] /\ req' \in [Requests -> Request]
        /\ pc'[p] = label /\ req'[p] = req[p] /\ SameRequest(p)
        /\ \A q \in Requests \ {p} : pc'[q] = pc[q] /\ req'[q] = req[q]
    BY <1>2, <1>4, GotoFacts DEF Labels, Scanned
  <2>3. CTypeOK'
    BY <1>2, <2>1, <2>2 DEF CTypeOK
  <2>4. Alone(p)
    BY <1>2, <2>1, <2>2 DEF Alone
  <2>5. Holds(p, x, IF x \in Users THEN {"nokey"} ELSE {"full"})'
    BY <1>2, <1>4, <2>1 DEF Holds
  <2>6. Shape(p)'
    BY <1>1, <1>2, <1>4, <2>2 DEF Shape, Writes, Cuts
  <2>7. Drafts(p)' /\ Cutting(p)' /\ Checked(p)'
    BY <1>1, <1>2, <1>4, <2>2 DEF Drafts, Cutting, Checked, Cuts, Replaces, Scanned
  <2>8. Owning(p)'
    BY <1>1, <1>4, <2>2, <2>5 DEF Owning
  <2>9. \A k \in locks' \ locks : Meaning(k)'
    BY <1>1, <1>2, <1>4, <2>1, <2>2 DEF Meaning, Writable
  <2>10. Sound(p)' /\ pc'[p] \notin {"update", "read", "delete"}
    BY <2>2, <2>6, <2>7, <2>8 DEF Sound
  <2>. QED BY <2>2, <2>3, <2>4, <2>9, <2>10, GoesOn
<1>5. CASE x \in Users
  <2>1. Writable(x) /\ "nokey" \in Modes
    BY <1>1, <1>2, <1>5 DEF Writable, CTypeOK, Modes
  <2>. QED BY <1>4, <1>5, <2>1 DEF DeleteRow
<1>6. CASE x \notin Users
  <2>1. "full" \in Modes
    BY DEF Modes
  <2>. QED BY <1>3, <1>4, <1>6, <2>1 DEF DeleteRow, Writable
<1>. QED BY <1>5, <1>6

LEMMA ScopeOfUpdate ==
    ASSUME NEW p \in Requests, Writes(req[p])
    PROVE  Scope(req[p]) = {l \in Links : l[1] = req[p].row}
  BY DEF Scope, Writes

\* What p finds it cuts, and then it goes on.
LEMMA CutOnKeeps ==
    ASSUME ControlInv, NEW p \in Requests, pc[p] \in {"scan", "cut"},
           NEW rest \in SUBSET Scope(req[p]), CutOn(p, rest),
           UNCHANGED <<state, links, locks, put, fresh>>,
           cut' \in [Requests -> SUBSET Links], cut'[p] \subseteq Scope(req[p]),
           \A q \in Requests \ {p} : cut'[q] = cut[q],
           Found(req[p]) \subseteq cut'[p] \cup fresh[p] \cup rest
    PROVE  ControlInv'
<1>. DEFINE new == NewLinks(req[p].row, req[p].list)
<1>1. CTypeOK /\ Shape(p) /\ Drafts(p) /\ Owning(p)
  BY InvByRequest DEF Sound
<1>2. put[p] = {} /\ Cuts(req[p]) /\ req[p].op # "none" /\ rest \in SUBSET Links
  BY <1>1, RequestLinks DEF Shape, Drafts, Cuts, Replaces
<1>3. ASSUME NEW label \in {"cut", "put"}, NEW todo \in SUBSET Links, Reach(p, label, todo),
             IF label = "cut" THEN todo = rest
                              ELSE rest = {} /\ todo = new /\ req[p].op = "update"
      PROVE  ControlInv'
  <2>1. /\ pc' \in [Requests -> Labels] /\ req' \in [Requests -> Request]
        /\ pc'[p] = label /\ req'[p].todo = todo /\ SameRequest(p)
        /\ \A q \in Requests \ {p} : pc'[q] = pc[q] /\ req'[q] = req[q]
    BY <1>1, <1>3, ReachFacts DEF Labels, Scanned
  <2>2. CTypeOK' /\ Alone(p)
    BY <1>1, <2>1 DEF CTypeOK, Alone
  <2>3. Shape(p)'
    BY <1>1, <1>2, <1>3, <2>1, SameMeaning DEF Shape, SameRequest, Writes, Cuts
  <2>4. Drafts(p)'
    <3>1. /\ NewLinks(req[p].row, req[p].list)' = new /\ Scope(req[p])' = Scope(req[p])
          /\ (Cuts(req[p])' <=> Cuts(req[p])) /\ (Replaces(req[p])' <=> Replaces(req[p]))
      BY <2>1, SameMeaning
    <3>2. /\ put'[p] = {} /\ fresh'[p] = fresh[p] /\ cut'[p] \subseteq Scope(req[p])
          /\ fresh[p] \subseteq Scope(req[p])
          /\ req[p].op = "remove" => fresh[p] = {}
      BY <1>1, <1>2 DEF Drafts
    <3>. QED BY <1>2, <1>3, <2>1, <3>1, <3>2 DEF Drafts, SameRequest, Scanned
  <2>5. Owning(p)'
    <3>1. \A x, modes : Holds(p, x, modes)' <=> Holds(p, x, modes)
      BY DEF Holds
    <3>. QED BY <1>1, <1>2, <2>1, <3>1 DEF Owning, SameRequest, Scanned
  <2>6. Cutting(p)' /\ Checked(p)'
    BY <1>2, <1>3, <2>1, SameMeaning DEF Cutting, Checked
  <2>7. Sound(p)' /\ pc'[p] \notin {"update", "read", "delete"} /\ locks' \ locks = {}
    BY <2>1, <2>3, <2>4, <2>5, <2>6 DEF Sound
  <2>. QED BY <2>1, <2>2, <2>7, GoesOn
<1>4. ASSUME Finish(p), rest = {}, req[p].op = "update" => new = {}
      PROVE  ControlInv'
  <2>1. /\ pc' \in [Requests -> Labels] /\ req' \in [Requests -> Request]
        /\ SameRequest(p)
        /\ \A q \in Requests \ {p} : pc'[q] = pc[q] /\ req'[q] = req[q]
    BY <1>1, <1>4, ReachFacts, {} \in SUBSET Links DEF Labels, Scanned, Finish
  <2>2. CTypeOK' /\ Alone(p)
    BY <1>1, <2>1 DEF CTypeOK, Alone
  <2>3. Ready(p)'
    <3>1. \A x, modes : Holds(p, x, modes)' <=> Holds(p, x, modes)
      BY DEF Holds
    <3>2. put'[p] = {} /\ req[p].op # "create"
      BY <1>2 DEF Cuts, Replaces
    <3>3. Replaces(req[p]) => new = {}
      BY <1>4 DEF Replaces
    <3>4. /\ req[p].op = "update" /\ req[p].named => Holds(p, req[p].row, {"nokey", "full"})
          /\ req[p].op = "remove" => Holds(p, req[p].row, IF req[p].row \in Users THEN {"nokey"} ELSE {"full"})
      BY <1>1 DEF Owning, Scanned
    <3>5. fresh[p] \subseteq Scope(req[p]) /\ (req[p].op = "remove" /\ Cuts(req[p]) => fresh[p] = {})
      BY <1>1 DEF Drafts
    <3>. QED BY <1>2, <1>4, <2>1, <3>1, <3>2, <3>3, <3>4, <3>5, SameMeaning DEF Ready, SameRequest
  <2>4. req[p].op = "update" /\ req[p].named => Writable(req[p].row)
    <3>1. ASSUME NEW mode \in {"nokey", "full"}, <<p, req[p].row, mode>> \in locks
          PROVE  Writable(req[p].row)
      <4>1. Meaning(<<p, req[p].row, mode>>)
        BY <3>1, InvByRequest
      <4>. QED BY <4>1 DEF Meaning
    <3>. QED BY <1>1, <3>1 DEF Owning, Holds, Scanned
  <2>. QED BY <1>2, <1>4, <2>2, <2>3, <2>4, FinishKeeps
<1>5. CASE rest # {}
  BY <1>2, <1>3, <1>5 DEF CutOn
<1>6. CASE rest = {} /\ req[p].op = "update" /\ new # {}
  <2>1. new \in SUBSET Links
    BY <1>6, RequestLinks DEF Writes
  <2>. QED BY <1>3, <1>6, <2>1 DEF CutOn, AfterCut
<1>7. CASE rest = {} /\ ~(req[p].op = "update" /\ new # {})
  BY <1>4, <1>7 DEF CutOn, AfterCut
<1>. QED BY <1>5, <1>6, <1>7

LEMMA ScanKeeps ==
    ASSUME ControlInv, NEW p \in Requests, Scan(p)
    PROVE  ControlInv'
<1>1. CTypeOK /\ Shape(p) /\ Drafts(p) /\ Cuts(req[p]) /\ pc[p] = "scan"
  BY InvByRequest DEF Sound, Scan, Shape
<1>2. Found(req[p]) \in SUBSET Scope(req[p])
  BY <1>1, RequestLinks
<1>. QED BY <1>1, <1>2, CutOnKeeps DEF Scan, CTypeOK, Drafts, Scanned

LEMMA CutLinkKeeps ==
    ASSUME ControlInv, NEW p \in Requests, CutLink(p)
    PROVE  ControlInv'
<1>0. PICK l \in req[p].todo : \E gone \in SUBSET ({l} \cap links) :
          /\ pc[p] = "cut"
          /\ l \notin fresh[p] => gone = {l} \cap links
          /\ cut' = [cut EXCEPT ![p] = @ \cup gone]
          /\ CutOn(p, req[p].todo \ {l})
          /\ UNCHANGED <<state, links, locks, put, fresh>>
  BY DEF CutLink
<1>1. PICK gone \in SUBSET ({l} \cap links) :
          /\ pc[p] = "cut"
          /\ l \notin fresh[p] => gone = {l} \cap links
          /\ cut' = [cut EXCEPT ![p] = @ \cup gone]
          /\ CutOn(p, req[p].todo \ {l})
          /\ UNCHANGED <<state, links, locks, put, fresh>>
  BY <1>0
<1>2. CTypeOK /\ Shape(p) /\ Drafts(p) /\ Cutting(p) /\ Cuts(req[p])
  BY <1>1, InvByRequest DEF Sound, Shape
<1>3. req[p].todo \subseteq Scope(req[p]) /\ cut[p] \subseteq Scope(req[p])
  BY <1>1, <1>2 DEF Drafts
<1>4. Found(req[p]) \subseteq cut[p] \cup fresh[p] \cup req[p].todo /\ Found(req[p]) \subseteq links
  BY <1>1, <1>2, RequestLinks DEF Cutting
<1>5. /\ cut' \in [Requests -> SUBSET Links] /\ cut'[p] = cut[p] \cup gone
      /\ \A q \in Requests \ {p} : cut'[q] = cut[q]
  BY <1>1, <1>2 DEF CTypeOK
<1>. QED BY <1>1, <1>3, <1>4, <1>5, CutOnKeeps

LEMMA PutLinkKeeps ==
    ASSUME ControlInv, NEW p \in Requests, PutLink(p)
    PROVE  ControlInv'
<1>. DEFINE r == req[p]
            new == NewLinks(req[p].row, req[p].list)
<1>1. PICK l \in req[p].todo :
          /\ pc[p] = "put"
          /\ IF Keyed(l) /\ l \in links \ cut[p]
             THEN Goto(p, "rollback") /\ UNCHANGED <<put, req>>
             ELSE /\ put' = [put EXCEPT ![p] = @ \cup {l}]
                  /\ IF req[p].todo # {l} THEN Reach(p, "put", req[p].todo \ {l})
                     ELSE Reach(p, IF req[p].op = "update" THEN "owner" ELSE "check", put'[p])
          /\ UNCHANGED <<state, links, locks, cut, fresh>>
  BY DEF PutLink
<1>2. CTypeOK /\ Shape(p) /\ Drafts(p) /\ Owning(p) /\ Cutting(p)
  BY InvByRequest DEF Sound
<1>3. /\ req[p].op = "create" \/ Replaces(req[p])
      /\ Writes(req[p]) /\ put[p] \cup req[p].todo = new
      /\ new \subseteq {k \in Links : k[1] = req[p].row}
  BY <1>1, <1>2, RequestLinks DEF Shape, Drafts, Writes
<1>4. \A x, modes : Holds(p, x, modes)' <=> Holds(p, x, modes)
  BY <1>1 DEF Holds
<1>5. CASE Keyed(l) /\ l \in links \ cut[p]
  BY <1>1, <1>5, RollsBack
<1>6. ASSUME NEW label \in {"put", "owner", "check"}, NEW todo \in SUBSET Links, Reach(p, label, todo),
             put' = [put EXCEPT ![p] = @ \cup {l}],
             IF label = "put" THEN put'[p] \cup todo = new
             ELSE todo = put'[p] /\ put'[p] = new /\ (label = "owner" <=> req[p].op = "update")
      PROVE  ControlInv'
  <2>1. /\ pc' \in [Requests -> Labels] /\ req' \in [Requests -> Request]
        /\ pc'[p] = label /\ req'[p].todo = todo /\ SameRequest(p)
        /\ \A q \in Requests \ {p} : pc'[q] = pc[q] /\ req'[q] = req[q]
    BY <1>2, <1>6, ReachFacts DEF Labels, Scanned
  <2>2. l \in Links /\ put' \in [Requests -> SUBSET Links] /\ put'[p] = put[p] \cup {l}
        /\ \A q \in Requests \ {p} : put'[q] = put[q]
    BY <1>1, <1>2, <1>3, <1>6 DEF CTypeOK
  <2>3. CTypeOK'
    BY <1>1, <1>2, <2>1, <2>2 DEF CTypeOK
  <2>4. Alone(p)
    BY <1>1, <2>1, <2>2 DEF Alone
  <2>5. Shape(p)'
    BY <1>1, <1>2, <1>3, <1>6, <2>1, SameMeaning DEF Shape, SameRequest, Writes, Replaces
  <2>6. Drafts(p)'
    <3>1. put'[p] \subseteq {k \in Links : k[1] = req'[p].row}
      BY <1>1, <1>3, <2>1, <2>2 DEF SameRequest
    <3>. QED BY <1>1, <1>2, <1>3, <1>6, <2>1, <3>1, SameMeaning DEF Drafts, SameRequest, Scanned
  <2>7. Owning(p)'
    BY <1>1, <1>2, <1>4, <1>6, <2>1 DEF Owning, SameRequest, Scanned
  <2>8. Cutting(p)'
    BY <1>1, <1>2, <1>6, <2>1, SameMeaning DEF Cutting
  <2>9. Checked(p)'
    BY <1>6, <2>1 DEF Checked
  <2>10. Sound(p)' /\ pc'[p] \notin {"update", "read", "delete"} /\ locks' \ locks = {}
    BY <1>1, <2>1, <2>5, <2>6, <2>7, <2>8, <2>9 DEF Sound
  <2>. QED BY <2>1, <2>3, <2>4, <2>10, GoesOn
<1>7. CASE ~(Keyed(l) /\ l \in links \ cut[p])
  <2>1. put' = [put EXCEPT ![p] = @ \cup {l}] /\ put'[p] = put[p] \cup {l}
    BY <1>1, <1>2, <1>7 DEF CTypeOK
  <2>2. CASE req[p].todo = {l}
    <3>1. /\ put'[p] = new /\ put'[p] \in SUBSET Links
          /\ Reach(p, IF req[p].op = "update" THEN "owner" ELSE "check", put'[p])
      BY <1>1, <1>3, <1>7, <2>1, <2>2
    <3>2. PICK label \in {"owner", "check"} :
              Reach(p, label, put'[p]) /\ (label = "owner" <=> req[p].op = "update")
      BY <3>1
    <3>. QED BY <1>6, <2>1, <3>1, <3>2
  <2>3. CASE req[p].todo # {l}
    <3>1. /\ req[p].todo \ {l} \in SUBSET Links /\ put'[p] \cup (req[p].todo \ {l}) = new
          /\ Reach(p, "put", req[p].todo \ {l})
      BY <1>1, <1>3, <1>7, <2>1, <2>3
    <3>. QED BY <1>6, <2>1, <3>1
  <2>. QED BY <2>2, <2>3
<1>. QED BY <1>5, <1>7

LEMMA CheckOwnerKeeps ==
    ASSUME ControlInv, NEW p \in Requests, CheckOwner(p)
    PROVE  ControlInv'
<1>. DEFINE o == req[p].row
<1>1. CTypeOK /\ Shape(p) /\ Drafts(p) /\ Owning(p) /\ Cutting(p)
  BY InvByRequest DEF Sound
<1>2. /\ pc[p] = "owner" /\ Free(p, o, "share") /\ UNCHANGED <<state, links, put, cut, fresh>>
      /\ req[p].op = "update" /\ Replaces(req[p]) /\ o \in Owners /\ o \in Rows
  BY <1>1, Kinds DEF CheckOwner, Shape, Writes, Replaces
<1>3. CASE Miss(p)
  BY <1>2, <1>3, RollsBack DEF Miss
<1>4. CASE Writable(o) /\ Lock(p, o, "share") /\ Goto(p, "check") /\ UNCHANGED req
  <2>1. /\ locks \subseteq locks' /\ <<p, o, "share">> \in locks'
        /\ locks' \subseteq Requests \X Rows \X Modes
        /\ \A k \in locks' \ locks : /\ k[1] = p /\ k[2] = o /\ k[3] = "share"
                                     /\ Free(p, k[2], k[3])
    <3>1. "share" \in Modes
      BY DEF Modes
    <3>. HIDE DEF o
    <3>. QED BY <1>1, <1>2, <1>4, <3>1, LockFacts
  <2>2. /\ pc' \in [Requests -> Labels] /\ req' \in [Requests -> Request]
        /\ pc'[p] = "check" /\ req'[p] = req[p] /\ SameRequest(p)
        /\ \A q \in Requests \ {p} : pc'[q] = pc[q] /\ req'[q] = req[q]
    BY <1>1, <1>4, GotoFacts DEF Labels, Scanned
  <2>3. CTypeOK' /\ Alone(p)
    BY <1>1, <1>2, <2>1, <2>2 DEF CTypeOK, Alone
  <2>4. \A x, modes : Holds(p, x, modes) => Holds(p, x, modes)'
    BY <2>1 DEF Holds
  <2>5. Holds(p, req[p].row, Modes)'
    BY <2>1, <2>2 DEF Holds, Modes
  <2>6. Shape(p)' /\ Cutting(p)'
    BY <1>1, <1>2, <2>2, SameMeaning DEF Shape, Cutting, Writes
  <2>7. Drafts(p)' /\ Checked(p)'
    BY <1>1, <1>2, <2>2, SameMeaning DEF Drafts, Checked, Scanned
  <2>8. Owning(p)'
    BY <1>1, <1>2, <2>2, <2>4, <2>5 DEF Owning, Scanned
  <2>9. \A k \in locks' \ locks : Meaning(k)'
    BY <1>2, <1>4, <2>1, <2>2, Modes = {"share", "nokey", "full"} DEF Meaning, Writable, Modes
  <2>10. Sound(p)' /\ pc'[p] \notin {"update", "read", "delete"}
    BY <2>2, <2>6, <2>7, <2>8 DEF Sound
  <2>. QED BY <2>2, <2>3, <2>9, <2>10, GoesOn
<1>. QED BY <1>3, <1>4 DEF CheckOwner

LEMMA CheckLinkKeeps ==
    ASSUME ControlInv, NEW p \in Requests, CheckLink(p)
    PROVE  ControlInv'
<1>1. PICK l \in req[p].todo :
          /\ pc[p] = "check" /\ Free(p, l[2], "share")
          /\ \/ /\ state[l[2]] = "present"
                /\ Lock(p, l[2], "share")
                /\ IF req[p].todo = {l} THEN Finish(p) ELSE Reach(p, "check", req[p].todo \ {l})
             \/ Miss(p)
          /\ UNCHANGED <<state, links, put, cut, fresh>>
  BY DEF CheckLink
<1>2. CTypeOK /\ Shape(p) /\ Drafts(p) /\ Owning(p) /\ Cutting(p) /\ Checked(p)
  BY InvByRequest DEF Sound
<1>3. /\ req[p].op = "create" \/ Replaces(req[p])
      /\ Writes(req[p]) /\ req[p].op \in {"create", "update"} /\ req[p].todo \subseteq put[p]
      /\ put[p] = NewLinks(req[p].row, req[p].list)
      /\ put[p] \subseteq {k \in Links : k[1] = req[p].row}
  BY <1>1, <1>2 DEF Shape, Drafts, Writes, Replaces
<1>4. l[1] = req[p].row /\ l[2] \in Members(req[p].row) /\ l[2] \in Rows
  BY <1>1, <1>3, LinkParts
<1>5. CASE Miss(p)
  BY <1>1, <1>5, RollsBack DEF Miss
<1>6. CASE /\ state[l[2]] = "present" /\ Lock(p, l[2], "share")
           /\ IF req[p].todo = {l} THEN Finish(p) ELSE Reach(p, "check", req[p].todo \ {l})
  <2>1. /\ locks \subseteq locks' /\ <<p, l[2], "share">> \in locks'
        /\ locks' \subseteq Requests \X Rows \X Modes
        /\ \A k \in locks' \ locks : /\ k[1] = p /\ k[2] = l[2] /\ k[3] = "share"
                                     /\ Free(p, k[2], k[3])
    <3>1. "share" \in Modes
      BY DEF Modes
    <3>. QED BY <1>1, <1>2, <1>4, <1>6, <3>1, LockFacts
  <2>2. \A x, modes : Holds(p, x, modes) => Holds(p, x, modes)'
    BY <2>1 DEF Holds
  <2>3. Holds(p, l[2], {"share"})'
    BY <2>1 DEF Holds
  <2>4. \A k \in put[p] : (k \in req[p].todo /\ k # l) \/ Holds(p, k[2], {"share"})'
    BY <1>1, <1>2, <2>2, <2>3 DEF Checked
  <2>5. ASSUME NEW label \in Labels, NEW todo \in SUBSET Links, Reach(p, label, todo),
               label \in {"check", "reload", "commit"}
        PROVE  /\ CTypeOK' /\ Alone(p) /\ SameRequest(p) /\ pc'[p] = label /\ req'[p].todo = todo
               /\ \A k \in locks' \ locks : Meaning(k)'
    <3>1. /\ pc' \in [Requests -> Labels] /\ req' \in [Requests -> Request]
          /\ pc'[p] = label /\ req'[p].todo = todo /\ SameRequest(p)
          /\ \A q \in Requests \ {p} : pc'[q] = pc[q] /\ req'[q] = req[q]
      BY <1>2, <2>5, ReachFacts
    <3>2. CTypeOK' /\ Alone(p)
      BY <1>1, <1>2, <2>1, <3>1 DEF CTypeOK, Alone
    <3>3. l[2] # req[p].row
      BY <1>2, <1>3, <1>4, NotItsOwnMember DEF Shape
    <3>4. \A k \in locks' \ locks : Meaning(k)'
      BY <1>1, <1>3, <1>4, <1>6, <2>1, <2>5, <3>1, <3>3 DEF Meaning, SameRequest, Writes
    <3>. QED BY <3>1, <3>2, <3>4
  <2>6. CASE req[p].todo # {l}
    <3>1. Reach(p, "check", req[p].todo \ {l}) /\ req[p].todo \ {l} \in SUBSET Links
      BY <1>3, <1>6, <2>6
    <3>2. /\ CTypeOK' /\ Alone(p) /\ SameRequest(p) /\ pc'[p] = "check"
          /\ req'[p].todo = req[p].todo \ {l} /\ \A k \in locks' \ locks : Meaning(k)'
      BY <2>5, <3>1 DEF Labels, Scanned
    <3>3. Shape(p)' /\ Drafts(p)' /\ Cutting(p)'
      BY <1>1, <1>2, <1>3, <3>2, SameMeaning DEF Shape, Drafts, Cutting, SameRequest, Writes, Scanned
    <3>4. Owning(p)'
      BY <1>1, <1>2, <2>2, <3>2 DEF Owning, SameRequest, Scanned
    <3>5. Checked(p)'
      BY <1>1, <2>4, <3>2 DEF Checked
    <3>6. Sound(p)' /\ pc'[p] \notin {"update", "read", "delete"}
      BY <3>2, <3>3, <3>4, <3>5 DEF Sound
    <3>. QED BY <3>2, <3>6, GoesOn
  <2>7. CASE req[p].todo = {l}
    <3>1. Finish(p)
      BY <1>6, <2>7
    <3>2. PICK label \in {"reload", "commit"} : Reach(p, label, {})
      BY <3>1 DEF Finish
    <3>3. /\ CTypeOK' /\ Alone(p) /\ SameRequest(p) /\ \A k \in locks' \ locks : Meaning(k)'
      BY <2>5, <3>2, {} \in SUBSET Links DEF Labels, Scanned
    <3>4. \A k \in put'[p] : Holds(p, k[2], {"share"})'
      BY <1>1, <2>4, <2>7
    <3>5. CASE req[p].op = "create"
      <4>1. state[req[p].row] = "never"
        BY <1>1, <1>2, <3>5 DEF Owning, Scanned
      <4>2. Ready(p)'
        BY <1>1, <1>2, <1>3, <3>3, <3>4, <3>5, <4>1, SameMeaning
        DEF Ready, SameRequest, Drafts, Cutting
      <4>. QED BY <3>1, <3>3, <3>5, <4>2, FinishKeeps
    <3>6. CASE req[p].op = "update"
      <4>1. /\ req[p].named => Holds(p, req[p].row, {"nokey", "full"})
            /\ put[p] # {} => Holds(p, req[p].row, Modes)
        BY <1>1, <1>2, <3>6 DEF Owning, Scanned
      <4>2. req[p].named => Writable(req[p].row)
        <5>1. ASSUME NEW mode \in {"nokey", "full"}, <<p, req[p].row, mode>> \in locks
              PROVE  Writable(req[p].row)
          <6>1. Meaning(<<p, req[p].row, mode>>)
            BY <5>1, InvByRequest
          <6>. QED BY <5>1, <6>1 DEF Meaning
        <5>. QED BY <4>1, <5>1 DEF Holds
      <4>3. Ready(p)'
        BY <1>1, <1>2, <1>3, <2>2, <3>3, <3>4, <3>6, <4>1, SameMeaning
        DEF Ready, SameRequest, Drafts, Cutting
      <4>. QED BY <3>1, <3>3, <3>6, <4>2, <4>3, FinishKeeps
    <3>. QED BY <1>3, <3>5, <3>6
  <2>. QED BY <2>6, <2>7
<1>. QED BY <1>1, <1>5, <1>6

LEMMA ReloadKeeps ==
    ASSUME ControlInv, NEW p \in Requests, Reload(p)
    PROVE  ControlInv'
<1>1. CTypeOK /\ Shape(p) /\ Drafts(p) /\ Owning(p) /\ Cutting(p) /\ Checked(p)
  BY InvByRequest DEF Sound
<1>2. /\ UNCHANGED <<state, links, locks, put, cut, fresh, req>>
      /\ pc[p] = "reload" /\ req[p].op = "update"
  BY <1>1 DEF Reload, Shape
<1>3. PICK label \in {"commit", "rollback"} :
          Goto(p, label) /\ (label = "commit" => state[req[p].row] = "present")
  BY DEF Reload
<1>4. /\ pc'[p] = label /\ req'[p] = req[p] /\ SameRequest(p) /\ Alone(p) /\ CTypeOK'
      /\ locks' = locks
  BY <1>1, <1>2, <1>3, GotoFacts DEF CTypeOK, Alone, Labels, Scanned
<1>5. Shape(p)'
  BY <1>1, <1>2, <1>3, <1>4 DEF Shape, Writes
<1>6. Drafts(p)' /\ Cutting(p)' /\ Checked(p)'
  BY <1>1, <1>2, <1>4, SameMeaning DEF Drafts, Cutting, Checked, Holds, Scanned
<1>7. Owning(p)'
  <2>1. \A x, modes : Holds(p, x, modes)' <=> Holds(p, x, modes)
    BY <1>2 DEF Holds
  <2>. QED BY <1>1, <1>2, <1>4, <2>1 DEF Owning, Scanned
<1>8. Sound(p)' /\ pc'[p] \notin {"update", "read", "delete"}
  BY <1>4, <1>5, <1>6, <1>7 DEF Sound
<1>. QED BY <1>2, <1>4, <1>8, GoesOn

-----------------------------------------------------------------------------
(* The beginning of a request.                                             *)

LEMMA BeginFacts ==
    ASSUME CTypeOK, NEW p \in Requests, NEW label \in Labels, NEW request \in Request,
           Begin(p, label, request)
    PROVE  /\ pc' \in [Requests -> Labels] /\ req' \in [Requests -> Request]
           /\ pc'[p] = label /\ req'[p] = request
           /\ \A q \in Requests \ {p} : pc'[q] = pc[q] /\ req'[q] = req[q]
  BY DEF CTypeOK, Begin, Goto

LEMMA CreateKeeps ==
    ASSUME ControlInv, NEW p \in Requests, Create(p)
    PROVE  ControlInv'
<1>0. PICK o \in Owners : \E list \in (SUBSET Members(o)) \cup {Unset} :
          /\ pc[p] = "idle" /\ Unnamed(o)
          /\ Begin(p, IF NewLinks(o, list) = {} THEN "commit" ELSE "put",
                   [op |-> "create", row |-> o, list |-> list, named |-> TRUE, todo |-> NewLinks(o, list)])
          /\ UNCHANGED <<state, links, locks, put, cut, fresh>>
  BY DEF Create
<1>1. PICK list \in (SUBSET Members(o)) \cup {Unset} :
          /\ pc[p] = "idle" /\ Unnamed(o)
          /\ Begin(p, IF NewLinks(o, list) = {} THEN "commit" ELSE "put",
                   [op |-> "create", row |-> o, list |-> list, named |-> TRUE, todo |-> NewLinks(o, list)])
          /\ UNCHANGED <<state, links, locks, put, cut, fresh>>
  BY <1>0
<1>. DEFINE new == NewLinks(o, list)
            request == [op |-> "create", row |-> o, list |-> list, named |-> TRUE, todo |-> new]
<1>2. CTypeOK /\ put[p] = {} /\ cut[p] = {} /\ fresh[p] = {} /\ \A k \in locks : k[1] # p
  BY <1>1, InvByRequest, IdleHoldsNothing
<1>3. new \subseteq {l \in Links : l[1] = o} /\ list \in Lists /\ o \in Rows
  BY NewLinksOf, Kinds
<1>4. request \in Request
  BY <1>3 DEF Request, Ops
<1>5. PICK label \in {"commit", "put"} : Begin(p, label, request) /\ (label = "commit" => new = {})
  BY <1>1
<1>6. /\ pc' \in [Requests -> Labels] /\ req' \in [Requests -> Request]
      /\ pc'[p] = label /\ req'[p] = request
      /\ \A q \in Requests \ {p} : pc'[q] = pc[q] /\ req'[q] = req[q]
  <2>. HIDE DEF request
  <2>. QED BY <1>2, <1>4, <1>5, BeginFacts DEF Labels, Scanned
<1>7. CTypeOK' /\ Alone(p)
  BY <1>1, <1>2, <1>6 DEF CTypeOK, Alone
<1>8. /\ req'[p].op = "create" /\ req'[p].row = o /\ req'[p].list = list /\ req'[p].todo = new
      /\ state' = state /\ put'[p] = {} /\ cut'[p] = {} /\ fresh'[p] = {}
  BY <1>1, <1>2, <1>6
<1>9. Shape(p)'
  BY <1>6, <1>8 DEF Shape, Writes
<1>10. Drafts(p)' /\ Cutting(p)' /\ Checked(p)' /\ Owning(p)'
  BY <1>1, <1>5, <1>6, <1>8 DEF Drafts, Cutting, Checked, Owning, Cuts, Replaces, Unnamed, Scanned
<1>11. \A q \in Requests : CreatesAloneAt(q)'
  <2>1. \A q \in Requests : CreatesAloneAt(q)
    BY InvByRequest
  <2>2. \A q \in Requests \ {p} : req'[q].row # o /\ req'[q].row = req[q].row /\ req'[q].op = req[q].op
    BY <1>1, <1>6 DEF Unnamed
  <2>. QED BY <1>1, <1>8, <2>1, <2>2 DEF CreatesAloneAt, Unnamed
<1>12. Sound(p)' /\ locks' = locks
  BY <1>1, <1>9, <1>10 DEF Sound
<1>. QED BY <1>2, <1>7, <1>11, <1>12, AloneKeeps

\* A request for a row that has been there.
LEMMA ReceiveKeeps ==
    ASSUME ControlInv, NEW p \in Requests, NEW label \in {"update", "read", "delete"},
           NEW request \in Request, pc[p] = "idle", Begin(p, label, request),
           UNCHANGED <<state, links, locks, put, cut, fresh>>,
           request.row \in Rows, state[request.row] # "never",
           request.op = (IF label = "update" THEN "update" ELSE "remove"),
           label = "update" => /\ request.row \in Owners
                               /\ request.list \in (SUBSET Members(request.row)) \cup {Unset}
    PROVE  ControlInv'
<1>1. CTypeOK /\ put[p] = {} /\ cut[p] = {} /\ fresh[p] = {} /\ \A k \in locks : k[1] # p
  BY InvByRequest, IdleHoldsNothing
<1>2. /\ pc' \in [Requests -> Labels] /\ req' \in [Requests -> Request]
      /\ pc'[p] = label /\ req'[p] = request
      /\ \A q \in Requests \ {p} : pc'[q] = pc[q] /\ req'[q] = req[q]
  BY <1>1, BeginFacts DEF Labels
<1>3. CTypeOK' /\ Alone(p)
  BY <1>1, <1>2 DEF CTypeOK, Alone
<1>4. Shape(p)'
  BY <1>2 DEF Shape, Writes
<1>5. Drafts(p)' /\ Cutting(p)' /\ Checked(p)' /\ Owning(p)'
  BY <1>1, <1>2 DEF Drafts, Cutting, Checked, Owning, Scanned
<1>6. \A q \in Requests : CreatesAloneAt(q)'
  <2>1. \A q \in Requests : CreatesAloneAt(q)
    BY InvByRequest
  <2>. QED BY <1>2, <2>1 DEF CreatesAloneAt
<1>7. Sound(p)'
  BY <1>4, <1>5 DEF Sound
<1>. QED BY <1>1, <1>3, <1>6, <1>7, AloneKeeps

LEMMA ReceiveUpdateKeeps ==
    ASSUME ControlInv, NEW p \in Requests, ReceiveUpdate(p)
    PROVE  ControlInv'
<1>0. PICK o \in Owners, named \in BOOLEAN : \E list \in (SUBSET Members(o)) \cup {Unset} :
          /\ Idle(p, o)
          /\ Begin(p, "update", [op |-> "update", row |-> o, list |-> list, named |-> named, todo |-> {}])
          /\ UNCHANGED <<state, links, locks, put, cut, fresh>>
  BY DEF ReceiveUpdate
<1>1. PICK list \in (SUBSET Members(o)) \cup {Unset} :
          /\ Idle(p, o)
          /\ Begin(p, "update", [op |-> "update", row |-> o, list |-> list, named |-> named, todo |-> {}])
          /\ UNCHANGED <<state, links, locks, put, cut, fresh>>
  BY <1>0
<1>. DEFINE request == [op |-> "update", row |-> o, list |-> list, named |-> named, todo |-> {}]
<1>2. /\ request \in Request /\ request.row = o /\ request.list = list /\ request.op = "update"
      /\ o \in Rows
  BY NewLinksOf, Kinds DEF Request, Ops
<1>3. Begin(p, "update", request)
  BY <1>1
<1>. HIDE DEF request
<1>. QED BY <1>1, <1>2, <1>3, ReceiveKeeps DEF Idle

LEMMA ReceiveRemoveKeeps ==
    ASSUME ControlInv, NEW p \in Requests, ReceiveRemove(p)
    PROVE  ControlInv'
<1>1. PICK x \in Rows :
          /\ Idle(p, x)
          /\ Begin(p, IF x \in Users \cup Roles THEN "read" ELSE "delete",
                   [Blank EXCEPT !.op = "remove", !.row = x])
          /\ UNCHANGED <<state, links, locks, put, cut, fresh>>
  BY DEF ReceiveRemove
<1>. DEFINE request == [Blank EXCEPT !.op = "remove", !.row = x]
<1>2. request \in Request /\ request.row = x /\ request.op = "remove"
  BY Kinds DEF Request, Ops, Blank
<1>3. PICK label \in {"read", "delete"} : Begin(p, label, request)
  BY <1>1
<1>. HIDE DEF request
<1>. QED BY <1>1, <1>2, <1>3, ReceiveKeeps DEF Idle

-----------------------------------------------------------------------------
(* The end of a request.                                                   *)

LEMMA EndFacts ==
    ASSUME CTypeOK, NEW p \in Requests, End(p)
    PROVE  /\ locks' = {k \in locks : k[1] # p} /\ locks' \subseteq Requests \X Rows \X Modes
           /\ put' \in [Requests -> SUBSET Links] /\ cut' \in [Requests -> SUBSET Links]
           /\ pc' \in [Requests -> Labels] /\ req' \in [Requests -> Request]
           /\ pc'[p] = "idle" /\ req'[p] = Blank /\ put'[p] = {} /\ cut'[p] = {}
           /\ \A q \in Requests \ {p} : /\ pc'[q] = pc[q] /\ req'[q] = req[q]
                                        /\ put'[q] = put[q] /\ cut'[q] = cut[q]
<1>1. Blank \in Request /\ Begin(p, "idle", Blank) /\ "idle" \in Labels
  BY DEF Blank, Request, Ops, Lists, End, Labels
<1>2. /\ pc' \in [Requests -> Labels] /\ req' \in [Requests -> Request]
      /\ pc'[p] = "idle" /\ req'[p] = Blank
      /\ \A q \in Requests \ {p} : pc'[q] = pc[q] /\ req'[q] = req[q]
  BY <1>1, BeginFacts
<1>. QED BY <1>2 DEF End, CTypeOK

\* A request that ends leaves nothing behind; of the others it remains to look at what
\* depends on the tables.
LEMMA EndKeeps ==
    ASSUME ControlInv, CTypeOK', NEW p \in Requests, End(p), NoDanglingLinks',
           fresh'[p] = {},
           \A q \in Requests \ {p} : Shape(q)' /\ Drafts(q)' /\ Owning(q)' /\ Cutting(q)' /\ CreatesAloneAt(q)',
           \A k \in locks : k[1] # p => Meaning(k)'
    PROVE  ControlInv'
<1>1. CTypeOK /\ LocksExclude
  BY InvByRequest
<1>2. /\ locks' = {k \in locks : k[1] # p}
      /\ pc'[p] = "idle" /\ req'[p] = Blank /\ put'[p] = {} /\ cut'[p] = {}
      /\ \A q \in Requests \ {p} : /\ pc'[q] = pc[q] /\ req'[q] = req[q]
                                   /\ put'[q] = put[q] /\ cut'[q] = cut[q]
  BY <1>1, EndFacts
<1>3. LocksExclude'
  BY <1>1, <1>2 DEF LocksExclude
<1>4. Sound(p)' /\ CreatesAloneAt(p)'
  <2>1. Shape(p)' /\ Drafts(p)' /\ Owning(p)' /\ Cutting(p)' /\ Checked(p)' /\ CreatesAloneAt(p)'
    BY <1>2 DEF Shape, Drafts, Owning, Cutting, Checked, CreatesAloneAt, Blank, Writes, Scanned, Cuts, Replaces
  <2>. QED BY <2>1 DEF Sound
<1>5. ASSUME NEW q \in Requests \ {p} PROVE Sound(q)'
  <2>1. Checked(q)
    BY InvByRequest DEF Sound
  <2>3. \A x, modes : Holds(q, x, modes) => Holds(q, x, modes)'
    BY <1>2 DEF Holds
  <2>4. Checked(q)'
    BY <1>2, <2>1, <2>3 DEF Checked
  <2>. QED BY <2>4 DEF Sound
<1>6. \A k \in locks' : Meaning(k)'
  BY <1>2
<1>. QED BY <1>3, <1>4, <1>5, <1>6, InvByRequestNext

LEMMA AbortKeeps ==
    ASSUME ControlInv, NEW p \in Requests, Forget(p), End(p), UNCHANGED <<state, links>>
    PROVE  ControlInv'
<1>1. CTypeOK /\ NoDanglingLinks
  BY InvByRequest
<1>2. CTypeOK'
  BY <1>1, EndFacts DEF CTypeOK, Forget
<1>3. NoDanglingLinks'
  BY <1>1 DEF NoDanglingLinks, Writable
<1>4. /\ locks' = {k \in locks : k[1] # p} /\ req'[p] = Blank
      /\ \A q \in Requests \ {p} : /\ pc'[q] = pc[q] /\ req'[q] = req[q]
                                   /\ put'[q] = put[q] /\ cut'[q] = cut[q]
                                   /\ fresh'[q] = fresh[q]
      /\ fresh'[p] = {}
  BY <1>1, EndFacts DEF CTypeOK, Forget
<1>5. ASSUME NEW q \in Requests \ {p}
      PROVE  Shape(q)' /\ Drafts(q)' /\ Owning(q)' /\ Cutting(q)' /\ CreatesAloneAt(q)'
  <2>1. Shape(q) /\ Drafts(q) /\ Owning(q) /\ Cutting(q) /\ CreatesAloneAt(q)
    BY InvByRequest DEF Sound
  <2>2. Shape(q)' /\ Drafts(q)' /\ Cutting(q)'
    BY <1>4, <2>1 DEF Shape, Drafts, Cutting, Found
  <2>3. \A x, modes : Holds(q, x, modes) => Holds(q, x, modes)'
    BY <1>4 DEF Holds
  <2>4. Owning(q)'
    BY <1>4, <2>1, <2>3 DEF Owning
  <2>5. CreatesAloneAt(q)'
    <3>1. ASSUME req[q].op = "create" PROVE req[q].row # None
      BY <2>1, <3>1, Kinds DEF Shape, Writes
    <3>. QED BY <1>4, <2>1, <3>1 DEF CreatesAloneAt, Blank
  <2>. QED BY <2>2, <2>4, <2>5
<1>6. ASSUME NEW k \in locks, k[1] # p PROVE Meaning(k)'
  <2>1. Meaning(k) /\ k[1] \in Requests \ {p}
    BY <1>1, <1>6, InvByRequest DEF CTypeOK
  <2>. QED BY <1>4, <2>1 DEF Meaning, Writable
<1>. QED BY <1>2, <1>3, <1>4, <1>5, <1>6, EndKeeps

-----------------------------------------------------------------------------
(* Commit.                                                                 *)

\* Two requests do not hold one row in modes that conflict.
LEMMA HoldersExclude ==
    ASSUME ControlInv, NEW p \in Requests, NEW q \in Requests, NEW x,
           NEW M \in SUBSET Modes, NEW N \in SUBSET Modes,
           Holds(p, x, M), Holds(q, x, N), \A m \in M, n \in N : Conflict(m, n)
    PROVE  p = q
<1>1. PICK m \in M : <<p, x, m>> \in locks
  BY DEF Holds
<1>2. PICK n \in N : <<q, x, n>> \in locks
  BY DEF Holds
<1>. QED BY <1>1, <1>2, InvByRequest DEF LocksExclude

\* What a request may rely on when it commits.
LEMMA AtCommit ==
    ASSUME ControlInv, NEW p \in Requests, pc[p] = "commit"
    PROVE  /\ req[p].op \in {"create", "update", "remove"} /\ req[p].row \in Rows
           /\ req[p].op # "remove" => req[p].row \in Owners
           /\ \A l \in put[p] : /\ l \in Links /\ l[1] = req[p].row /\ req[p].op # "remove"
                                /\ Holds(p, l[2], {"share"}) /\ state[l[2]] = "present"
           /\ req[p].op = "create" => state[req[p].row] = "never"
           /\ req[p].op = "update" /\ req[p].named => /\ Holds(p, req[p].row, {"nokey", "full"})
                                                      /\ state[req[p].row] = "present"
           /\ req[p].op = "update" /\ put[p] # {} => Holds(p, req[p].row, Modes) /\ Writable(req[p].row)
           /\ req[p].op = "remove" /\ req[p].row \notin Users =>
                 /\ Holds(p, req[p].row, {"full"}) /\ fresh[p] = {}
                 /\ links \cap Touching(req[p].row) \subseteq cut[p]
           /\ req[p].op = "remove" /\ req[p].row \in Users => Holds(p, req[p].row, {"nokey"})
<1>1. CTypeOK /\ Shape(p) /\ Drafts(p) /\ Owning(p) /\ Cutting(p) /\ Checked(p)
  BY InvByRequest DEF Sound
<1>2. req[p].op \in {"create", "update", "remove"}
  BY <1>1 DEF CTypeOK, Request, Ops, Shape
<1>3. req[p].row \in Rows /\ (req[p].op # "remove" => req[p].row \in Owners)
  BY <1>1, <1>2, Kinds DEF Shape, Writes
<1>4. ASSUME NEW l \in put[p]
      PROVE  /\ l \in Links /\ l[1] = req[p].row /\ req[p].op # "remove"
             /\ Holds(p, l[2], {"share"}) /\ state[l[2]] = "present"
  <2>1. l \in Links /\ l[1] = req[p].row /\ req[p].op # "remove" /\ Holds(p, l[2], {"share"})
    BY <1>1, <1>4 DEF Drafts, Checked, Replaces
  <2>2. <<p, l[2], "share">> \in locks
    BY <2>1 DEF Holds
  <2>3. Meaning(<<p, l[2], "share">>)
    BY <2>2, InvByRequest
  <2>4. l[2] # req[p].row
    <3>1. l[2] \in Members(l[1]) /\ l[1] \in Owners
      BY <2>1, LinkParts
    <3>. QED BY <2>1, <3>1, NotItsOwnMember
  <2>. QED BY <2>1, <2>3, <2>4 DEF Meaning
<1>5. req[p].op = "create" => state[req[p].row] = "never"
  BY <1>1 DEF Owning, Scanned
<1>6. req[p].op = "update" /\ req[p].named => /\ Holds(p, req[p].row, {"nokey", "full"})
                                              /\ state[req[p].row] = "present"
  BY <1>1 DEF Owning, Shape, Scanned
<1>7. req[p].op = "update" /\ put[p] # {} => Holds(p, req[p].row, Modes) /\ Writable(req[p].row)
  <2>1. req[p].op = "update" /\ put[p] # {} => Holds(p, req[p].row, Modes)
    BY <1>1 DEF Owning
  <2>2. ASSUME NEW mode \in Modes, <<p, req[p].row, mode>> \in locks PROVE Writable(req[p].row)
    <3>1. Meaning(<<p, req[p].row, mode>>)
      BY <2>2, InvByRequest
    <3>. QED BY <3>1 DEF Meaning
  <2>. QED BY <2>1, <2>2 DEF Holds
<1>8. req[p].op = "remove" => Holds(p, req[p].row, IF req[p].row \in Users THEN {"nokey"} ELSE {"full"})
  BY <1>1 DEF Owning, Scanned
<1>9. req[p].op = "remove" /\ req[p].row \notin Users =>
          fresh[p] = {} /\ links \cap Touching(req[p].row) \subseteq cut[p]
  BY <1>1 DEF Drafts, Cutting, Cuts, Found
<1>. QED BY <1>2, <1>3, <1>4, <1>5, <1>6, <1>7, <1>8, <1>9

\* The tables after a commit.
LEMMA CommitWrites ==
    ASSUME ControlInv, NEW p \in Requests, Commit(p)
    PROVE  /\ pc[p] = "commit" /\ End(p) /\ links' = (links \ (cut[p] \ fresh[p])) \cup put[p]
           /\ fresh' = [q \in Requests |-> IF q = p THEN {} ELSE
                 IF pc[q] \in Scanned THEN fresh[q] \cup (put[p] \cap Scope(req[q])) ELSE fresh[q]]
           /\ state' \in [Rows -> {"never", "present", "gone"}]
           /\ \A x \in Rows : x # req[p].row => state'[x] = state[x]
           /\ req[p].op = "create" => state'[req[p].row] = "present"
           /\ req[p].op = "update" => state' = state
           /\ req[p].op = "remove" => state'[req[p].row] = "gone"
<1>1. /\ pc[p] = "commit" /\ End(p) /\ links' = (links \ (cut[p] \ fresh[p])) \cup put[p]
      /\ fresh' = [q \in Requests |-> IF q = p THEN {} ELSE
            IF pc[q] \in Scanned THEN fresh[q] \cup (put[p] \cap Scope(req[q])) ELSE fresh[q]]
      /\ state' = CASE req[p].op = "create" -> [state EXCEPT ![req[p].row] = "present"]
                    [] req[p].op = "remove" -> [state EXCEPT ![req[p].row] = "gone"]
                    [] OTHER -> state
  BY DEF Commit
<1>2. req[p].op \in {"create", "update", "remove"} /\ req[p].row \in Rows
      /\ state \in [Rows -> {"never", "present", "gone"}]
  BY <1>1, AtCommit, InvByRequest DEF CTypeOK
<1>3. CASE req[p].op = "create"
  BY <1>1, <1>2, <1>3
<1>4. CASE req[p].op = "update"
  BY <1>1, <1>2, <1>4
<1>5. CASE req[p].op = "remove"
  BY <1>1, <1>2, <1>5
<1>. QED BY <1>1, <1>2, <1>3, <1>4, <1>5

LEMMA CommitKeepsLinks ==
    ASSUME ControlInv, NEW p \in Requests, Commit(p)
    PROVE  NoDanglingLinks'
<1>. SUFFICES ASSUME NEW l \in links' PROVE state'[l[2]] = "present" /\ Writable(l[1])'
  BY DEF NoDanglingLinks
<1>. DEFINE o == req[p].row
<1>1. /\ links' = (links \ (cut[p] \ fresh[p])) \cup put[p] /\ pc[p] = "commit"
      /\ req[p].op \in {"create", "update", "remove"} /\ o \in Rows
  BY CommitWrites, AtCommit
<1>2. CASE l \in put[p]
  <2>1. l \in Links /\ l[1] = o /\ req[p].op # "remove" /\ state[l[2]] = "present"
    BY <1>1, <1>2, AtCommit
  <2>2. CASE req[p].op = "create"
    <3>1. state'[o] = "present" /\ l[2] \in Rows
      BY <1>1, <2>1, <2>2, LinkParts, CommitWrites
    <3>2. state'[l[2]] = "present"
      BY <1>1, <2>1, <2>2, <3>1, CommitWrites
    <3>. QED BY <2>1, <3>1, <3>2 DEF Writable
  <2>3. CASE req[p].op = "update"
    <3>1. state' = state /\ Writable(o)
      BY <1>1, <1>2, <2>3, CommitWrites, AtCommit
    <3>. QED BY <2>1, <3>1 DEF Writable
  <2>. QED BY <1>1, <2>1, <2>2, <2>3
<1>3. CASE l \in links \ (cut[p] \ fresh[p])
  <2>1. l \in Links /\ state[l[2]] = "present" /\ Writable(l[1])
    BY <1>3, InvByRequest DEF CTypeOK, NoDanglingLinks
  <2>2. l[1] \in Owners /\ l[1] \in Rows /\ l[2] \in Rows /\ l[2] \notin Users
    BY <2>1, LinkParts, Kinds
  <2>3. CASE req[p].op \in {"create", "update"}
    BY <1>1, <2>1, <2>2, <2>3, CommitWrites, AtCommit DEF Writable
  <2>4. CASE req[p].op = "remove" /\ o \in Users
    <3>1. state'[l[2]] = "present" /\ (l[1] # o => state'[l[1]] = state[l[1]]) /\ state'[o] = "gone"
      BY <2>1, <2>2, <2>4, CommitWrites
    <3>. QED BY <2>1, <2>4, <3>1 DEF Writable
  <2>5. CASE req[p].op = "remove" /\ o \notin Users
    <3>1. l \notin Touching(o)
      BY <1>1, <1>3, <2>5, AtCommit
    <3>2. l[1] # o /\ l[2] # o
      BY <2>1, <3>1 DEF Touching
    <3>. QED BY <2>1, <2>2, <3>2, CommitWrites DEF Writable
  <2>. QED BY <1>1, <2>3, <2>4, <2>5
<1>. QED BY <1>1, <1>2, <1>3

LEMMA CommitKeepsOthers ==
    ASSUME ControlInv, NEW p \in Requests, Commit(p), NEW q \in Requests \ {p}
    PROVE  Shape(q)' /\ Drafts(q)' /\ Owning(q)' /\ Cutting(q)' /\ CreatesAloneAt(q)'
<1>. DEFINE o == req[p].row
            r == req[q]
<1>1. CTypeOK /\ Shape(q) /\ Drafts(q) /\ Owning(q) /\ Cutting(q) /\ CreatesAloneAt(q) /\ CreatesAloneAt(p)
  BY InvByRequest DEF Sound
<1>2. /\ locks' = {k \in locks : k[1] # p} /\ req'[p] = Blank
      /\ pc'[q] = pc[q] /\ req'[q] = req[q] /\ put'[q] = put[q] /\ cut'[q] = cut[q]
      /\ \A s \in Requests \ {p} : req'[s] = req[s]
      /\ fresh'[q] = IF pc[q] \in Scanned THEN fresh[q] \cup (put[p] \cap Scope(r)) ELSE fresh[q]
  <2>1. fresh'[q] = IF pc[q] \in Scanned THEN fresh[q] \cup (put[p] \cap Scope(r)) ELSE fresh[q]
    BY DEF Commit
  <2>. QED BY <1>1, <2>1, CommitWrites, EndFacts
<1>3. /\ links' = (links \ (cut[p] \ fresh[p])) \cup put[p] /\ pc[p] = "commit"
      /\ req[p].op \in {"create", "update", "remove"} /\ o \in Rows
      /\ \A x \in Rows : x # o => state'[x] = state[x]
      /\ req[p].op = "create" => state[o] = "never"
      /\ req[p].op # "update" => state'[o] # "never"
      /\ req[p].op = "update" => state' = state
  BY CommitWrites, AtCommit
<1>4. Modes = {"share", "nokey", "full"}
  BY DEF Modes
<1>5. r.op \in {"create", "update", "remove"} => r.row \in Rows /\ r.row # None
  BY <1>1, Kinds DEF Shape, Writes
<1>6. CreatesAloneAt(q)'
  <2>1. r.op = "create" => state'[r.row] = "never" /\ o # r.row
    BY <1>1, <1>3, <1>5 DEF CreatesAloneAt
  <2>. QED BY <1>1, <1>2, <1>5, <2>1 DEF CreatesAloneAt, Blank
<1>7. Shape(q)'
  <2>1. r.op \in {"update", "remove"} => state'[r.row] # "never"
    BY <1>1, <1>3, <1>5 DEF Shape
  <2>2. ASSUME pc[q] = "commit", r.op = "update", r.named PROVE state'[r.row] = "present"
    <3>1. state[r.row] = "present" /\ Holds(q, r.row, {"nokey", "full"}) /\ r.row \in Rows
      BY <2>2, AtCommit
    <3>2. CASE req[p].op = "remove" /\ o = r.row
      <4>1. Holds(p, o, {"nokey"}) \/ Holds(p, o, {"full"})
        BY <1>3, <3>2, AtCommit
      <4>. QED BY <1>4, <3>1, <3>2, <4>1, HoldersExclude DEF Conflict
    <3>3. CASE req[p].op # "remove" \/ o # r.row
      BY <1>3, <3>1, <3>3
    <3>. QED BY <3>2, <3>3
  <2>. QED BY <1>1, <1>2, <2>1, <2>2 DEF Shape, Writes
<1>8. Owning(q)'
  <2>1. \A x, modes : Holds(q, x, modes) => Holds(q, x, modes)'
    BY <1>2 DEF Holds
  <2>2. r.op = "create" => state'[r.row] = "never"
    BY <1>1, <1>3, <1>5 DEF CreatesAloneAt
  <2>. QED BY <1>1, <1>2, <2>1, <2>2 DEF Owning
<1>9. ASSUME Cuts(r), r.op = "remove", pc[q] \in Scanned, NEW l \in put[p], l \in Touching(r.row)
      PROVE  FALSE
  <2>1. l \in Links /\ l[1] = o /\ req[p].op # "remove" /\ Holds(p, l[2], {"share"})
    BY <1>3, AtCommit
  <2>2. r.row \notin Users /\ Holds(q, r.row, {"full"})
    BY <1>1, <1>9 DEF Cuts, Replaces, Owning
  <2>3. CASE l[1] = r.row
    <3>1. req[p].op # "create"
      BY <1>1, <2>1, <2>3 DEF CreatesAloneAt
    <3>2. Holds(p, o, Modes)
      BY <1>3, <1>9, <2>1, <3>1, AtCommit
    <3>. QED BY <1>4, <2>1, <2>2, <2>3, <3>2, HoldersExclude DEF Conflict
  <2>4. CASE l[2] = r.row
    BY <1>4, <2>1, <2>2, <2>4, HoldersExclude DEF Conflict
  <2>. QED BY <1>9, <2>3, <2>4 DEF Touching
<1>10. Drafts(q)'
  <2>1. fresh'[q] \subseteq Scope(r)
    BY <1>1, <1>2 DEF Drafts
  <2>2. pc[q] \notin Scanned => fresh'[q] = fresh[q]
    BY <1>2
  <2>3. ASSUME r.op = "remove", Cuts(r) PROVE fresh'[q] = {}
    <3>1. fresh[q] = {} /\ Scope(r) = Touching(r.row)
      BY <1>1, <2>3 DEF Drafts, Scope
    <3>. QED BY <1>2, <1>9, <2>3, <3>1
  <2>4. Scope(r)' = Scope(r) /\ (Cuts(r)' <=> Cuts(r)) /\ (Replaces(r)' <=> Replaces(r))
    BY <1>2 DEF Scope, Touching, Cuts, Replaces
  <2>. QED BY <1>1, <1>2, <2>1, <2>2, <2>3, <2>4 DEF Drafts
<1>11. Cutting(q)'
  <2>1. ASSUME Cuts(r), pc[q] \in {"cut", "put", "owner", "check", "reload", "commit"}
        PROVE  Found(r)' \subseteq Found(r) \cup fresh'[q] /\ fresh[q] \subseteq fresh'[q]
    <3>1. fresh'[q] = fresh[q] \cup (put[p] \cap Scope(r)) /\ put[p] \subseteq Links
      BY <1>1, <1>2, <2>1 DEF Scanned, CTypeOK
    <3>2. ASSUME NEW l \in links', IF r.op = "remove" THEN l \in Touching(r.row) ELSE l[1] = r.row
          PROVE  l \in links \/ l \in fresh'[q]
      <4>1. l \in put[p] => l \in Scope(r)
        BY <3>1, <3>2 DEF Scope
      <4>. QED BY <1>3, <3>1, <4>1
    <3>. QED BY <1>2, <3>1, <3>2 DEF Found
  <2>2. pc[q] = "cut" => Cuts(r)
    BY <1>1 DEF Shape
  <2>3. Cuts(r)' <=> Cuts(r)
    BY <1>2 DEF Cuts, Replaces
  <2>. QED BY <1>1, <1>2, <2>1, <2>2, <2>3 DEF Cutting
<1>. QED BY <1>6, <1>7, <1>8, <1>10, <1>11

LEMMA CommitKeeps ==
    ASSUME ControlInv, NEW p \in Requests, Commit(p)
    PROVE  ControlInv'
<1>1. CTypeOK /\ End(p)
  BY InvByRequest, CommitWrites
<1>2. CTypeOK' /\ fresh'[p] = {}
  <2>1. links' \subseteq Links /\ fresh' \in [Requests -> SUBSET Links] /\ fresh'[p] = {}
    BY <1>1, CommitWrites DEF CTypeOK
  <2>. QED BY <1>1, <2>1, CommitWrites, EndFacts DEF CTypeOK
<1>3. ASSUME NEW k \in locks, k[1] # p PROVE Meaning(k)'
  <2>. DEFINE q == k[1]
              x == k[2]
  <2>1. k = <<q, x, k[3]>> /\ q \in Requests \ {p} /\ x \in Rows /\ k[3] \in Modes
    BY <1>1, <1>3 DEF CTypeOK
  <2>2. Meaning(k)
    BY InvByRequest
  <2>3. pc'[q] = pc[q] /\ req'[q] = req[q]
    BY <1>1, <2>1, EndFacts
  <2>4. /\ \A y \in Rows : y # req[p].row => state'[y] = state[y]
        /\ req[p].op \in {"create", "update", "remove"} /\ pc[p] = "commit"
        /\ req[p].op = "create" => state'[req[p].row] = "present"
        /\ req[p].op = "update" => state' = state
        /\ req[p].op = "remove" => state'[req[p].row] = "gone"
    BY CommitWrites, AtCommit
  <2>5. ASSUME req[p].op = "remove", x = req[p].row, x \notin Users PROVE FALSE
    <3>1. Holds(p, x, {"full"}) /\ Holds(q, x, Modes)
      BY <2>1, <2>4, <2>5, AtCommit DEF Holds
    <3>. QED BY <2>1, <3>1, HoldersExclude DEF Conflict, Modes
  <2>6. CASE x = req[q].row
    <3>1. Writable(x)
      BY <2>2, <2>6 DEF Meaning
    <3>2. Writable(x)'
      BY <2>1, <2>4, <2>5, <3>1 DEF Writable
    <3>. QED BY <2>2, <2>3, <2>6, <3>2 DEF Meaning, Writable
  <2>7. CASE x # req[q].row
    <3>1. Writes(req[q]) /\ x \in Members(req[q].row) /\ state[x] = "present" /\ x \notin Users
      BY <2>1, <2>2, <2>7, Kinds, InvByRequest DEF Meaning, Sound, Shape
    <3>2. state'[x] = "present"
      BY <2>1, <2>4, <2>5, <3>1
    <3>. QED BY <2>2, <2>3, <2>7, <3>1, <3>2 DEF Meaning
  <2>. QED BY <2>6, <2>7
<1>. QED BY <1>1, <1>2, <1>3, CommitKeepsLinks, CommitKeepsOthers, EndKeeps

-----------------------------------------------------------------------------
(* The invariant.                                                          *)

LEMMA CreateAttributeKeeps ==
    ASSUME ControlInv, NEW a \in Attributes, CreateAttribute(a)
    PROVE  ControlInv'
<1>1. /\ CTypeOK /\ LocksExclude /\ NoDanglingLinks
      /\ \A p \in Requests : Sound(p) /\ CreatesAloneAt(p)
      /\ \A k \in locks : Meaning(k)
  BY InvByRequest
<1>2. /\ UNCHANGED <<links, locks, put, cut, fresh, pc, req>> /\ state[a] = "never"
      /\ state' = [state EXCEPT ![a] = "present"]
  BY DEF CreateAttribute
<1>3. /\ a \in Rows /\ a \notin Owners
      /\ \A x \in Rows : state'[x] = state[x] \/ x = a
      /\ state'[a] = "present" /\ state' \in [Rows -> {"never", "present", "gone"}]
  BY <1>1, <1>2, Kinds DEF CTypeOK
<1>4. CTypeOK' /\ LocksExclude'
  BY <1>1, <1>2, <1>3 DEF CTypeOK, LocksExclude
<1>5. NoDanglingLinks'
  <2>1. ASSUME NEW l \in links PROVE state'[l[2]] = "present" /\ Writable(l[1])'
    <3>1. l \in Links /\ state[l[2]] = "present" /\ Writable(l[1])
      BY <1>1 DEF CTypeOK, NoDanglingLinks
    <3>. QED BY <1>3, <3>1, LinkParts, Kinds DEF Writable
  <2>. QED BY <1>2, <2>1 DEF NoDanglingLinks
<1>6. ASSUME NEW p \in Requests PROVE Sound(p)' /\ CreatesAloneAt(p)'
  <2>1. Shape(p) /\ Drafts(p) /\ Owning(p) /\ Cutting(p) /\ Checked(p) /\ CreatesAloneAt(p)
    BY <1>1 DEF Sound
  <2>2. req[p].op \in {"create", "update", "remove"} => req[p].row \in Rows
    BY <2>1, Kinds DEF Shape, Writes
  <2>3. req[p].op = "create" => req[p].row # a
    BY <1>3, <2>1 DEF Shape, Writes
  <2>4. Shape(p)'
    BY <1>2, <1>3, <2>1, <2>2 DEF Shape, Writes
  <2>5. \A x, modes : Holds(p, x, modes)' <=> Holds(p, x, modes)
    BY <1>2 DEF Holds
  <2>6. Drafts(p)' /\ Cutting(p)'
    BY <1>2, <2>1 DEF Drafts, Cutting, Found
  <2>7. Checked(p)'
    BY <1>2, <2>1, <2>5 DEF Checked
  <2>8. Owning(p)' /\ CreatesAloneAt(p)'
    BY <1>2, <1>3, <2>1, <2>2, <2>3, <2>5 DEF Owning, CreatesAloneAt
  <2>. QED BY <2>4, <2>6, <2>7, <2>8 DEF Sound
<1>7. ASSUME NEW k \in locks PROVE Meaning(k)'
  <2>1. Meaning(k) /\ k[2] \in Rows
    BY <1>1 DEF CTypeOK
  <2>. QED BY <1>2, <1>3, <2>1 DEF Meaning, Writable
<1>. QED BY <1>2, <1>4, <1>5, <1>6, <1>7, InvByRequestNext

LEMMA StepKeeps ==
    ASSUME ControlInv, [Next]_vars
    PROVE  ControlInv'
<1>1. ASSUME NEW p \in Requests, Create(p) \/ ReceiveUpdate(p) \/ ReceiveRemove(p)
      PROVE  ControlInv'
  BY <1>1, CreateKeeps, ReceiveUpdateKeeps, ReceiveRemoveKeeps
<1>2. ASSUME NEW p \in Requests, Step(p)
      PROVE  ControlInv'
  <2>1. CASE UpdateRow(p) \/ ReadRow(p) \/ DeleteRow(p)
    BY <2>1, UpdateRowKeeps, ReadRowKeeps, DeleteRowKeeps
  <2>2. CASE Scan(p) \/ CutLink(p) \/ PutLink(p) \/ CheckOwner(p) \/ CheckLink(p) \/ Reload(p)
    BY <2>2, ScanKeeps, CutLinkKeeps, PutLinkKeeps, CheckOwnerKeeps, CheckLinkKeeps, ReloadKeeps
  <2>3. CASE Commit(p)
    BY <2>3, CommitKeeps
  <2>4. CASE Rollback(p)
    BY <2>4, AbortKeeps DEF Rollback
  <2>. QED BY <1>2, <2>1, <2>2, <2>3, <2>4 DEF Step
<1>3. ASSUME NEW p \in Requests, Fail(p)
      PROVE  ControlInv'
  BY <1>3, AbortKeeps DEF Fail
<1>4. ASSUME NEW a \in Attributes, CreateAttribute(a)
      PROVE  ControlInv'
  BY <1>4, CreateAttributeKeeps
<1>5. CASE UNCHANGED vars
  <2>1. UNCHANGED <<state, links, locks, put, cut, fresh, pc, req>>
    BY <1>5 DEF vars
  <2>2. /\ CTypeOK /\ LocksExclude /\ NoDanglingLinks
        /\ \A p \in Requests : Sound(p) /\ CreatesAloneAt(p)
        /\ \A k \in locks : Meaning(k)
    BY InvByRequest
  <2>3. CTypeOK' /\ LocksExclude' /\ NoDanglingLinks'
    BY <2>1, <2>2 DEF CTypeOK, LocksExclude, NoDanglingLinks, Writable
  <2>4. ASSUME NEW p \in Requests PROVE Sound(p)' /\ CreatesAloneAt(p)'
    <3>1. Shape(p) /\ Drafts(p) /\ Owning(p) /\ Cutting(p) /\ Checked(p) /\ CreatesAloneAt(p)
      BY <2>2 DEF Sound
    <3>2. Shape(p)' /\ Drafts(p)' /\ Cutting(p)' /\ CreatesAloneAt(p)'
      BY <2>1, <3>1 DEF Shape, Drafts, Cutting, Found, CreatesAloneAt
    <3>3. Owning(p)' /\ Checked(p)'
      BY <2>1, <3>1 DEF Owning, Checked, Holds
    <3>. QED BY <3>2, <3>3 DEF Sound
  <2>5. \A k \in locks' : Meaning(k)'
    BY <2>1, <2>2 DEF Meaning, Writable
  <2>. QED BY <2>3, <2>4, <2>5, InvByRequestNext
<1>. QED BY <1>1, <1>2, <1>3, <1>4, <1>5 DEF Next

LEMMA InitKeeps ==
    ASSUME Init
    PROVE  ControlInv
<1>1. /\ locks = {} /\ links \in SUBSET {l \in Links : l[1] \in Present /\ l[2] \in Present}
      /\ state \in [Rows -> {"never", "present"}]
      /\ \A p \in Requests : put[p] = {} /\ cut[p] = {} /\ fresh[p] = {} /\ pc[p] = "idle" /\ req[p] = Blank
  BY DEF Init
<1>2. Blank \in Request
  BY DEF Blank, Request, Ops, Lists
<1>3. CTypeOK
  BY <1>2 DEF Init, CTypeOK, Labels, Scanned
<1>4. LocksExclude /\ NoDanglingLinks
  BY <1>1 DEF LocksExclude, NoDanglingLinks, Present, Writable
<1>5. ASSUME NEW p \in Requests PROVE Sound(p) /\ CreatesAloneAt(p)
  <2>1. Shape(p) /\ CreatesAloneAt(p)
    BY <1>1 DEF Shape, CreatesAloneAt, Blank, Writes
  <2>2. Drafts(p) /\ Owning(p) /\ Cutting(p) /\ Checked(p)
    BY <1>1 DEF Drafts, Owning, Cutting, Checked, Blank, Scanned, Cuts, Replaces
  <2>. QED BY <2>1, <2>2 DEF Sound
<1>. QED BY <1>1, <1>3, <1>4, <1>5, InvByRequest

(***************************************************************************)
(* In every reachable state: locks exclude each other, a transaction in    *)
(* its middle has written and cut exactly what its statements say, and no  *)
(* committed link dangles.  Concerns the transactions of UsersService,     *)
(* RolesService and PermissionsService on the row locks of PostgreSQL.     *)
(***************************************************************************)
THEOREM ControlInvariant == Spec => []ControlInv
<1>1. Init => ControlInv
  BY InitKeeps
<1>2. ControlInv /\ [Next]_vars => ControlInv'
  BY StepKeeps
<1>. QED BY <1>1, <1>2, PTL DEF Spec

-----------------------------------------------------------------------------
(* What a commit does to the committed links.                              *)

LEMMA CommittedLinks ==
    ASSUME ControlInv, NEW p \in Requests, Commit(p)
    PROVE  LET r == req[p] IN
           /\ r.op = "create" => /\ links' = links \cup NewLinks(r.row, r.list)
                                 /\ \A l \in links : l[1] # r.row
           /\ Replaces(r) =>
                 /\ {l \in links' : l[1] # r.row} = {l \in links : l[1] # r.row}
                 /\ NewLinks(r.row, r.list) \subseteq links'
                 /\ {l \in links' : l[1] = r.row} \subseteq NewLinks(r.row, r.list) \cup fresh[p]
                 /\ Writable(r.row) \/ links' = links
           /\ r.op = "update" /\ ~Replaces(r) => links' = links
           /\ r.op = "remove" /\ r.row \in Users => links' = links
           /\ r.op = "remove" /\ r.row \notin Users =>
                 links' = links \ Touching(r.row) /\ state[r.row] = "present"
<1>. DEFINE r == req[p]
<1>1. CTypeOK /\ Shape(p) /\ Drafts(p) /\ Cutting(p) /\ NoDanglingLinks
  BY InvByRequest DEF Sound
<1>2. links' = (links \ (cut[p] \ fresh[p])) \cup put[p] /\ pc[p] = "commit"
  BY CommitWrites
<1>3. ASSUME r.op = "create"
      PROVE  links' = links \cup NewLinks(r.row, r.list) /\ \A l \in links : l[1] # r.row
  <2>1. put[p] = NewLinks(r.row, r.list) /\ cut[p] = {}
    BY <1>1, <1>2, <1>3 DEF Drafts, Cuts, Replaces
  <2>2. state[r.row] = "never"
    BY <1>2, <1>3, AtCommit
  <2>. QED BY <1>1, <1>2, <2>1, <2>2 DEF NoDanglingLinks, Writable
<1>4. ASSUME Replaces(r)
      PROVE  /\ {l \in links' : l[1] # r.row} = {l \in links : l[1] # r.row}
             /\ NewLinks(r.row, r.list) \subseteq links'
             /\ {l \in links' : l[1] = r.row} \subseteq NewLinks(r.row, r.list) \cup fresh[p]
             /\ Writable(r.row) \/ links' = links
  <2>1. /\ put[p] = NewLinks(r.row, r.list) /\ {l \in links : l[1] = r.row} \subseteq cut[p] \cup fresh[p]
        /\ r.op = "update"
    BY <1>1, <1>2, <1>4 DEF Drafts, Cutting, Cuts, Found, Replaces
  <2>2. cut[p] \subseteq {l \in Links : l[1] = r.row} /\ put[p] \subseteq {l \in Links : l[1] = r.row}
    BY <1>1, <1>4 DEF Drafts, Scope, Replaces
  <2>3. ASSUME ~Writable(r.row) PROVE links' = links
    <3>1. put[p] = {}
      BY <1>2, <2>1, <2>3, AtCommit
    <3>2. \A l \in links : l[1] # r.row
      BY <1>1, <2>3 DEF NoDanglingLinks
    <3>. QED BY <1>2, <2>2, <3>1, <3>2
  <2>. QED BY <1>2, <2>1, <2>2, <2>3
<1>5. ASSUME ~Cuts(r), r.op \in {"update", "remove"} PROVE links' = links
  <2>1. put[p] = {} /\ cut[p] = {}
    BY <1>1, <1>5 DEF Drafts, Cuts
  <2>. QED BY <1>2, <2>1
<1>6. ASSUME r.op = "remove", r.row \notin Users
      PROVE  links' = links \ Touching(r.row) /\ state[r.row] = "present"
  <2>1. /\ put[p] = {} /\ links \cap Touching(r.row) \subseteq cut[p] /\ cut[p] \subseteq Touching(r.row)
        /\ fresh[p] = {}
    BY <1>1, <1>2, <1>6, AtCommit DEF Drafts, Scope, Replaces
  <2>2. <<p, r.row, "full">> \in locks
    BY <1>2, <1>6, AtCommit DEF Holds
  <2>3. Meaning(<<p, r.row, "full">>)
    BY <2>2, InvByRequest
  <2>. QED BY <1>2, <1>6, <2>1, <2>3 DEF Meaning, Writable
<1>. QED BY <1>3, <1>4, <1>5, <1>6 DEF Cuts, Replaces

(***************************************************************************)
(* What a create or an update leaves when it commits: the links it was     *)
(* asked for, and no others but those that other updates have committed    *)
(* since its deleteMany.  Concerns the deleteMany and createMany of        *)
(* UsersService, RolesService and PermissionsService against any           *)
(* concurrent updates and deletions.                                       *)
(***************************************************************************)
THEOREM AsAsked == Spec => CommittedAsAsked
<1>. DEFINE Left(r) == {l \in links' : l[1] = r.row}
<1>1. ASSUME ControlInv, [Next]_vars, NEW p \in Requests,
             req[p].op \in {"create", "update"}, Commit(p)
      PROVE  Asked(req[p]) \subseteq Left(req[p]) /\ Left(req[p]) \subseteq Asked(req[p]) \cup fresh[p]
  <2>. DEFINE r == req[p]
              new == NewLinks(r.row, r.list)
  <2>1. \A l \in new : l[1] = r.row
    BY <1>1, RequestLinks DEF Writes
  <2>2. CASE r.op = "create"
    <3>1. links' = links \cup new /\ \A l \in links : l[1] # r.row
      BY <1>1, <2>2, CommittedLinks
    <3>. QED BY <2>1, <2>2, <3>1 DEF Asked
  <2>3. CASE Replaces(r)
    <3>1. new \subseteq links' /\ {l \in links' : l[1] = r.row} \subseteq new \cup fresh[p]
      BY <1>1, <2>3, CommittedLinks
    <3>2. Asked(r) = new
      BY <2>3 DEF Asked, Replaces
    <3>. QED BY <2>1, <3>1, <3>2
  <2>4. CASE r.op = "update" /\ ~Replaces(r)
    <3>1. links' = links
      BY <1>1, <2>4, CommittedLinks
    <3>. QED BY <2>4, <3>1 DEF Asked, Replaces, LinksOf
  <2>. QED BY <1>1, <2>2, <2>3, <2>4
<1>2. ControlInv /\ [Next]_vars =>
        [\A p \in Requests : req[p].op \in {"create", "update"} /\ Commit(p) =>
            LET now == {l \in links' : l[1] = req[p].row} IN
            Asked(req[p]) \subseteq now /\ now \subseteq Asked(req[p]) \cup fresh[p]]_vars
  BY <1>1
<1>. QED BY <1>2, ControlInvariant, PTL DEF Spec, CommittedAsAsked

-----------------------------------------------------------------------------
(* Nobody waits in a circle.                                               *)

\* Whom a request that updates or creates waits for among those like it.
LEMMA WaitEdges ==
    ASSUME ControlInv, NEW p \in Requests, NEW q \in Requests,
           WritesRow(req[p]), WritesRow(req[q]), q \in WaitsFor(p),
           pc[q] \in {"update", "cut", "put", "owner", "check"}
    PROVE  pc[q] # "update" /\ (pc[p] # "update" => req[q].row \in Members(req[p].row))
<1>0. Writes(req[p]) /\ Writes(req[q])
  BY DEF Writes, WritesRow
<1>1. /\ CTypeOK /\ Shape(p) /\ Drafts(p) /\ Owning(p) /\ CreatesAloneAt(p)
      /\ Shape(q) /\ Drafts(q) /\ Owning(q) /\ CreatesAloneAt(q)
  BY InvByRequest DEF Sound
<1>2. ASSUME NEW x \in Rows, NEW m \in Modes, q \in Holders(x, m), m # "nokey"
      PROVE  /\ pc[q] # "update"
             /\ m = "share" => x = req[q].row
  <2>1. PICK n \in Modes : <<q, x, n>> \in locks /\ Conflict(m, n)
    BY <1>2 DEF Holders
  <2>2. Meaning(<<q, x, n>>)
    BY <2>1, InvByRequest
  <2>3. m = "share" => n # "share"
    BY <2>1 DEF Conflict
  <2>. QED BY <2>2, <2>3 DEF Meaning
<1>3. ASSUME NEW l \in Links, l \in put[q] \cup cut[q], l[1] = req[p].row, q # p,
             pc[p] \in {"cut", "put"}
      PROVE  FALSE
  <2>1. l[1] = req[q].row /\ pc[q] # "update"
    BY <1>0, <1>1, <1>3, ScopeOfUpdate DEF Drafts
  <2>2. req[p].op = "update" /\ req[q].op = "update"
    BY <1>0, <1>1, <1>3, <2>1 DEF CreatesAloneAt, Writes
  <2>3. Holds(p, l[1], {"nokey", "full"}) /\ Holds(q, l[1], {"nokey", "full"})
    <3>1. req[p].named /\ req[q].named
      BY <2>2 DEF WritesRow
    <3>2. put[q] # {} \/ cut[q] # {}
      BY <1>3
    <3>3. pc[p] \in Scanned /\ pc[q] \in Scanned
      BY <1>1, <1>3, <3>2 DEF Drafts, Scanned
    <3>. QED BY <1>1, <2>1, <2>2, <1>3, <3>1, <3>3 DEF Owning
  <2>. QED BY <1>3, <2>3, HoldersExclude DEF Conflict, Modes
<1>4. req[p].row \in Rows /\ p # q
  BY <1>0, <1>1, Kinds DEF Shape, WaitsFor
<1>5. CASE pc[p] = "update"
  BY <1>2, <1>4, <1>5 DEF WaitsFor, Modes
<1>6. CASE pc[p] = "cut"
  <2>1. PICK l \in req[p].todo : l \in cut[q]
    BY <1>6 DEF WaitsFor, Deleters
  <2>2. l \in Links /\ l[1] = req[p].row
    BY <1>0, <1>1, <1>6, <2>1, ScopeOfUpdate DEF Drafts
  <2>. QED BY <1>3, <1>4, <1>6, <2>1, <2>2
<1>7. CASE pc[p] = "put"
  <2>1. PICK l \in req[p].todo : l \in put[q] \cup cut[q]
    BY <1>7 DEF WaitsFor, Writers
  <2>2. l \in Links /\ l[1] = req[p].row
    BY <1>0, <1>1, <1>7, <2>1, RequestLinks DEF Drafts
  <2>. QED BY <1>3, <1>4, <1>7, <2>1, <2>2
<1>8. CASE pc[p] = "check"
  <2>1. PICK l \in req[p].todo : q \in Holders(l[2], "share")
    BY <1>8 DEF WaitsFor
  <2>2. l \in Links /\ l[1] = req[p].row
    BY <1>1, <1>8, <2>1 DEF Drafts
  <2>3. l[2] \in Members(req[p].row) /\ l[2] \in Rows
    BY <2>2, LinkParts
  <2>. QED BY <1>2, <1>8, <2>1, <2>3 DEF Modes
<1>9. pc[p] # "delete"
  BY <1>0, <1>1 DEF Shape, Writes
<1>10. CASE pc[p] = "owner"
  <2>1. req[p].op = "update" /\ req[p].named
    BY <1>1, <1>10 DEF Shape, Replaces, WritesRow
  <2>2. Holds(p, req[p].row, {"nokey", "full"})
    BY <1>1, <1>10, <2>1 DEF Owning, Scanned
  <2>3. PICK n \in Modes : <<q, req[p].row, n>> \in locks /\ Conflict("share", n)
    BY <1>10 DEF WaitsFor, Holders
  <2>4. n = "full" /\ Holds(q, req[p].row, {"full"})
    BY <2>3 DEF Conflict, Holds
  <2>. QED BY <1>4, <2>2, <2>4, HoldersExclude DEF Conflict, Modes
<1>. QED BY <1>5, <1>6, <1>7, <1>8, <1>9, <1>10 DEF WaitsFor

(***************************************************************************)
(* Of any requests that create or write the row they update, one waits for *)
(* none of the others: a request past its owner's row waits only for rows  *)
(* further down from users over roles to permissions, and nobody waits for *)
(* one that is still at its owner's row.  Concerns the order of statements *)
(* in the transactions of UsersService, RolesService and                   *)
(* PermissionsService.                                                     *)
(***************************************************************************)
THEOREM NoCircle == Spec => []UpdatesDoNotDeadlock
<1>1. ASSUME ControlInv, NEW S \in SUBSET {p \in Requests : WritesRow(req[p])},
             S # {}, \A p \in S : WaitsFor(p) \cap S # {}
      PROVE  FALSE
  <2>1. \A p \in S : p \in Requests /\ WritesRow(req[p]) /\ Writes(req[p])
    BY DEF Writes, WritesRow
  <2>2. ASSUME NEW p \in S PROVE pc[p] \in {"update", "cut", "put", "owner", "check"}
    <3>1. pc[p] # "delete"
      BY <1>1, <2>1, InvByRequest DEF Sound, Shape, Writes
    <3>. QED BY <1>1, <3>1 DEF WaitsFor
  <2>. DEFINE T == {p \in S : pc[p] # "update"}
  <2>3. ASSUME NEW p \in S PROVE WaitsFor(p) \cap T # {}
    <3>1. PICK q \in S : q \in WaitsFor(p)
      BY <1>1
    <3>. QED BY <1>1, <2>1, <2>2, <3>1, WaitEdges
  <2>4. ASSUME NEW p \in T PROVE \E q \in T : req[q].row \in Members(req[p].row)
    <3>1. PICK q \in T : q \in WaitsFor(p)
      BY <2>3
    <3>. QED BY <1>1, <2>1, <2>2, <3>1, WaitEdges
  <2>5. \A p \in T : req[p].row \in Owners
    BY <1>1, <2>1, InvByRequest DEF Sound, Shape
  <2>6. \A p \in T : req[p].row \notin Permissions
    <3>1. \A o \in Permissions : Members(o) = Attributes
      BY KindsAssumption DEF Members
    <3>. QED BY <2>4, <2>5, <3>1, Kinds
  <2>7. \A p \in T : req[p].row \notin Roles
    <3>1. \A o \in Roles : Members(o) = Permissions
      BY KindsAssumption DEF Members
    <3>. QED BY <2>4, <2>6, <3>1
  <2>8. \A p \in T : req[p].row \notin Users
    <3>1. \A o \in Users : Members(o) = Roles
      BY DEF Members
    <3>. QED BY <2>4, <2>7, <3>1
  <2>9. T # {}
    BY <1>1, <2>3
  <2>. QED BY <2>5, <2>6, <2>7, <2>8, <2>9 DEF Owners
<1>2. ControlInv => UpdatesDoNotDeadlock
  BY <1>1 DEF UpdatesDoNotDeadlock
<1>. QED BY <1>2, ControlInvariant, PTL

-----------------------------------------------------------------------------
(* AccessControl implements AccessMap.                                     *)

LEMMA SameSets ==
    /\ Map!Owners = Owners /\ Map!Links = Links
    /\ \A o : Map!Members(o) = Members(o)
    /\ \A x : Map!Touching(x) = Touching(x)
<1>1. Map!Owners = Owners /\ \A o : Map!Members(o) = Members(o)
  BY DEF Map!Owners, Owners, Map!Members, Members
<1>2. Map!Links = Links
  BY <1>1 DEF Map!Links, Links
<1>. QED BY <1>1, <1>2 DEF Map!Touching, Touching

Removed == {x \in Rows : state[x] = "gone"}

\* A commit is a step of AccessMap, or changes nothing there.
LEMMA CommitMaps ==
    ASSUME ControlInv, NEW p \in Requests, Commit(p)
    PROVE  Map!Next \/ (Present' = Present /\ Removed' = Removed /\ links' = links)
<1>. DEFINE r == req[p]
            o == req[p].row
            new == NewLinks(req[p].row, req[p].list)
            S == {l[2] : l \in NewLinks(req[p].row, req[p].list)}
<1>1. /\ pc[p] = "commit" /\ r.op \in {"create", "update", "remove"} /\ o \in Rows
      /\ r.op # "remove" => o \in Owners
      /\ \A x \in Rows : x # o => state'[x] = state[x]
      /\ r.op = "create" => state[o] = "never" /\ state'[o] = "present"
      /\ r.op = "update" => state' = state
      /\ r.op = "remove" => state'[o] = "gone"
  BY CommitWrites, AtCommit
<1>2. CTypeOK /\ Shape(p) /\ Drafts(p)
  BY InvByRequest DEF Sound
<1>3. ASSUME r.op = "create"
      PROVE  S \in SUBSET (Map!Members(o) \cap Present) /\ new = {o} \X S
  <2>1. put[p] = new /\ Writes(r)
    BY <1>1, <1>2, <1>3 DEF Drafts, Writes, Replaces
  <2>2. \A l \in new : l \in Links /\ l[1] = o /\ state[l[2]] = "present"
    BY <1>1, <2>1, AtCommit
  <2>3. \A l \in new : l = <<o, l[2]>> /\ l[2] \in Members(o) /\ l[2] \in Rows
    BY <2>2, LinkParts
  <2>4. S \subseteq Members(o) \cap Present
    BY <2>2, <2>3 DEF Present
  <2>5. new \subseteq {o} \X S
    BY <2>3
  <2>6. ASSUME NEW x \in S PROVE <<o, x>> \in new
    BY <2>3
  <2>7. {o} \X S \subseteq new
    BY <2>6
  <2>. QED BY <2>4, <2>5, <2>7, SameSets
<1>4. CASE r.op = "create"
  <2>1. links' = links \cup ({o} \X S)
    BY <1>3, <1>4, CommittedLinks
  <2>2. Present' = Present \cup {o} /\ Removed' = Removed /\ o \notin Present \cup Removed
    BY <1>1, <1>4 DEF Present, Removed
  <2>3. Map!Create(o)
    BY <1>3, <1>4, <2>1, <2>2 DEF Map!Create, Removed
  <2>. QED BY <1>1, <1>4, <2>3, SameSets DEF Map!Next
<1>5. CASE Replaces(r)
  <2>. DEFINE T == {l[2] : l \in {k \in links' : k[1] = o}}
  <2>1. r.op = "update" /\ Present' = Present /\ Removed' = Removed
    BY <1>1, <1>5 DEF Replaces, Present, Removed
  <2>2. CASE ~Writable(o)
    BY <1>5, <2>1, <2>2, CommittedLinks
  <2>3. CASE Writable(o)
    <3>1. links' \subseteq Links /\ \A l \in links' : state'[l[2]] = "present"
      BY <1>2, CommitWrites, CommitKeeps, InvByRequest, CommitKeepsLinks DEF CTypeOK, NoDanglingLinks
    <3>2. \A l \in links' : l = <<l[1], l[2]>> /\ l[2] \in Members(l[1]) /\ l[2] \in Rows
      BY <3>1, LinkParts
    <3>3. T \in SUBSET (Map!Members(o) \cap Present)
      <4>1. ASSUME NEW x \in T PROVE x \in Members(o) /\ x \in Present
        <5>1. PICK l \in links' : l[1] = o /\ x = l[2]
          OBVIOUS
        <5>. QED BY <1>1, <2>1, <3>1, <3>2, <5>1 DEF Present
      <4>. QED BY <4>1, SameSets
    <3>4. links' = {l \in links : l[1] # o} \cup ({o} \X T)
      <4>1. {l \in links' : l[1] # o} = {l \in links : l[1] # o}
        BY <1>5, CommittedLinks
      <4>2. ASSUME NEW l \in links', l[1] = o PROVE l \in {o} \X T
        BY <3>2, <4>2
      <4>3. ASSUME NEW l \in {o} \X T PROVE l \in links'
        <5>1. PICK k \in links' : k[1] = o /\ l[2] = k[2]
          BY <4>3
        <5>. QED BY <3>2, <4>3, <5>1
      <4>. QED BY <4>1, <4>2, <4>3
    <3>5. o \in Present \/ (o \in Users /\ o \in Removed)
      BY <1>1, <2>3 DEF Writable, Present, Removed
    <3>6. Map!Replace(o)
      <4>. HIDE DEF T
      <4>. QED BY <2>1, <3>3, <3>4, <3>5 DEF Map!Replace, Removed
    <3>. QED BY <1>1, <2>1, <3>6, SameSets DEF Map!Next
  <2>. QED BY <2>2, <2>3
<1>6. CASE r.op = "update" /\ ~Replaces(r)
  BY <1>1, <1>6, CommittedLinks DEF Present, Removed
<1>7. CASE r.op = "remove" /\ state[o] = "gone"
  BY <1>1, <1>7, CommittedLinks DEF Present, Removed
<1>8. CASE r.op = "remove" /\ state[o] # "gone"
  <2>1. state[o] = "present"
    BY <1>1, <1>2, <1>8 DEF CTypeOK, Shape
  <2>2. Present' = Present \ {o} /\ Removed' = Removed \cup {o} /\ o \in Present
    BY <1>1, <1>8, <2>1 DEF Present, Removed
  <2>3. links' = IF o \in Users THEN links ELSE links \ Touching(o)
    BY <1>8, CommittedLinks
  <2>4. PICK x \in Owners \cup Attributes : x = o
    BY <1>1 DEF Rows
  <2>5. Map!Remove(x)
    BY <2>2, <2>3, <2>4, SameSets DEF Map!Remove, Removed
  <2>. QED BY <2>5, SameSets DEF Map!Next
<1>. QED BY <1>1, <1>4, <1>5, <1>6, <1>7, <1>8

(***************************************************************************)
(* AccessControl implements AccessMap: every commit creates an owner with  *)
(* its links, changes the links of one owner or removes a row with its     *)
(* links, all members present, and no other step changes what is           *)
(* committed, also while updates that have not locked their owner race     *)
(* with its deletion.  Concerns the transactions of UsersService,          *)
(* RolesService and PermissionsService and the foreign keys.               *)
(***************************************************************************)
THEOREM Implements == Spec => ChangesOneOwner
<1>1. Init => Map!Init
  <2>. SUFFICES ASSUME Init PROVE Map!Init
    OBVIOUS
  <2>1. /\ links \in SUBSET {l \in Links : l[1] \in Present /\ l[2] \in Present}
        /\ state \in [Rows -> {"never", "present"}]
    BY DEF Init
  <2>2. Present \in SUBSET (Owners \cup Attributes) /\ {x \in Rows : state[x] = "gone"} = {}
    BY <2>1 DEF Present, Rows
  <2>. QED BY <2>1, <2>2, SameSets DEF Map!Init
<1>2. ASSUME ControlInv, [Next]_vars PROVE [Map!Next]_(Map!vars)
  <2>. SUFFICES Map!Next \/ (Present' = Present /\ Removed' = Removed /\ links' = links)
    BY DEF Map!vars, Removed
  <2>1. ASSUME UNCHANGED <<state, links>>
        PROVE  Present' = Present /\ Removed' = Removed /\ links' = links
    BY <2>1 DEF Present, Removed
  <2>2. ASSUME NEW p \in Requests, Create(p) \/ ReceiveUpdate(p) \/ ReceiveRemove(p) \/ Fail(p)
        PROVE  UNCHANGED <<state, links>>
    BY <2>2 DEF Create, ReceiveUpdate, ReceiveRemove, Fail
  <2>3. ASSUME NEW p \in Requests, UpdateRow(p) \/ ReadRow(p) \/ DeleteRow(p) \/ Scan(p)
                 \/ CutLink(p) \/ PutLink(p) \/ CheckOwner(p) \/ CheckLink(p) \/ Reload(p) \/ Rollback(p)
        PROVE  UNCHANGED <<state, links>>
    BY <2>3 DEF UpdateRow, ReadRow, DeleteRow, Scan, CutLink, PutLink, CheckOwner, CheckLink, Reload, Rollback
  <2>4. ASSUME NEW a \in Attributes, CreateAttribute(a) PROVE Map!Next
    <3>1. state \in [Rows -> {"never", "present", "gone"}] /\ a \in Rows
      BY InvByRequest, Kinds, <1>2 DEF CTypeOK
    <3>2. Present' = Present \cup {a} /\ Removed' = Removed /\ a \notin Present \cup Removed
          /\ links' = links
      BY <2>4, <3>1 DEF CreateAttribute, Present, Removed
    <3>3. Map!CreateAttribute(a)
      BY <3>2 DEF Map!CreateAttribute, Removed
    <3>. QED BY <3>3 DEF Map!Next
  <2>5. CASE UNCHANGED vars
    BY <2>1, <2>5 DEF vars
  <2>. QED BY <1>2, <2>1, <2>2, <2>3, <2>4, <2>5, CommitMaps DEF Next, Step
<1>. QED BY <1>1, <1>2, ControlInvariant, PTL DEF Spec, ChangesOneOwner, Map!Spec
=============================================================================
