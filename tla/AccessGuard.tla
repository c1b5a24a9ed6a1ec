---------------------------- MODULE AccessGuard ----------------------------
(***************************************************************************)
(* Access tokens and the caches they are checked against: login signs the  *)
(* version of the account into a JWT, the guard compares it with the       *)
(* account cached under user:id-unique, and GET /auth/me then answers from *)
(* user:id-permissions.  Nothing invalidates either key; entries expire.   *)
(*                                                                         *)
(* What a read of a key finds in the database is a version number of that  *)
(* key: token_version for "unique", the state of the roles and permissions *)
(* of the user for "permissions".  Sessions models who changes the former. *)
(*                                                                         *)
(* Time is kept as ages and remaining lives that a tick moves, so that it  *)
(* never ends: no run stops the clock.                                     *)
(***************************************************************************)
EXTENDS Naturals

CONSTANTS
    Users,
    Requests,    \* slots for requests being served, over all replicas
    None,        \* no entry, no account, no snapshot
    TTL,         \* 1800 s of users.repository.ts, in ticks
    Lag,         \* a replica uses a snapshot at most this many ticks after reading it
    AccessLife,  \* jwt.access.expiresIn and the clock tolerance of the guard
    MaxVersion   \* bound: changes of a key stop at this version

ASSUME ClockAssumption == TTL \in Nat \ {0} /\ Lag \in Nat /\ AccessLife \in Nat \ {0}
ASSUME VersionAssumption == MaxVersion \in Nat \ {0}
ASSUME NoneAssumption == None \notin Users /\ None \notin Nat

Keys == {"unique", "permissions"}
Versions == 1..MaxVersion
Horizon == TTL + 2 * Lag
Ages == 0..Horizon   \* Horizon stands for every age from there on

VARIABLES
    current,  \* what a read of the key finds in the database; None: the account is deleted
    since,    \* auxiliary: ticks since a version was superseded or deleted
    cache,    \* Redis: the version in the snapshot and its remaining ticks
    issued,   \* remaining ticks of the youngest access token of each version
    pc,
    req

vars == <<current, since, cache, issued, pc, req>>

Labels == {"idle", "sign", "lookup", "read", "fill", "answer"}
Entry == [ver : Versions, left : 1..TTL]
Request == [user : Users \cup {None}, ver : Versions \cup {None}, key : Keys,
            snap : Versions \cup {None}, age : 0..Lag]
Blank == [user |-> None, ver |-> None, key |-> "unique", snap |-> None, age |-> 0]

GTypeOK ==
    /\ current \in [Keys -> [Users -> Versions \cup {None}]]
    /\ since \in [Keys -> [Users -> [Versions -> Ages]]]
    /\ cache \in [Keys -> [Users -> Entry \cup {None}]]
    /\ issued \in [Users -> [Versions -> 0..AccessLife]]
    /\ pc \in [Requests -> Labels]
    /\ req \in [Requests -> Request]

Init ==
    /\ current = [k \in Keys |-> [u \in Users |-> 1]]
    /\ since = [k \in Keys |-> [u \in Users |-> [v \in Versions |-> 0]]]
    /\ cache = [k \in Keys |-> [u \in Users |-> None]]
    /\ issued = [u \in Users |-> [v \in Versions |-> 0]]
    /\ pc = [p \in Requests |-> "idle"]
    /\ req = [p \in Requests |-> Blank]

Goto(p, label) == pc' = [pc EXCEPT ![p] = label]
Answer(p) == Goto(p, "idle") /\ req' = [req EXCEPT ![p] = Blank]

-----------------------------------------------------------------------------
(* The database and the clock.                                             *)

\* A committed increment of token_version, or a change of the user's roles or of
\* what they permit.
Change(k, u) ==
    /\ current[k][u] # None /\ current[k][u] < MaxVersion
    /\ current' = [current EXCEPT ![k][u] = @ + 1]
    /\ UNCHANGED <<since, cache, issued, pc, req>>

\* Both reads ask for an active account that is not deleted.
Delete(u) ==
    /\ current["unique"][u] # None
    /\ current' = [k \in Keys |-> [current[k] EXCEPT ![u] = None]]
    /\ UNCHANGED <<since, cache, issued, pc, req>>

Superseded(k, u, v) == current[k][u] = None \/ v < current[k][u]
Older(n) == IF n < Horizon THEN n + 1 ELSE n
Sooner(n) == IF n = 0 THEN 0 ELSE n - 1
Aged(e) == IF e = None \/ e.left = 1 THEN None ELSE [e EXCEPT !.left = @ - 1]
Holding(p) == pc[p] \in {"fill", "answer"}

Tick ==
    /\ \A p \in Requests : Holding(p) => req[p].age < Lag
    /\ since' = [k \in Keys |-> [u \in Users |-> [v \in Versions |->
                     IF Superseded(k, u, v) THEN Older(since[k][u][v]) ELSE 0]]]
    /\ cache' = [k \in Keys |-> [u \in Users |-> Aged(cache[k][u])]]
    /\ issued' = [u \in Users |-> [v \in Versions |-> Sooner(issued[u][v])]]
    /\ req' = [p \in Requests |-> IF Holding(p) THEN [req[p] EXCEPT !.age = @ + 1] ELSE req[p]]
    /\ UNCHANGED <<current, pc>>

\* Redis drops the entry before it expires: a restart, memory pressure.
Lose(k, u) ==
    /\ cache[k][u] # None
    /\ cache' = [cache EXCEPT ![k][u] = None]
    /\ UNCHANGED <<current, since, issued, pc, req>>

-----------------------------------------------------------------------------
(* Login, and every other operation that signs an access token: the        *)
(* account is read by one statement, the JWT is signed after later ones.   *)

Login(p) == \E u \in Users :
    /\ pc[p] = "idle" /\ current["unique"][u] # None
    /\ Goto(p, "sign")
    /\ req' = [req EXCEPT ![p] = [Blank EXCEPT !.user = u, !.ver = current["unique"][u]]]
    /\ UNCHANGED <<current, since, cache, issued>>

Sign(p) ==
    /\ pc[p] = "sign"
    /\ issued' = [issued EXCEPT ![req[p].user][req[p].ver] = AccessLife]
    /\ Answer(p)
    /\ UNCHANGED <<current, since, cache>>

-----------------------------------------------------------------------------
(* A guarded request.  passport-jwt has checked signature and expiry when  *)
(* the strategy is asked.                                                  *)

Present(p) == \E u \in Users : \E v \in {x \in Versions : issued[u][x] > 0} :
    /\ pc[p] = "idle"
    /\ Goto(p, "lookup")
    /\ req' = [req EXCEPT ![p] = [Blank EXCEPT !.user = u, !.ver = v]]
    /\ UNCHANGED <<current, since, cache, issued>>

Snapshot(p, v) == req' = [req EXCEPT ![p].snap = v, ![p].age = 0]

\* Mutant of UserLookup: a hit is written back like what the database returned.
UserLookupRefilling(p) ==
    LET e == cache[req[p].key][req[p].user] IN
    /\ pc[p] = "lookup"
    /\ \/ e # None /\ Snapshot(p, e.ver) /\ Goto(p, "fill")
       \/ Goto(p, "read") /\ UNCHANGED req
    /\ UNCHANGED <<current, since, cache, issued>>
\* A miss, or Redis cannot be read: the error is logged and the database asked.
UserLookup(p) ==
    LET e == cache[req[p].key][req[p].user] IN
    /\ pc[p] = "lookup"
    /\ \/ e # None /\ Snapshot(p, e.ver) /\ Goto(p, "answer")
       \/ Goto(p, "read") /\ UNCHANGED req
    /\ UNCHANGED <<current, since, cache, issued>>

UserRead(p) ==
    LET found == current[req[p].key][req[p].user] IN
    /\ pc[p] = "read"
    /\ Snapshot(p, found)
    /\ Goto(p, IF found = None THEN "answer" ELSE "fill")
    /\ UNCHANGED <<current, since, cache, issued>>

\* Mutant of NewEntry: a life in milliseconds given to the option EX.
NewEntryMillis(v) == [ver |-> v, left |-> 1000 * TTL]
NewEntry(v) == [ver |-> v, left |-> TTL]

\* The SET fails and the error is logged, or the entry replaces whatever is there.
UserFill(p) ==
    /\ pc[p] = "fill"
    /\ \/ cache' = [cache EXCEPT ![req[p].key][req[p].user] = NewEntry(req[p].snap)]
       \/ UNCHANGED cache
    /\ Goto(p, "answer")
    /\ UNCHANGED <<current, since, issued, req>>

\* findOneById throws for an account it does not find; the strategy refuses a token
\* whose version differs from that of the account.
Guarding(p) == pc[p] = "answer" /\ req[p].key = "unique"
Accepts(p) == Guarding(p) /\ req[p].snap = req[p].ver
Refuses(p) == Guarding(p) /\ req[p].snap # req[p].ver

Validate(p) ==
    /\ \/ /\ Accepts(p)
          /\ Goto(p, "lookup")
          /\ req' = [req EXCEPT ![p].key = "permissions", ![p].snap = None, ![p].age = 0]
       \/ Refuses(p) /\ Answer(p)
    /\ UNCHANGED <<current, since, cache, issued>>

\* GET /auth/me, or its error if the account is not found.
Me(p) ==
    /\ pc[p] = "answer" /\ req[p].key = "permissions"
    /\ Answer(p)
    /\ UNCHANGED <<current, since, cache, issued>>

Step(p) == Sign(p) \/ UserLookup(p) \/ UserRead(p) \/ UserFill(p) \/ Validate(p) \/ Me(p)

Next ==
    \/ \E p \in Requests : Login(p) \/ Present(p) \/ Step(p)
    \/ \E u \in Users : Delete(u) \/ \E k \in Keys : Change(k, u) \/ Lose(k, u)
    \/ Tick

Spec == Init /\ [][Next]_vars

\* A replica resumes every handler whose await has settled, and time passes.
FairSpec == Spec /\ WF_vars(Tick) /\ \A p \in Requests : WF_vars(Step(p))
=============================================================================
