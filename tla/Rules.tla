------------------------------- MODULE Rules -------------------------------
(***************************************************************************)
(* GET /auth/me: the names of a user's roles and their permissions as      *)
(* rules.  Prisma reads the nested select level by level, one statement    *)
(* each outside a transaction, while roles, permissions and attributes     *)
(* change as AccessMap says.  The answer is then cached for half an hour   *)
(* (AccessGuard).  A row stands for its wording (the name of a role, the   *)
(* action and subject of a permission), which is taken as fixed.           *)
(***************************************************************************)
EXTENDS Naturals

CONSTANTS Users, Roles, Permissions, Attributes,
          MaxCommits   \* bound: commits of others during one read

ASSUME RulesConstants ==
    /\ MaxCommits \in Nat
    /\ Users \cap (Roles \cup Permissions \cup Attributes) = {}
    /\ Roles \cap (Permissions \cup Attributes) = {} /\ Permissions \cap Attributes = {}

VARIABLES
    present, removed, links,   \* the tables, as in AccessMap
    pc, reader, got,           \* the level reached, for whom, and what was read so far
    answer,
    moments,                   \* auxiliary: the right answer at each moment of the read
    commits                    \* auxiliary: commits of others since the read began

Map == INSTANCE AccessMap
tables == <<present, removed, links>>
vars == <<present, removed, links, pc, reader, got, answer, moments, commits>>

Levels == {"idle", "roles", "roleRows", "permissions", "permissionRows", "conditions",
           "attributes", "answered"}
RuleSet == [permission : Permissions, conditions : SUBSET Attributes]
Found == [roles : SUBSET Roles, pairs : SUBSET (Roles \X Permissions),
          conditions : SUBSET (Permissions \X Attributes)]
Me == [roles : SUBSET Roles, rules : SUBSET RuleSet]
Nothing == [roles |-> {}, pairs |-> {}, conditions |-> {}]
Blank == [roles |-> {}, rules |-> {}]

RTypeOK ==
    /\ present \subseteq Map!Owners \cup Attributes /\ removed \subseteq Map!Owners \cup Attributes
    /\ links \subseteq Map!Links
    /\ pc \in Levels /\ reader \in Users /\ got \in Found
    /\ answer \in Me /\ moments \subseteq Me
    /\ commits \in 0..MaxCommits

Init ==
    /\ Map!Init
    /\ pc = "idle" /\ reader \in Users /\ got = Nothing
    /\ answer = Blank /\ moments = {} /\ commits = 0

-----------------------------------------------------------------------------
(* AuthMapper.                                                             *)

ExtractRules(pairs, conditions) ==
    {[role |-> x[1], permission |-> x[2],
      conditions |-> {a \in Attributes : <<x[2], a>> \in conditions}] : x \in pairs}

DeduplicateRules(rules) ==
    {[permission |-> r.permission,
      conditions |-> UNION {s.conditions : s \in {t \in rules : t.permission = r.permission}}] :
        r \in rules}

\* Mutant of NormalizeConditions: a condition without its attribute ends the loop.
NormalizeConditionsOrNothing(conditions) ==
    IF \A c \in conditions : c[2] \in present THEN conditions ELSE {}
\* A condition whose attribute is not there any more is skipped.
NormalizeConditions(conditions) == {c \in conditions : c[2] \in present}

ToMeResponse(user) ==
    [roles |-> user.roles,
     rules |-> DeduplicateRules(ExtractRules(user.pairs, NormalizeConditions(user.conditions)))]

-----------------------------------------------------------------------------
RolesOf(u) == {r \in Roles : <<u, r>> \in links}
PairsOf(R) == {x \in R \X Permissions : x \in links}
ConditionsOf(P) == {x \in P \X Attributes : x \in links}
PermissionsOf(pairs) == {x[2] : x \in pairs}

\* What one snapshot would answer: the rules, and with the names of the roles.
RulesNow(u) == LET pairs == PairsOf(RolesOf(u)) IN
    DeduplicateRules(ExtractRules(pairs, ConditionsOf(PermissionsOf(pairs))))
MeNow(u) == [roles |-> RolesOf(u), rules |-> RulesNow(u)]

Read(from, to, found) ==
    /\ pc = from /\ pc' = to /\ got' = found
    /\ UNCHANGED <<present, removed, links, reader, answer, moments, commits>>

\* findFirst wants an active user; otherwise 401.
ReadUser(u) ==
    /\ pc = "idle" /\ u \in present
    /\ pc' = "roles" /\ reader' = u
    /\ moments' = {MeNow(u)}
    /\ UNCHANGED <<present, removed, links, got, answer, commits>>

ReadRoles == Read("roles", "roleRows", [got EXCEPT !.roles = RolesOf(reader)])
ReadRoleRows == got.roles \subseteq present /\ Read("roleRows", "permissions", got)
\* Mutant of ReadPairs: the links of every role are read.
ReadPairsOfAll == Read("permissions", "permissionRows", [got EXCEPT !.pairs = PairsOf(Roles)])
ReadPairs == Read("permissions", "permissionRows", [got EXCEPT !.pairs = PairsOf(got.roles)])
ReadPermissionRows ==
    PermissionsOf(got.pairs) \subseteq present /\ Read("permissionRows", "conditions", got)
ReadConditions ==
    Read("conditions", "attributes", [got EXCEPT !.conditions = ConditionsOf(PermissionsOf(got.pairs))])

ReadAttributes ==
    /\ pc = "attributes" /\ pc' = "answered"
    /\ answer' = ToMeResponse(got)
    /\ UNCHANGED <<present, removed, links, reader, got, moments, commits>>

(***************************************************************************)
(* The answer is used up; or a statement fails, be it because a required   *)
(* row is not there any more ("Inconsistent query result") or because the  *)
(* database does.                                                          *)
(***************************************************************************)
Finish ==
    /\ pc # "idle" /\ pc' = "idle"
    /\ got' = Nothing /\ answer' = Blank /\ moments' = {} /\ commits' = 0
    /\ UNCHANGED <<present, removed, links, reader>>

Others ==
    LET reading == pc \notin {"idle", "answered"} IN
    /\ Map!Next
    /\ reading => commits < MaxCommits
    /\ commits' = IF reading THEN commits + 1 ELSE commits
    /\ UNCHANGED <<pc, reader, got, answer>>
    /\ moments' = IF reading THEN moments \cup {MeNow(reader)'} ELSE moments

Next ==
    \/ \E u \in Users : ReadUser(u)
    \/ ReadRoles \/ ReadRoleRows \/ ReadPairs \/ ReadPermissionRows \/ ReadConditions
    \/ ReadAttributes \/ Finish
    \/ Others

Spec == Init /\ [][Next]_vars
=============================================================================
