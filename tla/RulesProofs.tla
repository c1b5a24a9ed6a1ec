----------------------------- MODULE RulesProofs -----------------------------
(***************************************************************************)
(* RulesInv, and that an answer stands for one moment.  The argument is a  *)
(* prediction: what the read will answer if nobody commits any more.  The  *)
(* steps of the read leave it alone, and the one commit of another request *)
(* turns it into the rules of before or of after.                          *)
(***************************************************************************)
EXTENDS RulesProperties, TLAPS

Reading == pc \notin {"idle", "answered"}

(***************************************************************************)
(* The rules of a set of permissions.  Two rules of one permission, found  *)
(* by way of two roles, have the same conditions (auth.mapper.ts).         *)
(***************************************************************************)
ConditionsIn(C, p) == {a \in Attributes : <<p, a>> \in C}
RulesFor(P, C) == {[permission |-> p, conditions |-> ConditionsIn(C, p)] : p \in P}

LEMMA Deduplicated ==
    ASSUME NEW pairs, NEW C
    PROVE  DeduplicateRules(ExtractRules(pairs, C)) = RulesFor(PermissionsOf(pairs), C)
<1>. DEFINE rules == ExtractRules(pairs, C)
            same(r) == {t \in rules : t.permission = r.permission}
<1>1. \A r \in rules : r.permission \in PermissionsOf(pairs)
                       /\ r.conditions = ConditionsIn(C, r.permission)
  BY DEF ExtractRules, PermissionsOf, ConditionsIn
<1>2. ASSUME NEW p \in PermissionsOf(pairs) PROVE \E r \in rules : r.permission = p
  <2>1. PICK x \in pairs : p = x[2]
    BY DEF PermissionsOf
  <2>. DEFINE r == [role |-> x[1], permission |-> x[2], conditions |-> ConditionsIn(C, x[2])]
  <2>2. r \in rules
    BY DEF ExtractRules, ConditionsIn
  <2>. QED BY <2>1, <2>2
<1>3. ASSUME NEW r \in rules
      PROVE  UNION {s.conditions : s \in same(r)} = ConditionsIn(C, r.permission)
  <2>1. r \in same(r) /\ \A s \in same(r) : s.conditions = ConditionsIn(C, r.permission)
    BY <1>1
  <2>. HIDE DEF same
  <2>. QED BY <2>1
<1>4. DeduplicateRules(rules)
      = {[permission |-> r.permission, conditions |-> ConditionsIn(C, r.permission)] : r \in rules}
  BY <1>3 DEF DeduplicateRules
<1>. DEFINE rule(p) == [permission |-> p, conditions |-> ConditionsIn(C, p)]
<1>5. DeduplicateRules(rules) = {rule(r.permission) : r \in rules}
  BY <1>4
<1>6. ASSUME NEW p \in PermissionsOf(pairs) PROVE rule(p) \in {rule(r.permission) : r \in rules}
  BY <1>2, <1>6
<1>7. {rule(r.permission) : r \in rules} = {rule(p) : p \in PermissionsOf(pairs)}
  BY <1>1, <1>6
<1>. QED BY <1>5, <1>7 DEF RulesFor

LEMMA PermissionsFor ==
    ASSUME NEW P, NEW C PROVE {r.permission : r \in RulesFor(P, C)} = P
<1>1. ASSUME NEW p \in P PROVE p \in {r.permission : r \in RulesFor(P, C)}
  <2>. DEFINE r == [permission |-> p, conditions |-> ConditionsIn(C, p)]
  <2>1. r \in RulesFor(P, C) /\ r.permission = p
    BY DEF RulesFor
  <2>. HIDE DEF r
  <2>. QED BY <2>1
<1>2. \A r \in RulesFor(P, C) : r.permission \in P
  BY DEF RulesFor
<1>. QED BY <1>1, <1>2

LEMMA RulesAreRules ==
    ASSUME NEW P \in SUBSET Permissions, NEW C PROVE RulesFor(P, C) \in SUBSET RuleSet
<1>1. ASSUME NEW r \in RulesFor(P, C) PROVE r \in RuleSet
  <2>1. PICK p \in P : r = [permission |-> p, conditions |-> ConditionsIn(C, p)]
    BY DEF RulesFor
  <2>2. ConditionsIn(C, p) \subseteq Attributes /\ p \in Permissions
    BY DEF ConditionsIn
  <2>. QED BY <2>1, <2>2 DEF RuleSet
<1>. QED BY <1>1

(***************************************************************************)
(* The prediction: levels not read yet are read off the tables as they are.*)
(***************************************************************************)
RolesDue == IF pc = "roles" THEN RolesOf(reader) ELSE got.roles
PairsDue == IF pc \in {"roles", "roleRows", "permissions"} THEN PairsOf(RolesDue) ELSE got.pairs
ConditionsDue ==
    IF pc = "attributes" THEN got.conditions ELSE ConditionsOf(PermissionsOf(PairsDue))
Due == RulesFor(PermissionsOf(PairsDue), NormalizeConditions(ConditionsDue))

MeDue == [roles |-> RolesDue, rules |-> Due]

\* What AnswerIsOneMoment asks of an answer.
StandsForOne(me) == \E m \in moments :
    /\ SameButRemoved(me.roles, m.roles)
    /\ {r.permission : r \in me.rules} = {r.permission : r \in m.rules}
    /\ \A r \in me.rules : r \in m.rules \/ Unconditioned(r)

\* Nobody has committed since the read began: all that was read is still so.
UpToDate ==
    /\ pc # "roles" => got.roles = RolesOf(reader)
    /\ pc \notin {"roles", "roleRows", "permissions"} => got.pairs = PairsOf(RolesOf(reader))
    /\ pc = "attributes" => got.conditions = ConditionsOf(PermissionsOf(PairsOf(RolesOf(reader))))

LinksInv == \A l \in links : l[2] \in present

\* What was not read yet.
NotYet ==
    /\ pc = "idle" => commits = 0
    /\ pc \in {"idle", "roles", "roleRows", "permissions"} => got.pairs = {}
    /\ pc \notin {"attributes", "answered"} => got.conditions = {}

MomentInv ==
    /\ RulesInv
    /\ LinksInv
    /\ NotYet
    /\ Reading => MeNow(reader) \in moments
    /\ Reading /\ commits = 0 => UpToDate
    /\ Reading /\ commits = 1 => StandsForOne(MeDue)
    /\ pc = "answered" /\ commits <= 1 => StandsForOne(answer)

-----------------------------------------------------------------------------
LEMMA LinksHaveEnds ==
    \A l \in Map!Links : /\ l = <<l[1], l[2]>>
                         /\ \/ l[1] \in Users /\ l[2] \in Roles
                            \/ l[1] \in Roles /\ l[2] \in Permissions
                            \/ l[1] \in Permissions /\ l[2] \in Attributes
<1>1. ASSUME NEW l \in Map!Links
      PROVE  \E o \in Map!Owners : \E x \in Map!Members(o) : l = <<o, x>>
  BY <1>1 DEF Map!Links
<1>. QED BY <1>1, RulesConstants DEF Map!Owners, Map!Members

LEMMA LinksOfOne ==
    ASSUME NEW o \in Map!Owners, NEW S \in SUBSET Map!Members(o)
    PROVE  {o} \X S \subseteq Map!Links
<1>1. ASSUME NEW x \in S PROVE <<o, x>> \in {o} \X Map!Members(o)
  OBVIOUS
<1>. QED BY <1>1 DEF Map!Links

-----------------------------------------------------------------------------
(* What a commit of another request does to the tables (AccessMap).        *)

\* The links of one owner are replaced, or nothing this read looks at changes.
Rewritten(o) ==
    /\ present \cap Attributes \subseteq present'
    /\ \A l \in Map!Links : l[1] # o => (l \in links' <=> l \in links)

\* A row goes with all its links.
Erased(x) ==
    /\ x \in removed' /\ x \in Roles \cup Permissions \cup Attributes
    /\ present' = present \ {x}
    /\ \A l \in Map!Links : l \in links' <=> l \in links /\ x \notin {l[1], l[2]}

LEMMA OthersDo ==
    ASSUME RTypeOK, LinksInv, Map!Next
    PROVE  /\ present' \subseteq Map!Owners \cup Attributes
           /\ removed \subseteq removed' /\ removed' \subseteq Map!Owners \cup Attributes
           /\ links' \subseteq Map!Links
           /\ LinksInv'
           /\ (\E o : Rewritten(o)) \/ (\E x : Erased(x))
<1>1. /\ present \subseteq Map!Owners \cup Attributes /\ removed \subseteq Map!Owners \cup Attributes
      /\ links \subseteq Map!Links
  BY DEF RTypeOK
<1>2. ASSUME NEW a \in Attributes, Map!CreateAttribute(a)
      PROVE  /\ present' = present \cup {a} /\ links' = links /\ removed' = removed
             /\ Rewritten(a)
  BY <1>2 DEF Map!CreateAttribute, Rewritten
<1>3. ASSUME NEW o \in Map!Owners, Map!Create(o) \/ Map!Replace(o)
      PROVE  /\ present \subseteq present' /\ present' \subseteq present \cup {o} /\ removed' = removed
             /\ \E S \in SUBSET (Map!Members(o) \cap present) :
                  links' \in {links \cup ({o} \X S), {l \in links : l[1] # o} \cup ({o} \X S)}
  BY <1>3 DEF Map!Create, Map!Replace
<1>4. ASSUME NEW x \in Map!Owners \cup Attributes, Map!Remove(x)
      PROVE  /\ present' = present \ {x} /\ removed' = removed \cup {x}
             /\ links' = IF x \in Users THEN links ELSE links \ Map!Touching(x)
  BY <1>4 DEF Map!Remove
<1>5. ASSUME NEW o \in Map!Owners, Map!Create(o) \/ Map!Replace(o)
      PROVE  links' \subseteq Map!Links /\ LinksInv' /\ Rewritten(o)
  <2>1. PICK S \in SUBSET (Map!Members(o) \cap present) :
            links' \in {links \cup ({o} \X S), {l \in links : l[1] # o} \cup ({o} \X S)}
    BY <1>3, <1>5
  <2>2. {o} \X S \subseteq Map!Links /\ \A l \in {o} \X S : l[1] = o /\ l[2] \in present
    BY LinksOfOne
  <2>3. present \subseteq present'
    BY <1>3, <1>5
  <2>. QED BY <1>1, <2>1, <2>2, <2>3 DEF LinksInv, Rewritten
<1>6. ASSUME NEW x \in Map!Owners \cup Attributes, Map!Remove(x)
      PROVE  links' \subseteq Map!Links /\ LinksInv' /\ (Rewritten(x) \/ Erased(x))
  <2>1. CASE x \in Users
    <3>1. links' = links /\ present' = present \ {x} /\ x \notin Roles \cup Permissions \cup Attributes
      BY <1>4, <1>6, <2>1, RulesConstants
    <3>. QED BY <1>1, <3>1, LinksHaveEnds DEF LinksInv, Rewritten
  <2>2. CASE x \notin Users
    <3>1. links' = links \ Map!Touching(x) /\ present' = present \ {x} /\ removed' = removed \cup {x}
      BY <1>4, <1>6, <2>2
    <3>2. \A l \in Map!Links : l \in links' <=> l \in links /\ x \notin {l[1], l[2]}
      BY <1>1, <3>1 DEF Map!Touching
    <3>3. x \in Roles \cup Permissions \cup Attributes
      BY <2>2 DEF Map!Owners
    <3>. QED BY <1>1, <3>1, <3>2, <3>3 DEF LinksInv, Erased
  <2>. QED BY <2>1, <2>2
<1>. QED
  BY <1>1, <1>2, <1>3, <1>4, <1>5, <1>6 DEF Map!Next, LinksInv

-----------------------------------------------------------------------------
(* One commit, seen by a reader who is up to date.                         *)

LEMMA LinkIn ==
    /\ \A u \in Users, r \in Roles : <<u, r>> \in Map!Links
    /\ \A r \in Roles, p \in Permissions : <<r, p>> \in Map!Links
    /\ \A p \in Permissions, a \in Attributes : <<p, a>> \in Map!Links
<1>1. ASSUME NEW o \in Map!Owners, NEW x \in Map!Members(o) PROVE <<o, x>> \in Map!Links
  <2>1. <<o, x>> \in {o} \X Map!Members(o)
    OBVIOUS
  <2>. QED BY <2>1 DEF Map!Links
<1>2. /\ \A u \in Users : u \in Map!Owners /\ Map!Members(u) = Roles
      /\ \A r \in Roles : r \in Map!Owners /\ Map!Members(r) = Permissions
      /\ \A p \in Permissions : p \in Map!Owners /\ Map!Members(p) = Attributes
  BY RulesConstants DEF Map!Owners, Map!Members
<1>. QED BY <1>1, <1>2

\* What of the three levels a commit leaves alone.
LEMMA OneLevel ==
    ASSUME NEW o, Rewritten(o)
    PROVE  /\ \A u \in Users, r \in Roles : u # o => (<<u, r>> \in links' <=> <<u, r>> \in links)
           /\ \A r \in Roles, p \in Permissions : r # o => (<<r, p>> \in links' <=> <<r, p>> \in links)
           /\ \A p \in Permissions, a \in Attributes : p # o => (<<p, a>> \in links' <=> <<p, a>> \in links)
  BY LinkIn DEF Rewritten

LEMMA OneRow ==
    ASSUME NEW x, Erased(x)
    PROVE  /\ \A u \in Users, r \in Roles : <<u, r>> \in links' <=> <<u, r>> \in links /\ r # x
           /\ \A r \in Roles, p \in Permissions : <<r, p>> \in links' <=> <<r, p>> \in links /\ x \notin {r, p}
           /\ \A p \in Permissions, a \in Attributes : <<p, a>> \in links' <=> <<p, a>> \in links /\ x \notin {p, a}
  BY LinkIn, RulesConstants DEF Erased

LEMMA CommitSeen ==
    ASSUME RTypeOK, LinksInv, LinksInv', links' \subseteq Map!Links, Reading, UpToDate,
           pc' = pc, reader' = reader, got' = got,
           (\E o : Rewritten(o)) \/ (\E x : Erased(x)),
           MeNow(reader) \in moments, moments' = moments \cup {MeNow(reader)'},
           removed \subseteq removed'
    PROVE  StandsForOne(MeDue)'
<1>. DEFINE R0 == RolesOf(reader)
            P0 == PairsOf(R0)
            C0 == ConditionsOf(PermissionsOf(P0))
            pairsAfter(R) == {x \in R \X Permissions : x \in links'}
            conditionsAfter(P) == {x \in P \X Attributes : x \in links'}
            R1 == {r \in Roles : <<reader', r>> \in links'}
            P1 == pairsAfter(R1)
            C1 == conditionsAfter(PermissionsOf(P1))
<1>1. /\ reader \in Users /\ R0 \subseteq Roles /\ R1 \subseteq Roles
      /\ P0 \subseteq Roles \X Permissions /\ P1 \subseteq Roles \X Permissions
      /\ PermissionsOf(P0) \subseteq Permissions /\ PermissionsOf(P1) \subseteq Permissions
  BY DEF RTypeOK, RolesOf, PairsOf, PermissionsOf
<1>2. /\ RulesNow(reader) = RulesFor(PermissionsOf(P0), C0)
      /\ RulesNow(reader)' = RulesFor(PermissionsOf(P1), C1)
  <2>1. RulesNow(reader)' = DeduplicateRules(ExtractRules(P1, C1))
    BY DEF RulesNow, RolesOf, PairsOf, ConditionsOf, PermissionsOf, DeduplicateRules, ExtractRules
  <2>2. RulesNow(reader) = DeduplicateRules(ExtractRules(P0, C0))
    BY DEF RulesNow
  <2>. HIDE DEF P0, C0, P1, C1
  <2>. QED BY <2>1, <2>2, Deduplicated
\* What is read after the commit needs no normalisation.
<1>3. ASSUME NEW P PROVE {c \in conditionsAfter(P) : c[2] \in present'} = conditionsAfter(P)
  BY DEF LinksInv
<1>4. Due' = RulesFor(PermissionsOf(PairsDue'), {c \in ConditionsDue' : c[2] \in present'})
  BY DEF Due, NormalizeConditions, RulesFor, PermissionsOf, ConditionsIn
<1>. DEFINE now == RulesNow(reader)
            next == RulesNow(reader)'
            Q == pairsAfter(R0)
            D == conditionsAfter(PermissionsOf(P0))
            AsNext == Due' = next /\ R1 \subseteq R0 /\ R0 \ R1 \subseteq removed'
<1>4a. /\ [roles |-> R0, rules |-> now] \in moments' /\ [roles |-> R1, rules |-> next] \in moments'
       /\ MeDue' = [roles |-> RolesDue', rules |-> Due']
  BY DEF MeNow, MeDue, RolesOf
<1>4b. pc # "roles" => RolesDue' = R0
  BY DEF RolesDue, UpToDate
<1>5. ASSUME RolesDue' = R0, Due' = now \/ AsNext PROVE StandsForOne(MeDue)'
  <2>1. CASE Due' = now
    BY <1>5, <1>4a, <2>1 DEF StandsForOne, SameButRemoved
  <2>2. CASE AsNext
    <3>1. MeDue'.roles = R0 /\ MeDue'.rules = next
      BY <1>5, <1>4a, <2>2
    <3>2. [roles |-> R1, rules |-> next].roles = R1 /\ [roles |-> R1, rules |-> next].rules = next
      OBVIOUS
    <3>. QED BY <1>4a, <2>2, <3>1, <3>2 DEF StandsForOne, SameButRemoved
  <2>. QED BY <1>5, <2>1, <2>2
\* Levels that a commit leaves as they were.
<1>6. ASSUME NEW o, Rewritten(o), o # reader \/ o \notin Users PROVE R1 = R0
  BY <1>1, <1>6, OneLevel DEF RolesOf
<1>7. ASSUME NEW o, Rewritten(o), o \notin Roles PROVE Q = P0
  BY <1>1, <1>7, OneLevel DEF PairsOf
<1>8. ASSUME NEW o, Rewritten(o), o \notin Permissions PROVE D = C0
  BY <1>1, <1>8, OneLevel DEF ConditionsOf
<1>9. ASSUME NEW x, Erased(x) PROVE R1 = R0 \ {x} /\ x \in removed' /\ Q = P1
  <2>1. R1 = R0 \ {x}
    BY <1>1, <1>9, OneRow DEF RolesOf
  <2>2. \A r \in R0, q \in Permissions : <<r, q>> \in links' => r # x
    BY <1>1, <1>9, OneRow
  <2>. QED BY <1>9, <2>1, <2>2 DEF Erased
<1>10. ASSUME NEW x, Erased(x), x \in Roles PROVE D = C0
  BY <1>1, <1>10, OneRow, RulesConstants DEF ConditionsOf
<1>11. ASSUME NEW x, Erased(x), x \in Attributes PROVE P1 = P0 /\ C1 = {c \in C0 : c[2] # x}
  <2>1. Q = P0
    BY <1>1, <1>11, OneRow, RulesConstants DEF PairsOf
  <2>2. D = {c \in C0 : c[2] # x}
    BY <1>1, <1>11, OneRow, RulesConstants DEF ConditionsOf
  <2>. QED BY <1>9, <1>11, <2>1, <2>2
<1>12. CASE pc = "roles"
  <2>1. PairsDue' = P1 /\ ConditionsDue' = C1
    BY <1>12 DEF PairsDue, RolesDue, ConditionsDue, PairsOf, RolesOf, ConditionsOf, PermissionsOf
  <2>2. Due' = next /\ RolesDue' = R1
    BY <1>2, <1>3, <1>4, <1>12, <2>1 DEF RolesDue, RolesOf
  <2>. QED BY <1>4a, <2>2 DEF StandsForOne, SameButRemoved
<1>13. CASE pc \in {"roleRows", "permissions"}
  <2>1. PairsDue' = Q /\ ConditionsDue' = conditionsAfter(PermissionsOf(Q))
    <3>1. got.roles' = R0
      BY <1>13 DEF UpToDate
    <3>. QED BY <1>13, <3>1 DEF PairsDue, RolesDue, ConditionsDue, PairsOf, ConditionsOf, PermissionsOf
  <2>2. Due' = RulesFor(PermissionsOf(Q), conditionsAfter(PermissionsOf(Q)))
    BY <1>3, <1>4, <2>1
  <2>3. ASSUME NEW o, Rewritten(o) PROVE Due' = now \/ AsNext
    <3>1. CASE o \in Roles \cup Permissions
      BY <1>1, <1>2, <1>6, <2>2, <2>3, <3>1, RulesConstants
    <3>2. CASE o \notin Roles \cup Permissions
      BY <1>2, <1>7, <1>8, <2>2, <2>3, <3>2
    <3>. QED BY <3>1, <3>2
  <2>4. ASSUME NEW x, Erased(x) PROVE Due' = now \/ AsNext
    BY <1>2, <1>9, <2>2, <2>4
  <2>. QED BY <1>5, <1>13, <1>4b, <2>3, <2>4
<1>14. CASE pc \in {"permissionRows", "conditions"}
  <2>1. PairsDue' = P0 /\ ConditionsDue' = D
    <3>1. got.pairs' = P0
      BY <1>14 DEF UpToDate
    <3>. QED BY <1>14, <3>1 DEF PairsDue, ConditionsDue, ConditionsOf, PermissionsOf
  <2>2. Due' = RulesFor(PermissionsOf(P0), D)
    BY <1>3, <1>4, <2>1
  <2>3. ASSUME NEW o, Rewritten(o) PROVE Due' = now \/ AsNext
    <3>1. CASE o \in Permissions
      BY <1>1, <1>2, <1>6, <1>7, <2>2, <2>3, <3>1, RulesConstants
    <3>2. CASE o \notin Permissions
      BY <1>2, <1>8, <2>2, <2>3, <3>2
    <3>. QED BY <3>1, <3>2
  <2>4. ASSUME NEW x, Erased(x), x \notin Permissions PROVE Due' = now \/ AsNext
    <3>1. CASE x \in Roles
      BY <1>2, <1>10, <2>2, <2>4, <3>1
    <3>2. CASE x \in Attributes
      BY <1>2, <1>9, <1>11, <2>2, <2>4, <3>2
    <3>. QED BY <2>4, <3>1, <3>2 DEF Erased
\* A permission of the answer is deleted: its rule has lost its conditions.
  <2>5. ASSUME NEW x, Erased(x), x \in Permissions PROVE StandsForOne(MeDue)'
    <3>1. x \in removed'
      BY <2>5 DEF Erased
    <3>2. \A p \in PermissionsOf(P0) :
             ConditionsIn(D, p) = IF p = x THEN {} ELSE ConditionsIn(C0, p)
      <4>1. \A c : c \in D <=> c \in C0 /\ c[1] # x
        BY <1>1, <2>5, OneRow, RulesConstants DEF ConditionsOf
      <4>. QED BY <4>1 DEF ConditionsIn
    <3>3. /\ {r.permission : r \in Due'} = PermissionsOf(P0)
          /\ {r.permission : r \in now} = PermissionsOf(P0)
      BY <1>2, <2>2, PermissionsFor
    <3>4. ASSUME NEW r \in Due' PROVE r \in now \/ Unconditioned(r)'
      <4>1. PICK p \in PermissionsOf(P0) : r = [permission |-> p, conditions |-> ConditionsIn(D, p)]
        BY <2>2, <3>4 DEF RulesFor
      <4>2. CASE p = x
        BY <3>1, <3>2, <4>1, <4>2 DEF Unconditioned
      <4>3. CASE p # x
        BY <1>2, <3>2, <4>1, <4>3 DEF RulesFor
      <4>. QED BY <4>2, <4>3
    <3>5. /\ MeDue'.roles = R0 /\ MeDue'.rules = Due'
          /\ [roles |-> R0, rules |-> now].roles = R0 /\ [roles |-> R0, rules |-> now].rules = now
      BY <1>4a, <1>4b, <1>14
    <3>. HIDE DEF now
    <3>. QED BY <1>4a, <3>3, <3>4, <3>5 DEF StandsForOne, SameButRemoved
  <2>. QED BY <1>5, <1>14, <1>4b, <2>3, <2>4, <2>5
<1>15. CASE pc = "attributes"
  <2>1. PairsDue' = P0 /\ ConditionsDue' = C0
    <3>1. got.pairs' = P0 /\ got.conditions' = C0
      BY <1>15 DEF UpToDate
    <3>. QED BY <1>15, <3>1 DEF PairsDue, ConditionsDue
  <2>2. Due' = RulesFor(PermissionsOf(P0), {c \in C0 : c[2] \in present'})
    BY <1>4, <2>1
  <2>3. \A c \in C0 : c = <<c[1], c[2]>> /\ c \in links /\ c[2] \in Attributes /\ c[2] \in present
    BY DEF ConditionsOf, LinksInv
  <2>4. ASSUME NEW o, Rewritten(o) PROVE Due' = now \/ AsNext
    <3>1. {c \in C0 : c[2] \in present'} = C0
      BY <2>3, <2>4 DEF Rewritten
    <3>. QED BY <1>2, <2>2, <3>1
  <2>5. ASSUME NEW x, Erased(x) PROVE Due' = now \/ AsNext
    <3>1. {c \in C0 : c[2] \in present'} = {c \in C0 : c[2] # x}
      BY <2>3, <2>5 DEF Erased
    <3>2. CASE x \in Attributes
      BY <1>2, <1>9, <1>11, <2>2, <2>5, <3>1, <3>2
    <3>3. CASE x \notin Attributes
      <4>1. {c \in C0 : c[2] # x} = C0
        BY <2>3, <3>3
      <4>. QED BY <1>2, <2>2, <3>1, <4>1
    <3>. QED BY <3>2, <3>3
  <2>. QED BY <1>5, <1>15, <1>4b, <2>4, <2>5
<1>. QED BY <1>12, <1>13, <1>14, <1>15 DEF Reading, RTypeOK, Levels

-----------------------------------------------------------------------------
(* The invariant.                                                          *)

LEMMA MeType == ASSUME NEW u PROVE MeNow(u) \in Me
<1>. DEFINE pairs == PairsOf(RolesOf(u))
            C == ConditionsOf(PermissionsOf(pairs))
<1>1. PermissionsOf(pairs) \subseteq Permissions
  BY DEF PairsOf, PermissionsOf, RolesOf
<1>2. RulesFor(PermissionsOf(pairs), C) \in SUBSET RuleSet
  BY <1>1, RulesAreRules
<1>3. RulesNow(u) \in SUBSET RuleSet
  BY <1>2, Deduplicated DEF RulesNow
<1>. QED BY <1>3 DEF MeNow, Me, RolesOf

LEMMA MeTyped == MeNow(reader) \in Me
  BY MeType

\* If nobody commits, what is due is what one moment answers.
LEMMA DueNow ==
    ASSUME RTypeOK, LinksInv, Reading, UpToDate
    PROVE  MeDue = MeNow(reader)
<1>. DEFINE P0 == PairsOf(RolesOf(reader))
            C0 == ConditionsOf(PermissionsOf(P0))
<1>1. PairsDue = P0
  BY DEF PairsDue, RolesDue, UpToDate
<1>2. ConditionsDue = C0
  BY <1>1 DEF ConditionsDue, UpToDate
<1>3. NormalizeConditions(C0) = C0
  BY DEF NormalizeConditions, ConditionsOf, LinksInv
<1>4. RulesNow(reader) = RulesFor(PermissionsOf(P0), C0)
  BY Deduplicated DEF RulesNow
<1>. QED BY <1>1, <1>2, <1>3, <1>4 DEF Due, MeDue, MeNow, RolesDue, UpToDate

LEMMA MomentInit == Init => MomentInv
<1>. SUFFICES ASSUME Init PROVE MomentInv
  OBVIOUS
<1>1. RTypeOK
  BY RulesConstants DEF Init, Map!Init, RTypeOK, Nothing, Blank, Me, Found, Levels
<1>2. LinksInv
  BY DEF Init, Map!Init, LinksInv
<1>. QED BY <1>1, <1>2 DEF Init, Nothing, MomentInv, RulesInv, NotYet, Reading

\* A step of the read does not change what is due.
LEMMA ReadKeeps ==
    ASSUME MomentInv, ReadRoles \/ ReadRoleRows \/ ReadPairs \/ ReadPermissionRows \/ ReadConditions
    PROVE  MomentInv'
<1>1. /\ RTypeOK /\ LinksInv /\ Reading /\ got \in Found
      /\ UNCHANGED <<present, removed, links, reader, answer, moments, commits>>
      /\ \A x \in got.pairs : x[1] \in got.roles
      /\ \A x \in got.conditions : x[1] \in PermissionsOf(got.pairs)
      /\ moments # {}
  BY DEF MomentInv, RulesInv, RTypeOK, Reading, Read, ReadRoles, ReadRoleRows, ReadPairs, ReadPermissionRows,
         ReadConditions
<1>2. /\ RolesOf(reader)' = RolesOf(reader) /\ MeNow(reader)' = MeNow(reader) /\ LinksInv'
  BY <1>1 DEF RolesOf, MeNow, RulesNow, PairsOf, ConditionsOf, PermissionsOf, LinksInv, DeduplicateRules, ExtractRules
<1>3. /\ got' \in Found /\ Reading' /\ pc' \in Levels
      /\ \A x \in got'.pairs : x[1] \in got'.roles
      /\ \A x \in got'.conditions : x[1] \in PermissionsOf(got'.pairs)
      /\ NotYet'
  <2>1. CASE ReadRoles
    BY <1>1, <2>1 DEF ReadRoles, Read, Found, Reading, Levels, NotYet, MomentInv, RolesOf, PairsOf, ConditionsOf, PermissionsOf
  <2>2. CASE ReadRoleRows
    BY <1>1, <2>2 DEF ReadRoleRows, Read, Found, Reading, Levels, NotYet, MomentInv, RolesOf, PairsOf, ConditionsOf, PermissionsOf
  <2>3. CASE ReadPairs
    BY <1>1, <2>3 DEF ReadPairs, Read, Found, Reading, Levels, NotYet, MomentInv, RolesOf, PairsOf, ConditionsOf, PermissionsOf
  <2>4. CASE ReadPermissionRows
    BY <1>1, <2>4 DEF ReadPermissionRows, Read, Found, Reading, Levels, NotYet, MomentInv, RolesOf, PairsOf, ConditionsOf, PermissionsOf
  <2>5. CASE ReadConditions
    BY <1>1, <2>5 DEF ReadConditions, Read, Found, Reading, Levels, NotYet, MomentInv, RolesOf, PairsOf, ConditionsOf, PermissionsOf
  <2>. QED BY <2>1, <2>2, <2>3, <2>4, <2>5
<1>4. UpToDate => UpToDate'
  <2>1. CASE ReadRoles
    BY <1>1, <2>1 DEF ReadRoles, Read, UpToDate, RolesOf, PairsOf, ConditionsOf, PermissionsOf
  <2>2. CASE ReadRoleRows
    BY <1>1, <2>2 DEF ReadRoleRows, Read, UpToDate, RolesOf, PairsOf, ConditionsOf, PermissionsOf
  <2>3. CASE ReadPairs
    BY <1>1, <2>3 DEF ReadPairs, Read, UpToDate, RolesOf, PairsOf, ConditionsOf, PermissionsOf
  <2>4. CASE ReadPermissionRows
    BY <1>1, <2>4 DEF ReadPermissionRows, Read, UpToDate, RolesOf, PairsOf, ConditionsOf, PermissionsOf
  <2>5. CASE ReadConditions
    <3>1. /\ pc' = "attributes" /\ got'.roles = got.roles /\ got'.pairs = got.pairs
          /\ got'.conditions = ConditionsOf(PermissionsOf(got.pairs)) /\ pc = "conditions"
      BY <1>1, <2>5 DEF ReadConditions, Read, Found
    <3>2. /\ RolesOf(reader)' = RolesOf(reader) /\ PairsOf(RolesOf(reader))' = PairsOf(RolesOf(reader))
          /\ ConditionsOf(PermissionsOf(PairsOf(RolesOf(reader))))' = ConditionsOf(PermissionsOf(PairsOf(RolesOf(reader))))
      BY <1>1 DEF RolesOf, PairsOf, ConditionsOf, PermissionsOf
    <3>. QED BY <3>1, <3>2 DEF UpToDate
  <2>. QED BY <2>1, <2>2, <2>3, <2>4, <2>5
<1>5. PairsDue' = PairsDue
  <2>1. CASE ReadRoles
    BY <1>1, <2>1 DEF ReadRoles, Read, PairsDue, RolesDue, RolesOf, PairsOf
  <2>2. CASE ReadRoleRows
    BY <1>1, <2>2 DEF ReadRoleRows, Read, PairsDue, RolesDue, RolesOf, PairsOf
  <2>3. CASE ReadPairs
    BY <1>1, <2>3 DEF ReadPairs, Read, PairsDue, RolesDue, RolesOf, PairsOf
  <2>4. CASE ReadPermissionRows
    BY <1>1, <2>4 DEF ReadPermissionRows, Read, PairsDue, RolesDue, RolesOf, PairsOf
  <2>5. CASE ReadConditions
    BY <1>1, <2>5 DEF ReadConditions, Read, PairsDue, RolesDue, RolesOf, PairsOf
  <2>. QED BY <2>1, <2>2, <2>3, <2>4, <2>5
<1>6. ConditionsDue' = ConditionsDue
  <2>1. CASE ReadRoles
    BY <1>1, <1>5, <2>1 DEF ReadRoles, Read, ConditionsDue, ConditionsOf, PermissionsOf
  <2>2. CASE ReadRoleRows
    BY <1>1, <1>5, <2>2 DEF ReadRoleRows, Read, ConditionsDue, ConditionsOf, PermissionsOf
  <2>3. CASE ReadPairs
    BY <1>1, <1>5, <2>3 DEF ReadPairs, Read, ConditionsDue, ConditionsOf, PermissionsOf
  <2>4. CASE ReadPermissionRows
    BY <1>1, <1>5, <2>4 DEF ReadPermissionRows, Read, ConditionsDue, ConditionsOf, PermissionsOf
  <2>5. CASE ReadConditions
    <3>1. /\ pc' = "attributes" /\ pc = "conditions"
          /\ got'.conditions = ConditionsOf(PermissionsOf(got.pairs))
      BY <1>1, <2>5 DEF ReadConditions, Read, Found
    <3>. QED BY <3>1 DEF ConditionsDue, PairsDue
  <2>. QED BY <2>1, <2>2, <2>3, <2>4, <2>5
<1>7. Due' = Due
  BY <1>1, <1>5, <1>6 DEF Due, NormalizeConditions, RulesFor, PermissionsOf, ConditionsIn
<1>8. StandsForOne(MeDue) => StandsForOne(MeDue)'
  <2>1. RolesDue' = RolesDue
    BY <1>1, <1>2 DEF ReadRoles, ReadRoleRows, ReadPairs, ReadPermissionRows, ReadConditions, Read, Found, RolesDue
  <2>. QED BY <1>1, <1>7, <2>1 DEF StandsForOne, SameButRemoved, Unconditioned, MeDue
<1>9. RulesInv'
  BY <1>1, <1>3 DEF RulesInv, RTypeOK, PermissionsOf
<1>. QED BY <1>1, <1>2, <1>3, <1>4, <1>8, <1>9 DEF MomentInv, Reading

LEMMA UserKeeps == ASSUME MomentInv, NEW u \in Users, ReadUser(u) PROVE MomentInv'
<1>1. /\ RTypeOK /\ LinksInv /\ got \in Found /\ commits = 0 /\ pc' = "roles" /\ reader' = u
      /\ moments' = {MeNow(u)}
      /\ UNCHANGED <<present, removed, links, got, answer, commits>>
  BY DEF MomentInv, RulesInv, NotYet, RTypeOK, ReadUser
<1>2. MeNow(reader)' = MeNow(u) /\ MeNow(u) \in Me
  <2>1. MeNow(reader)' = MeNow(u)
    BY <1>1 DEF MeNow, RulesNow, RolesOf, PairsOf, ConditionsOf, PermissionsOf, DeduplicateRules, ExtractRules
  <2>. QED BY <2>1, MeType
<1>3. RulesInv'
  BY <1>1, <1>2 DEF MomentInv, RulesInv, RTypeOK, PermissionsOf, Levels
<1>4. LinksInv' /\ NotYet' /\ UpToDate'
  BY <1>1 DEF LinksInv, NotYet, UpToDate, MomentInv, ReadUser
<1>. QED BY <1>1, <1>2, <1>3, <1>4 DEF MomentInv, Reading

LEMMA AnswerKeeps == ASSUME MomentInv, ReadAttributes PROVE MomentInv'
<1>1. /\ RTypeOK /\ LinksInv /\ Reading /\ got \in Found /\ commits \in 0..MaxCommits
      /\ pc = "attributes" /\ pc' = "answered"
      /\ UNCHANGED <<present, removed, links, reader, got, moments, commits>>
  BY DEF MomentInv, RulesInv, RTypeOK, Reading, ReadAttributes
<1>2. answer' = MeDue
  BY <1>1, Deduplicated DEF ReadAttributes, ToMeResponse, MeDue, Due, RolesDue, PairsDue, ConditionsDue
<1>3. MeDue \in Me
  <2>1. PermissionsOf(got.pairs) \subseteq Permissions
    BY <1>1 DEF Found, PermissionsOf
  <2>. QED BY <1>1, <2>1, RulesAreRules DEF MeDue, Me, Due, RolesDue, PairsDue, Found
<1>4. commits <= 1 => StandsForOne(MeDue)
  <2>1. CASE commits = 0
    <3>1. MeDue = MeNow(reader) /\ MeNow(reader) \in moments
      BY <1>1, <2>1, DueNow DEF MomentInv
    <3>. QED BY <3>1 DEF StandsForOne, SameButRemoved
  <2>2. CASE commits = 1
    BY <1>1, <2>2 DEF MomentInv
  <2>. QED BY <1>1, <2>1, <2>2, RulesConstants
<1>5. commits' <= 1 => StandsForOne(answer)'
  BY <1>1, <1>2, <1>4 DEF StandsForOne, SameButRemoved, Unconditioned
<1>6. RulesInv' /\ LinksInv'
  BY <1>1, <1>2, <1>3 DEF MomentInv, RulesInv, RTypeOK, PermissionsOf, Levels, LinksInv
<1>7. NotYet'
  BY <1>1 DEF NotYet
<1>. QED BY <1>1, <1>5, <1>6, <1>7 DEF MomentInv, Reading

LEMMA FinishKeeps == ASSUME MomentInv, Finish PROVE MomentInv'
  BY RulesConstants
     DEF MomentInv, RulesInv, RTypeOK, LinksInv, NotYet, Reading, Finish, Nothing, Blank, Me, Found, Levels, PermissionsOf

LEMMA OthersKeep == ASSUME MomentInv, Others PROVE MomentInv'
<1>1. /\ RTypeOK /\ LinksInv /\ NotYet /\ commits \in 0..MaxCommits
      /\ UNCHANGED <<pc, reader, got, answer>> /\ Map!Next
  BY DEF MomentInv, RulesInv, RTypeOK, Others
<1>2. /\ present' \subseteq Map!Owners \cup Attributes
      /\ removed \subseteq removed' /\ removed' \subseteq Map!Owners \cup Attributes
      /\ links' \subseteq Map!Links /\ LinksInv'
      /\ (\E o : Rewritten(o)) \/ (\E x : Erased(x))
  BY <1>1, OthersDo
<1>3. MeNow(reader)' \in Me
  <2>1. (MeNow(reader) \in Me)'
    BY MeTyped, PTL
  <2>. QED BY <2>1 DEF Me, RuleSet
<1>4. CASE Reading
  <2>1. commits < MaxCommits /\ commits' = commits + 1 /\ moments' = moments \cup {MeNow(reader)'}
    BY <1>4 DEF Others, Reading
  <2>2. RulesInv' /\ NotYet'
    BY <1>1, <1>2, <1>3, <1>4, <2>1, RulesConstants
       DEF MomentInv, RulesInv, RTypeOK, PermissionsOf, NotYet, Reading
  <2>3. commits' = 1 => StandsForOne(MeDue)'
    <3>1. commits' = 1 => UpToDate /\ MeNow(reader) \in moments
      BY <1>1, <1>4, <2>1, RulesConstants DEF MomentInv
    <3>. QED BY <1>1, <1>2, <1>4, <2>1, <3>1, CommitSeen
  <2>. QED BY <1>1, <1>2, <1>4, <2>1, <2>2, <2>3, RulesConstants DEF MomentInv, Reading
<1>5. CASE ~Reading
  <2>1. commits' = commits /\ moments' = moments
    BY <1>5 DEF Others, Reading
  <2>2. RulesInv' /\ NotYet'
    BY <1>1, <1>2, <1>5, <2>1 DEF MomentInv, RulesInv, RTypeOK, PermissionsOf, NotYet
  <2>3. StandsForOne(answer) => StandsForOne(answer)'
    BY <1>1, <1>2, <2>1 DEF StandsForOne, SameButRemoved, Unconditioned
  <2>. QED BY <1>1, <1>2, <1>5, <2>1, <2>2, <2>3 DEF MomentInv, Reading
<1>. QED BY <1>4, <1>5

LEMMA MomentNext == MomentInv /\ [Next]_vars => MomentInv'
<1>1. ASSUME MomentInv, UNCHANGED vars PROVE MomentInv'
  <2>1. UNCHANGED <<present, removed, links, pc, reader, got, answer, moments, commits>>
    BY <1>1 DEF vars
  <2>2. /\ MeNow(reader)' = MeNow(reader)
        /\ RolesDue' = RolesDue /\ PairsDue' = PairsDue
    BY <2>1 DEF MeNow, RulesNow, RolesOf, PairsOf, ConditionsOf, PermissionsOf, DeduplicateRules, ExtractRules,
                PairsDue, RolesDue
  <2>3. ConditionsDue' = ConditionsDue
    BY <2>1, <2>2 DEF ConditionsDue, ConditionsOf, PermissionsOf
  <2>4. Due' = Due
    BY <2>1, <2>2, <2>3 DEF Due, NormalizeConditions, RulesFor, PermissionsOf, ConditionsIn
  <2>5. RulesInv' /\ LinksInv' /\ NotYet'
    BY <1>1, <2>1 DEF MomentInv, RulesInv, RTypeOK, PermissionsOf, LinksInv, NotYet
  <2>6. UpToDate => UpToDate'
    BY <2>1 DEF UpToDate, RolesOf, PairsOf, ConditionsOf, PermissionsOf
  <2>7. /\ StandsForOne(MeDue) => StandsForOne(MeDue)'
        /\ StandsForOne(answer) => StandsForOne(answer)'
    BY <2>1, <2>2, <2>4 DEF StandsForOne, SameButRemoved, Unconditioned, MeDue
  <2>. QED BY <1>1, <2>1, <2>2, <2>5, <2>6, <2>7 DEF MomentInv, Reading
<1>. QED
  BY <1>1, UserKeeps, ReadKeeps, AnswerKeeps, FinishKeeps, OthersKeep DEF Next

(***************************************************************************)
(* What is read stays below what was read before.  Concerns userSelect     *)
(* (prisma-users.repository.ts).                                           *)
(***************************************************************************)
THEOREM RulesInvariant == Spec => []RulesInv
<1>1. MomentInv => RulesInv
  BY DEF MomentInv
<1>. QED BY <1>1, MomentInit, MomentNext, PTL DEF Spec

(***************************************************************************)
(* The role names and rules of an answer of me stand for one moment of its *)
(* read if one request at most committed meanwhile, but for the name of a  *)
(* role and the conditions of a permission that were deleted.  Concerns    *)
(* userSelect and AuthMapper.toMeResponse.                                 *)
(***************************************************************************)
THEOREM AnswersStandForOne == Spec => []AnswerIsOneMoment
<1>1. MomentInv => AnswerIsOneMoment
  BY DEF MomentInv, AnswerIsOneMoment, StandsForOne, SameButRemoved
<1>. QED BY <1>1, MomentInit, MomentNext, PTL DEF Spec
=============================================================================
