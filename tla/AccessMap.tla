----------------------------- MODULE AccessMap -----------------------------
(***************************************************************************)
(* What users, roles, permissions and attributes promise: one step changes *)
(* the members of one owner, all of them present afterwards, or adds a row *)
(* with its members, or removes one together with its links.  A user that  *)
(* is removed keeps its links, and an update under way may still change    *)
(* them.                                                                   *)
(***************************************************************************)
CONSTANTS Users, Roles, Permissions, Attributes

Owners == Users \cup Roles \cup Permissions
Members(o) == IF o \in Users THEN Roles ELSE IF o \in Roles THEN Permissions ELSE Attributes
Links == UNION {{o} \X Members(o) : o \in Owners}
Touching(x) == {l \in Links : x \in {l[1], l[2]}}

VARIABLES present, removed, links

vars == <<present, removed, links>>

Init ==
    /\ present \in SUBSET (Owners \cup Attributes) /\ removed = {}
    /\ links \in SUBSET {l \in Links : l[1] \in present /\ l[2] \in present}

CreateAttribute(a) ==
    /\ a \notin present \cup removed
    /\ present' = present \cup {a}
    /\ UNCHANGED <<removed, links>>

Create(o) == \E S \in SUBSET (Members(o) \cap present) :
    /\ o \notin present \cup removed
    /\ present' = present \cup {o}
    /\ links' = links \cup ({o} \X S)
    /\ UNCHANGED removed

Replace(o) == \E S \in SUBSET (Members(o) \cap present) :
    /\ o \in present \/ (o \in Users /\ o \in removed)
    /\ links' = {l \in links : l[1] # o} \cup ({o} \X S)
    /\ UNCHANGED <<present, removed>>

Remove(x) ==
    /\ x \in present
    /\ present' = present \ {x} /\ removed' = removed \cup {x}
    /\ links' = IF x \in Users THEN links ELSE links \ Touching(x)

Next ==
    \/ \E a \in Attributes : CreateAttribute(a)
    \/ \E o \in Owners : Create(o) \/ Replace(o)
    \/ \E x \in Owners \cup Attributes : Remove(x)

Spec == Init /\ [][Next]_vars
=============================================================================
