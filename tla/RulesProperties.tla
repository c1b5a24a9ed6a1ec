-------------------------- MODULE RulesProperties --------------------------
(***************************************************************************)
(* What an answer read over several snapshots is worth.                    *)
(***************************************************************************)
EXTENDS Rules

(***************************************************************************)
(* Every level reads only below the rows of the level above it.  Concerns  *)
(* roleSelect and permissionSelect.                                        *)
(***************************************************************************)
RulesInv ==
    /\ RTypeOK
    /\ \A x \in got.pairs : x[1] \in got.roles
    /\ \A x \in got.conditions : x[1] \in PermissionsOf(got.pairs)
    /\ pc # "idle" => moments # {}

(***************************************************************************)
(* If at most one other request committed during the read, the role names  *)
(* and the rules of the answer are together what one moment would have     *)
(* answered, although the levels come from different snapshots; but for    *)
(* what was deleted meanwhile: such a role may still be named, without any *)
(* rule of its own, and such a permission may have lost its conditions.    *)
(* Concerns userSelect and AuthMapper.toMeResponse against the             *)
(* transactions of AccessControl.                                          *)
(***************************************************************************)
SameButRemoved(roles, m) == m \subseteq roles /\ roles \ m \subseteq removed
Unconditioned(r) == r.permission \in removed /\ r.conditions = {}

AnswerIsOneMoment ==
    pc = "answered" /\ commits <= 1 =>
      \E m \in moments :
        /\ SameButRemoved(answer.roles, m.roles)
        /\ {r.permission : r \in answer.rules} = {r.permission : r \in m.rules}
        /\ \A r \in answer.rules : r \in m.rules \/ Unconditioned(r)

=============================================================================
