--------------------------- MODULE TokenFamilies ---------------------------
(***************************************************************************)
(* What refresh-token rotation promises: a login opens a family with one   *)
(* usable token, a rotation replaces that token by one never handed out    *)
(* before, and a revocation ends families for good.  Nothing else happens  *)
(* to a family, so no token is ever usable twice and none comes back.      *)
(***************************************************************************)
EXTENDS FiniteSets

CONSTANTS Tokens,   \* a family is named by the token that opened it
          NoToken

VARIABLES
    issued,         \* tokens handed out so far
    current         \* the usable token of each family

TFTypeOK ==
    /\ issued \subseteq Tokens
    /\ current \in [Tokens -> Tokens \cup {NoToken}]

TFInit ==
    /\ issued = {}
    /\ current = [f \in Tokens |-> NoToken]

Open(f) ==
    /\ f \notin issued
    /\ issued' = issued \cup {f}
    /\ current' = [current EXCEPT ![f] = f]

Rotate(f, t) ==
    /\ current[f] # NoToken
    /\ t \notin issued
    /\ issued' = issued \cup {t}
    /\ current' = [current EXCEPT ![f] = t]

Revoke(F) ==
    /\ current' = [f \in Tokens |-> IF f \in F THEN NoToken ELSE current[f]]
    /\ UNCHANGED issued

TFNext ==
    \/ \E f \in Tokens : Open(f)
    \/ \E f, t \in Tokens : Rotate(f, t)
    \/ \E F \in SUBSET Tokens : Revoke(F)

TFSpec == TFInit /\ [][TFNext]_<<issued, current>>
=============================================================================
