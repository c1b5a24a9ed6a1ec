------------------------------ MODULE Accounts ------------------------------
(***************************************************************************)
(* What the readers of accounts may rely on: an account that stands has a  *)
(* password and a version, a new password comes with the next version and  *)
(* no version is skipped or used twice, and an account that has ended      *)
(* never stands again.  A token signed with a version is therefore worth   *)
(* something until the next change of the account, and never again.        *)
(***************************************************************************)
EXTENDS Naturals

CONSTANTS Users, Passwords,
          NoPassword

VARIABLES
    version,        \* of each account; 0 once it has ended
    password

AccountsInit ==
    /\ version = [u \in Users |-> 1]
    /\ password \in [Users -> Passwords]

Standing(u) == version[u] # 0

Renew(u, pw) ==
    /\ Standing(u)
    /\ version' = [version EXCEPT ![u] = @ + 1]
    /\ password' = [password EXCEPT ![u] = pw]

End(u) ==
    /\ Standing(u)
    /\ version' = [version EXCEPT ![u] = 0]
    /\ password' = [password EXCEPT ![u] = NoPassword]

AccountsNext == \E u \in Users : End(u) \/ \E pw \in Passwords : Renew(u, pw)

AccountsSpec == AccountsInit /\ [][AccountsNext]_<<version, password>>
=============================================================================
