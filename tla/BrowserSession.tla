--------------------------- MODULE BrowserSession ---------------------------
(***************************************************************************)
(* A browser with several tabs and one cookie jar against the endpoints    *)
(* under /auth.  The jar changes when an answer arrives, not when the      *)
(* server decides: answers overtake each other and get lost.               *)
(*                                                                         *)
(* What the server decides about refresh tokens is TokenFamilies, which    *)
(* Sessions implements: a refresh rotates the usable token of its family   *)
(* or fails, and one token is rotated once.                                *)
(***************************************************************************)
EXTENDS TokenFamilies, SequencesExt

CONSTANT Tabs

ASSUME NoTokenAssumption == NoToken \notin Tokens

VARIABLES
    family, parent,   \* token_family and the token it replaced
    jar,
    tab               \* what each tab waits for; Idle: nothing

vars == <<issued, current, family, parent, jar, tab>>

Ops == {"login", "refresh", "logout", "password"}
Cookies == [access : Tokens \cup {NoToken}, refresh : Tokens \cup {NoToken}]
NoCookies == [access |-> NoToken, refresh |-> NoToken]

(***************************************************************************)
(* An answer sets both cookies, clears both or has no Set-Cookie at all,   *)
(* and was decided by a guard, by the handler or by an error under it.     *)
(***************************************************************************)
Deciders == {"guard", "handler", "error"}
Answers == [kind : {"set", "clear", "none"}, token : Tokens \cup {NoToken}, by : Deciders]
Set(t) == [kind |-> "set", token |-> t, by |-> "handler"]
Clear(by) == [kind |-> "clear", token |-> NoToken, by |-> by]
NoCookie(by) == [kind |-> "none", token |-> NoToken, by |-> by]

Idle == [op |-> "none"]
Waiting == [op : Ops, sent : Cookies, saw : Cookies, served : BOOLEAN, answer : Answers]

BTypeOK ==
    /\ TFTypeOK
    /\ family \in [Tokens -> Tokens \cup {NoToken}]
    /\ parent \in [Tokens -> Tokens \cup {NoToken}]
    /\ jar \in Cookies
    /\ tab \in [Tabs -> Waiting \cup {Idle}]

Init ==
    /\ TFInit
    /\ family = [t \in Tokens |-> NoToken] /\ parent = [t \in Tokens |-> NoToken]
    /\ jar = NoCookies
    /\ tab = [b \in Tabs |-> Idle]

-----------------------------------------------------------------------------
Path == [login |-> <<"auth", "login">>, refresh |-> <<"auth", "refresh">>,
         logout |-> <<"auth", "logout">>, password |-> <<"auth", "me", "password">>]

AccessPath == <<>>
RefreshPath == <<"auth", "refresh">>

(***************************************************************************)
(* A browser sends the cookies whose path is a prefix of the request's.    *)
(***************************************************************************)
Attached(op) ==
    [access |-> IF IsPrefix(AccessPath, Path[op]) THEN jar.access ELSE NoToken,
     refresh |-> IF IsPrefix(RefreshPath, Path[op]) THEN jar.refresh ELSE NoToken]

Send(b, op) ==
    /\ tab[b] = Idle
    /\ tab' = [tab EXCEPT ![b] = [op |-> op, sent |-> Attached(op), saw |-> jar,
                                  served |-> FALSE, answer |-> NoCookie("guard")]]
    /\ UNCHANGED <<issued, current, family, parent, jar>>

Asked(b, op) == tab[b] # Idle /\ tab[b].op = op /\ ~tab[b].served
Reply(b, a) == tab' = [tab EXCEPT ![b].served = TRUE, ![b].answer = a]
KeepFamilies == UNCHANGED <<issued, current, family, parent>>

\* Mutant of NewToken: the family of the replaced token is not passed on.
NewTokenOfItsOwn(t, f, p) ==
    /\ family' = [family EXCEPT ![t] = t]
    /\ parent' = [parent EXCEPT ![t] = p]
NewToken(t, f, p) ==
    /\ family' = [family EXCEPT ![t] = f]
    /\ parent' = [parent EXCEPT ![t] = p]

Login(b) ==
    /\ Asked(b, "login") /\ UNCHANGED jar
    /\ \/ \E t \in Tokens : Open(t) /\ NewToken(t, t, NoToken)
                           /\ \E a \in {Set(t), NoCookie("error")} : Reply(b, a)
       \/ KeepFamilies /\ Reply(b, NoCookie("handler"))   \* credentials refused

\* Mutant of Usable: any token of a live family can be rotated.
UsableInFamily(t) == t # NoToken /\ current[family[t]] # NoToken
Usable(t) == t # NoToken /\ current[family[t]] = t

(***************************************************************************)
(* The guard wants the cookie; behind it, whatever refresh throws clears   *)
(* both cookies, be it a refusal or an error of the database, which may    *)
(* even have committed the rotation.                                       *)
(***************************************************************************)
MissingCookie(b) ==
    /\ Asked(b, "refresh") /\ tab[b].sent.refresh = NoToken
    /\ KeepFamilies /\ UNCHANGED jar
    /\ Reply(b, NoCookie("guard"))

Refresh(b) ==
    LET t == tab[b].sent.refresh IN
    /\ Asked(b, "refresh") /\ t # NoToken /\ UNCHANGED jar
    /\ \/ ~Usable(t) /\ KeepFamilies /\ Reply(b, Clear("handler"))
       \/ KeepFamilies /\ Reply(b, Clear("error"))
       \/ /\ Usable(t)
          /\ \E s \in Tokens :
               /\ Rotate(family[t], s) /\ NewToken(s, family[t], t)
               /\ \E a \in {Set(s), Clear("error")} : Reply(b, a)

(***************************************************************************)
(* The guards of the other routes want a valid access token and answer     *)
(* without touching cookies, and so do the handlers when they throw.       *)
(***************************************************************************)
Refused(b) ==
    /\ Asked(b, "logout") \/ Asked(b, "password")
    /\ KeepFamilies /\ UNCHANGED jar
    /\ \E by \in {"guard", "error"} : Reply(b, NoCookie(by))

\* Mutant of Logout: the cookies are cleared whatever comes of it.
LogoutClearingAnyway(b) ==
    /\ Asked(b, "logout") /\ tab[b].sent.access # NoToken /\ UNCHANGED jar
    /\ UNCHANGED <<issued, current, family, parent>>
    /\ Reply(b, Clear("handler"))
\* Without the cookie it throws 401 before anything is cleared.
Logout(b) ==
    LET t == tab[b].sent.refresh IN
    /\ Asked(b, "logout") /\ tab[b].sent.access # NoToken /\ UNCHANGED jar
    /\ Revoke({f \in Tokens : t # NoToken /\ current[f] = t})
    /\ UNCHANGED <<family, parent>>
    /\ Reply(b, IF t = NoToken THEN NoCookie("handler") ELSE Clear("handler"))

(***************************************************************************)
(* The rotations and logins a password change may miss are in Sessions;    *)
(* here it is one step.                                                    *)
(***************************************************************************)
ChangePassword(b) ==
    /\ Asked(b, "password") /\ tab[b].sent.access # NoToken /\ UNCHANGED jar
    /\ Revoke(Tokens) /\ UNCHANGED <<family, parent>>
    /\ \E a \in {Clear("handler"), NoCookie("error")} : Reply(b, a)

-----------------------------------------------------------------------------
Applied(a) ==
    CASE a.kind = "set" -> [access |-> a.token, refresh |-> a.token]
      [] a.kind = "clear" -> NoCookies
      [] a.kind = "none" -> jar

Receive(b) ==
    /\ tab[b] # Idle /\ tab[b].served
    /\ jar' = Applied(tab[b].answer)
    /\ tab' = [tab EXCEPT ![b] = Idle]
    /\ KeepFamilies

Lose(b) ==
    /\ tab[b] # Idle
    /\ tab' = [tab EXCEPT ![b] = Idle]
    /\ KeepFamilies /\ UNCHANGED jar

Expire(cookie) ==
    /\ jar' = [jar EXCEPT ![cookie] = NoToken]
    /\ KeepFamilies /\ UNCHANGED tab

(***************************************************************************)
(* Another device changes the password, an administrator deletes the user, *)
(* a token expires.                                                        *)
(***************************************************************************)
RevokeElsewhere(F) == Revoke(F) /\ UNCHANGED <<family, parent, jar, tab>>

Next ==
    \/ \E b \in Tabs :
         \/ \E op \in Ops : Send(b, op)
         \/ Login(b) \/ MissingCookie(b) \/ Refresh(b) \/ Refused(b) \/ Logout(b) \/ ChangePassword(b)
         \/ Receive(b) \/ Lose(b)
    \/ \E cookie \in {"access", "refresh"} : Expire(cookie)
    \/ \E F \in SUBSET Tokens : RevokeElsewhere(F)

Spec == Init /\ [][Next]_vars
=============================================================================
