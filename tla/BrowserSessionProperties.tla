---------------------- MODULE BrowserSessionProperties ----------------------
(***************************************************************************)
(* How far a jar of cookies may be from the sessions it stands for.        *)
(***************************************************************************)
EXTENDS BrowserSession

(***************************************************************************)
(* Families are chains: one token of each has no successor, and it is the  *)
(* one that is usable, if any is.  Concerns refresh.                       *)
(***************************************************************************)
Childless(t) == \A x \in issued : parent[x] # t

FamiliesAreChains ==
    /\ \A t \in issued :
         /\ family[t] \in issued
         /\ IF parent[t] = NoToken THEN family[t] = t
            ELSE parent[t] \in issued /\ family[parent[t]] = family[t]
    /\ \A t, u \in issued : family[t] = family[u] /\ Childless(t) /\ Childless(u) => t = u
    /\ \A f \in Tokens : current[f] # NoToken =>
         current[f] \in issued /\ family[current[f]] = f /\ Childless(current[f])

(***************************************************************************)
(* The jar never goes back: the successor of its token has not been in it, *)
(* so nobody has rotated that one or could.                                *)
(***************************************************************************)
JarLeads ==
    /\ jar.refresh \in issued \cup {NoToken}
    /\ jar.refresh # NoToken =>
         \A x \in issued : parent[x] = jar.refresh =>
           Childless(x) /\ \A b \in Tabs : tab[b] # Idle => tab[b].saw.refresh # x
    /\ NoToken \in {jar.access, jar.refresh} \/ jar.access = jar.refresh

(***************************************************************************)
(* A token on its way is in one answer only, new to the browser, and takes *)
(* the place of its predecessor if it finds its family in the jar at all.  *)
(* Concerns setAuthCookies.                                                *)
(***************************************************************************)
Asking(b) ==
    /\ tab[b].saw.refresh \in issued \cup {NoToken}
    /\ tab[b].sent.refresh \in {NoToken, tab[b].saw.refresh}
    /\ ~tab[b].served => tab[b].answer = NoCookie("guard")
    /\ tab[b].answer.kind = "set" <=> tab[b].answer.token # NoToken

Bringing(b, s) ==
    /\ s \in issued /\ Childless(s)
    /\ \/ tab[b].op = "login" /\ parent[s] = NoToken
       \/ tab[b].op = "refresh" /\ parent[s] = tab[b].saw.refresh /\ parent[s] # NoToken
    /\ jar.refresh # s
    /\ jar.refresh # NoToken /\ family[jar.refresh] = family[s] => parent[s] = jar.refresh
    /\ \A c \in Tabs : tab[c] # Idle =>
         tab[c].saw.refresh # s /\ (c # b => tab[c].answer.token # s)

\* A refusal clears the jar only of a token that is of no use any more.
Refusal(a) == a.kind = "clear" /\ a.by # "error"
Clearing(b) ==
    Refusal(tab[b].answer) /\ tab[b].saw.refresh # NoToken =>
      current[family[tab[b].saw.refresh]] # tab[b].saw.refresh

AnswersFit == \A b \in Tabs : tab[b] # Idle =>
    /\ Asking(b) /\ Clearing(b)
    /\ tab[b].answer.token # NoToken => Bringing(b, tab[b].answer.token)

(***************************************************************************)
(* The inductive invariant.                                                *)
(***************************************************************************)
BrowserInv == BTypeOK /\ FamiliesAreChains /\ JarLeads /\ AnswersFit

Answered(b) == tab[b] # Idle /\ tab[b].served /\ tab'[b] = Idle /\ jar' = Applied(tab[b].answer)

(***************************************************************************)
(* The answer comes to a jar that another answer, or an expiry, changed    *)
(* since the request was sent.                                             *)
(***************************************************************************)
Overlapped(b) == tab[b].saw # jar

(***************************************************************************)
(* A jar that holds a refresh token gets another one of the same session   *)
(* only from the rotation of that very token, and one of another session   *)
(* only from a login, or from an answer to a request sent before the jar   *)
(* changed.  Concerns refresh and setAuthCookies with any answers reordered *)
(* or lost.                                                                *)
(***************************************************************************)
JarFollowsRotation ==
    [][ jar.refresh # NoToken /\ jar'.refresh \notin {NoToken, jar.refresh} =>
          IF family[jar'.refresh] = family[jar.refresh]
          THEN parent[jar'.refresh] = jar.refresh
          ELSE \E b \in Tabs : Answered(b) /\ (tab[b].op = "login" \/ Overlapped(b))
      ]_vars

(***************************************************************************)
(* The session f is usable and the browser has its token, or will have it  *)
(* when an answer arrives.                                                 *)
(***************************************************************************)
Coming(t) == \E b \in Tabs : tab[b] # Idle /\ tab[b].answer.token = t
Held(f) == current[f] # NoToken /\ (jar.refresh = current[f] \/ Coming(current[f]))
Orphan(f) == current[f] # NoToken /\ ~Held(f)

(***************************************************************************)
(* A browser loses a session the server still honours only because a       *)
(* cookie expired, an answer was lost, the server failed, the user logged  *)
(* in again, or two requests of the browser overlapped.  In particular a   *)
(* browser that sends one request at a time keeps its session over every   *)
(* refusal.  Concerns the catch of AuthController.refresh.                 *)
(***************************************************************************)
SessionsAreNotLostQuietly ==
    [][ \A f \in Tokens : Held(f) /\ Orphan(f)' =>
          \/ \E cookie \in {"access", "refresh"} : Expire(cookie)
          \/ \E b \in Tabs : tab[b] # Idle /\
               \/ ~Answered(b) /\ tab'[b] = Idle
               \/ ~tab[b].served /\ tab'[b] # Idle /\ tab'[b].answer.by = "error"
               \/ Answered(b) /\ (tab[b].answer.by = "error" \/ tab[b].op = "login" \/ Overlapped(b))
      ]_vars

(***************************************************************************)
(* A logout that passes the guard and meets no error ends the session the  *)
(* browser is in, "Đăng xuất phiên hiện tại" (auth.controller.ts:95).      *)
(***************************************************************************)
LogoutEndsSession ==
    [][ \A b \in Tabs :
          Asked(b, "logout") /\ tab'[b] # Idle /\ tab'[b].answer.by = "handler" =>
            LET t == tab[b].saw.refresh IN t # NoToken => current'[family[t]] # t ]_vars
=============================================================================
