------------------------ MODULE BrowserSessionProofs ------------------------
(***************************************************************************)
(* BrowserInv, and from it that the jar follows the rotations and that no  *)
(* session is lost quietly, for any number of tabs and tokens.  What the   *)
(* server does to families and what it answers is one lemma (ServerKeeps): *)
(* tokens keep their ancestors, new ones descend from what the request     *)
(* sent, and nothing that is useless becomes usable.                       *)
(***************************************************************************)
EXTENDS BrowserSessionProperties, TLAPS

Fit(b) == tab[b] # Idle =>
    /\ Asking(b) /\ Clearing(b)
    /\ tab[b].answer.token # NoToken => Bringing(b, tab[b].answer.token)

LEMMA FitByTab == AnswersFit <=> \A b \in Tabs : Fit(b)
  BY DEF AnswersFit, Fit

\* The shape of what is sent and answered (auth-cookie.service.ts:19-45).
LEMMA Shapes ==
    /\ NoCookies \in Cookies /\ \A b : Idle # b \/ b \notin Waiting
    /\ \A by \in Deciders : /\ Clear(by) \in Answers /\ NoCookie(by) \in Answers
                            /\ Clear(by).token = NoToken /\ NoCookie(by).token = NoToken
                            /\ Clear(by).kind = "clear" /\ NoCookie(by).kind = "none"
                            /\ Clear(by).by = by /\ NoCookie(by).by = by
                            /\ ~Refusal(NoCookie(by))
    /\ \A t \in Tokens : /\ Set(t) \in Answers /\ Set(t).token = t
                         /\ Set(t).kind = "set" /\ Set(t).by = "handler"
                         /\ ~Refusal(Set(t))
    /\ ~Refusal(Clear("error"))
    /\ "guard" \in Deciders /\ "handler" \in Deciders /\ "error" \in Deciders
    /\ NoToken \notin Tokens
  BY NoTokenAssumption
     DEF NoCookies, Cookies, Idle, Waiting, Deciders, Clear, NoCookie, Set, Answers, Ops, Refusal

LEMMA TabRecord ==
    ASSUME BTypeOK, NEW b \in Tabs, tab[b] # Idle
    PROVE  /\ tab[b] \in Waiting /\ tab[b].op \in Ops
           /\ tab[b].sent \in Cookies /\ tab[b].saw \in Cookies
           /\ tab[b].saw.refresh \in Tokens \cup {NoToken}
           /\ tab[b].sent.refresh \in Tokens \cup {NoToken}
           /\ tab[b].served \in BOOLEAN /\ tab[b].answer \in Answers
           /\ tab[b].answer.token \in Tokens \cup {NoToken}
           /\ tab[b].answer.kind \in {"set", "clear", "none"}
  BY DEF BTypeOK, Waiting, Cookies, Answers

LEMMA Replied ==
    ASSUME BTypeOK, NEW b \in Tabs, tab[b] # Idle, NEW a \in Answers, Reply(b, a)
    PROVE  /\ tab' \in [Tabs -> Waiting \cup {Idle}]
           /\ tab'[b] # Idle /\ tab'[b].served /\ tab'[b].answer = a
           /\ tab'[b].op = tab[b].op /\ tab'[b].sent = tab[b].sent /\ tab'[b].saw = tab[b].saw
           /\ \A c \in Tabs \ {b} : tab'[c] = tab[c]
<1>1. tab[b] \in Waiting
  BY TabRecord
<1>2. DEFINE w == [tab[b] EXCEPT !.served = TRUE, !.answer = a]
<1>3. w \in Waiting /\ w.served /\ w.answer = a /\ w.op = tab[b].op /\ w.sent = tab[b].sent
      /\ w.saw = tab[b].saw
  BY <1>1 DEF Waiting
<1>4. tab' = [tab EXCEPT ![b] = w]
  BY DEF Reply, BTypeOK
<1>5. w # Idle
  BY <1>3, Shapes
<1>. HIDE DEF w
<1>. QED BY <1>3, <1>4, <1>5 DEF BTypeOK

-----------------------------------------------------------------------------
(* An answer and what it says of families that may have grown.             *)

\* What a step of the server leaves true of the tokens there are
\* (refresh-tokens.repository.ts: rows are inserted and revoked).
Grows(b) ==
    /\ issued \subseteq issued'
    /\ \A t \in issued : family'[t] = family[t] /\ parent'[t] = parent[t]
    /\ \A t \in issued : current'[family[t]] = t => current[family[t]] = t
    /\ \A x \in issued' \ issued : parent'[x] \in {NoToken, tab[b].sent.refresh}
    /\ \A x \in issued' : parent'[x] \in issued \cup {NoToken}

\* The answer fits what the step did.
Decided(b, a) ==
    /\ a.kind = "set" <=> a.token # NoToken
    /\ a.token # NoToken =>
         /\ a.token \in issued' \ issued
         /\ \/ tab[b].op = "login" /\ parent'[a.token] = NoToken
            \/ tab[b].op = "refresh" /\ parent'[a.token] = tab[b].sent.refresh
                                     /\ parent'[a.token] # NoToken
         /\ jar.refresh # NoToken /\ family'[jar.refresh] = family'[a.token] =>
              parent'[a.token] = jar.refresh
    /\ Refusal(a) /\ tab[b].saw.refresh # NoToken =>
         current'[family[tab[b].saw.refresh]] # tab[b].saw.refresh

LEMMA ServerKeeps ==
    ASSUME BrowserInv, NEW b \in Tabs, tab[b] # Idle, ~tab[b].served,
           NEW a \in Answers, Reply(b, a), UNCHANGED jar, issued' \subseteq Tokens,
           Grows(b), Decided(b, a)
    PROVE  JarLeads' /\ AnswersFit'
<1>1. /\ BTypeOK /\ FamiliesAreChains /\ JarLeads /\ \A c \in Tabs : Fit(c)
      /\ issued \subseteq Tokens /\ NoToken \notin issued'
  BY FitByTab, Shapes DEF BrowserInv, BTypeOK, TFTypeOK
<1>2. /\ tab'[b] # Idle /\ tab'[b].served /\ tab'[b].answer = a
      /\ tab'[b].op = tab[b].op /\ tab'[b].sent = tab[b].sent /\ tab'[b].saw = tab[b].saw
      /\ \A c \in Tabs \ {b} : tab'[c] = tab[c]
  BY <1>1, Replied
<1>3. \A c \in Tabs : tab'[c] # Idle <=> tab[c] # Idle
  BY <1>2
<1>4. \A c \in Tabs : tab[c] # Idle => tab'[c].saw = tab[c].saw /\ tab'[c].sent = tab[c].sent
                                       /\ tab'[c].op = tab[c].op
  BY <1>2
<1>5. \A c \in Tabs : tab[c] # Idle =>
         /\ tab[c].saw.refresh \in issued \cup {NoToken}
         /\ tab[c].sent.refresh \in {NoToken, tab[c].saw.refresh}
  BY <1>1 DEF Fit, Asking
\* A token that nobody sent gets no successor.
<1>6. ASSUME NEW x \in issued, Childless(x), tab[b].saw.refresh # x
      PROVE  Childless(x)'
  <2>1. ASSUME NEW y \in issued' PROVE parent'[y] # x
    <3>1. CASE y \in issued
      BY <1>6, <3>1 DEF Childless, Grows
    <3>2. CASE y \notin issued
      BY <1>1, <1>5, <1>6, <3>2 DEF Grows
    <3>. QED BY <3>1, <3>2
  <2>. QED BY <2>1 DEF Childless
<1>7. ASSUME NEW x \in issued' \ issued
      PROVE  Childless(x)'
  BY <1>1, <1>7 DEF Childless, Grows
<1>8. JarLeads'
  <2>1. jar'.refresh \in issued' \cup {NoToken}
    BY <1>1 DEF JarLeads, Grows
  <2>2. ASSUME jar.refresh # NoToken, NEW x \in issued', parent'[x] = jar.refresh
        PROVE  Childless(x)' /\ \A c \in Tabs : tab'[c] # Idle => tab'[c].saw.refresh # x
    <3>1. CASE x \in issued
      <4>1. parent[x] = jar.refresh
        BY <2>2, <3>1 DEF Grows
      <4>2. Childless(x) /\ \A c \in Tabs : tab[c] # Idle => tab[c].saw.refresh # x
        BY <1>1, <2>2, <3>1, <4>1 DEF JarLeads
      <4>. QED BY <1>3, <1>4, <1>6, <3>1, <4>2
    <3>2. CASE x \notin issued
      <4>1. Childless(x)'
        BY <1>7, <3>2
      <4>2. x # NoToken
        BY <1>1
      <4>. QED BY <1>3, <1>4, <1>5, <3>2, <4>1, <4>2
    <3>. QED BY <3>1, <3>2
  <2>. QED BY <1>1, <2>1, <2>2 DEF JarLeads
<1>9. ASSUME NEW c \in Tabs, tab'[c] # Idle
      PROVE  Fit(c)'
  <2>1. tab[c] # Idle /\ tab'[c].saw = tab[c].saw /\ tab'[c].sent = tab[c].sent /\ tab'[c].op = tab[c].op
    BY <1>3, <1>4, <1>9
  <2>2. Asking(c)'
    <3>1. tab'[c].saw.refresh \in issued' \cup {NoToken} /\ tab'[c].sent.refresh \in {NoToken, tab'[c].saw.refresh}
      BY <1>5, <2>1 DEF Grows
    <3>2. CASE c = b
      BY <1>2, <3>1, <3>2 DEF Asking, Decided
    <3>3. CASE c # b
      BY <1>1, <1>2, <2>1, <3>1, <3>3 DEF Asking, Fit
    <3>. QED BY <3>2, <3>3
  <2>3. Clearing(c)'
    <3>1. ASSUME Refusal(tab'[c].answer), tab[c].saw.refresh # NoToken
          PROVE  current'[family[tab[c].saw.refresh]] # tab[c].saw.refresh
      <4>1. CASE c = b
        BY <1>2, <3>1, <4>1 DEF Decided
      <4>2. CASE c # b
        <5>1. Refusal(tab[c].answer)
          BY <1>2, <3>1, <4>2
        <5>2. current[family[tab[c].saw.refresh]] # tab[c].saw.refresh
          BY <1>1, <2>1, <3>1, <5>1 DEF Fit, Clearing
        <5>. QED BY <1>5, <2>1, <3>1, <5>2 DEF Grows
      <4>. QED BY <4>1, <4>2
    <3>2. tab[c].saw.refresh # NoToken => family'[tab[c].saw.refresh] = family[tab[c].saw.refresh]
      BY <1>5, <2>1 DEF Grows
    <3>. QED BY <2>1, <3>1, <3>2 DEF Clearing, Refusal
  <2>5. ASSUME NEW s, s = tab'[c].answer.token, s # NoToken
        PROVE  Bringing(c, s)'
    <3>1. CASE c = b
      <4>1. /\ s = a.token /\ s \in issued' \ issued /\ Childless(s)'
        BY <1>2, <1>7, <2>5, <3>1 DEF Decided
      <4>2. jar'.refresh # s
        BY <1>1, <4>1 DEF JarLeads
      <4>3. \A d \in Tabs : tab'[d] # Idle => tab'[d].saw.refresh # s /\ (d # c => tab'[d].answer.token # s)
        <5>1. ASSUME NEW d \in Tabs, tab'[d] # Idle, d # c
              PROVE  tab'[d].answer.token # s
          <6>1. tab'[d] = tab[d] /\ tab[d] # Idle
            BY <1>2, <3>1, <5>1
          <6>2. tab[d].answer.token # NoToken => tab[d].answer.token \in issued
            BY <1>1, <6>1 DEF Fit, Bringing
          <6>. QED BY <2>5, <4>1, <6>1, <6>2
        <5>2. ASSUME NEW d \in Tabs, tab'[d] # Idle
              PROVE  tab'[d].saw.refresh # s
          BY <1>3, <1>4, <1>5, <2>5, <4>1, <5>2
        <5>. QED BY <5>1, <5>2
      <4>4. \/ tab'[c].op = "login" /\ parent'[s] = NoToken
            \/ tab'[c].op = "refresh" /\ parent'[s] = tab'[c].saw.refresh /\ parent'[s] # NoToken
        BY <1>5, <2>1, <3>1, <4>1, <2>5 DEF Decided
      <4>5. jar'.refresh # NoToken /\ family'[jar'.refresh] = family'[s] => parent'[s] = jar'.refresh
        BY <2>5, <4>1 DEF Decided
      <4>. QED BY <4>1, <4>2, <4>3, <4>4, <4>5 DEF Bringing
    <3>2. CASE c # b
      <4>1. s = tab[c].answer.token /\ Bringing(c, s)
        BY <1>1, <1>2, <2>1, <2>5, <3>2 DEF Fit
      <4>2. s \in issued /\ Childless(s) /\ tab[b].saw.refresh # s
        BY <4>1 DEF Bringing
      <4>3. s \in issued' /\ Childless(s)' /\ parent'[s] = parent[s] /\ family'[s] = family[s]
        BY <1>6, <4>2 DEF Grows
      <4>4. jar.refresh # NoToken => family'[jar.refresh] = family[jar.refresh]
        BY <1>1 DEF JarLeads, Grows
      <4>5. ASSUME NEW d \in Tabs, tab'[d] # Idle
            PROVE  tab'[d].saw.refresh # s /\ (d # c => tab'[d].answer.token # s)
        <5>1. tab[d] # Idle /\ tab'[d].saw = tab[d].saw
          BY <1>3, <1>4, <4>5
        <5>2. CASE d = b
          BY <1>2, <4>1, <4>2, <2>5, <5>1, <5>2 DEF Bringing, Decided
        <5>3. CASE d # b
          BY <1>2, <4>1, <5>1, <5>3 DEF Bringing
        <5>. QED BY <5>2, <5>3
      <4>. QED BY <2>1, <4>1, <4>3, <4>4, <4>5 DEF Bringing
    <3>. QED BY <3>1, <3>2
  <2>. QED BY <2>2, <2>3, <2>5 DEF Fit
<1>10. ASSUME NEW c \in Tabs
       PROVE  Fit(c)'
  BY <1>9 DEF Fit
<1>. QED BY <1>8, <1>10, FitByTab DEF AnswersFit, Fit

-----------------------------------------------------------------------------
(* The three things a server does to families.                             *)

\* A login opens a family of its own (auth.service.ts:226-241).
LEMMA OpenKeeps ==
    ASSUME BrowserInv, NEW t \in Tokens, Open(t), NewToken(t, t, NoToken)
    PROVE  /\ FamiliesAreChains' /\ issued' \subseteq Tokens
           /\ issued' = issued \cup {t} /\ t \notin issued
           /\ \A x \in issued : family'[x] = family[x] /\ parent'[x] = parent[x]
           /\ family'[t] = t /\ parent'[t] = NoToken
           /\ \A x \in issued : current'[family[x]] = current[family[x]]
           /\ \A x \in issued' : parent'[x] \in issued \cup {NoToken}
<1>1. BTypeOK /\ TFTypeOK /\ FamiliesAreChains /\ NoToken \notin Tokens
  BY Shapes DEF BrowserInv, BTypeOK
<1>2. /\ issued' = issued \cup {t} /\ t \notin issued /\ issued \subseteq Tokens
      /\ current' = [current EXCEPT ![t] = t]
  BY <1>1 DEF Open, TFTypeOK
<1>3. \A x \in issued : family'[x] = family[x] /\ parent'[x] = parent[x]
  BY <1>1, <1>2 DEF NewToken, BTypeOK
<1>4. family'[t] = t /\ parent'[t] = NoToken
  BY <1>1 DEF NewToken, BTypeOK
<1>5. \A x \in issued : family[x] \in issued /\ parent[x] \in issued \cup {NoToken}
  BY <1>1 DEF FamiliesAreChains
<1>6. \A x \in issued : Childless(x)' <=> Childless(x)
  BY <1>1, <1>2, <1>3, <1>4, <1>5 DEF Childless
<1>7. Childless(t)'
  BY <1>1, <1>2, <1>3, <1>4, <1>5 DEF Childless
<1>8. \A x \in issued' :
         /\ family'[x] \in issued'
         /\ IF parent'[x] = NoToken THEN family'[x] = x
            ELSE parent'[x] \in issued' /\ family'[parent'[x]] = family'[x]
  <2>1. ASSUME NEW x \in issued
        PROVE  /\ family'[x] \in issued'
               /\ IF parent'[x] = NoToken THEN family'[x] = x
                  ELSE parent'[x] \in issued' /\ family'[parent'[x]] = family'[x]
    BY <1>1, <1>2, <1>3 DEF FamiliesAreChains
  <2>. QED BY <1>2, <1>4, <2>1
<1>9. ASSUME NEW x \in issued', NEW y \in issued', family'[x] = family'[y], Childless(x)', Childless(y)'
      PROVE  x = y
  <2>1. x = t <=> y = t
    BY <1>2, <1>3, <1>4, <1>5, <1>9
  <2>2. CASE x # t
    BY <1>1, <1>2, <1>3, <1>6, <1>9, <2>1, <2>2 DEF FamiliesAreChains
  <2>. QED BY <2>1, <2>2
<1>10. ASSUME NEW f \in Tokens, current'[f] # NoToken
       PROVE  current'[f] \in issued' /\ family'[current'[f]] = f /\ Childless(current[f])'
  <2>1. CASE f = t
    <3>1. current'[f] = t
      BY <1>1, <1>2, <2>1 DEF TFTypeOK
    <3>. QED BY <1>2, <1>4, <1>7, <2>1, <3>1 DEF Childless
  <2>2. CASE f # t
    <3>1. current'[f] = current[f]
      BY <1>1, <1>2, <2>2 DEF TFTypeOK
    <3>2. current[f] \in issued /\ family[current[f]] = f /\ Childless(current[f])
      BY <1>1, <1>10, <3>1 DEF FamiliesAreChains
    <3>. QED BY <1>2, <1>3, <1>6, <3>1, <3>2 DEF Childless
  <2>. QED BY <2>1, <2>2
<1>11. \A x \in issued : current'[family[x]] = current[family[x]]
  BY <1>1, <1>2, <1>5 DEF TFTypeOK
<1>. QED BY <1>1, <1>2, <1>3, <1>4, <1>5, <1>8, <1>9, <1>10, <1>11 DEF FamiliesAreChains

\* A rotation puts a new token in the place of the usable one (auth.service.ts:267-302).
LEMMA RotateKeeps ==
    ASSUME BrowserInv, NEW t \in issued, Usable(t), NEW s \in Tokens,
           Rotate(family[t], s), NewToken(s, family[t], t)
    PROVE  /\ FamiliesAreChains' /\ issued' \subseteq Tokens
           /\ issued' = issued \cup {s} /\ s \notin issued /\ Childless(t)
           /\ \A x \in issued : family'[x] = family[x] /\ parent'[x] = parent[x]
           /\ family'[s] = family[t] /\ parent'[s] = t
           /\ \A x \in issued : current'[family[x]] = x => current[family[x]] = x
           /\ \A x \in issued' : parent'[x] \in issued \cup {NoToken}
<1>1. BTypeOK /\ TFTypeOK /\ FamiliesAreChains /\ NoToken \notin Tokens /\ t # NoToken /\ current[family[t]] = t
  BY Shapes DEF BrowserInv, BTypeOK, Usable
<1>2. /\ issued' = issued \cup {s} /\ s \notin issued /\ issued \subseteq Tokens
      /\ current' = [current EXCEPT ![family[t]] = s]
  BY <1>1 DEF Rotate, TFTypeOK
<1>3. \A x \in issued : family'[x] = family[x] /\ parent'[x] = parent[x]
  BY <1>1, <1>2 DEF NewToken, BTypeOK
<1>4. family'[s] = family[t] /\ parent'[s] = t
  BY <1>1 DEF NewToken, BTypeOK
<1>5. \A x \in issued : family[x] \in issued /\ parent[x] \in issued \cup {NoToken}
  BY <1>1 DEF FamiliesAreChains
<1>6. Childless(t) /\ family[t] \in Tokens
  BY <1>1, <1>2, <1>5 DEF FamiliesAreChains
<1>7. \A x \in issued : Childless(x)' <=> Childless(x) /\ x # t
  BY <1>1, <1>2, <1>3, <1>4, <1>5 DEF Childless
<1>8. Childless(s)'
  BY <1>1, <1>2, <1>3, <1>4, <1>5 DEF Childless
<1>9. \A x \in issued' :
         /\ family'[x] \in issued'
         /\ IF parent'[x] = NoToken THEN family'[x] = x
            ELSE parent'[x] \in issued' /\ family'[parent'[x]] = family'[x]
  <2>1. ASSUME NEW x \in issued
        PROVE  /\ family'[x] \in issued'
               /\ IF parent'[x] = NoToken THEN family'[x] = x
                  ELSE parent'[x] \in issued' /\ family'[parent'[x]] = family'[x]
    BY <1>1, <1>2, <1>3 DEF FamiliesAreChains
  <2>. QED BY <1>1, <1>2, <1>3, <1>4, <1>5, <2>1
<1>10. ASSUME NEW x \in issued', NEW y \in issued', family'[x] = family'[y], Childless(x)', Childless(y)'
       PROVE  x = y
  <2>1. ASSUME NEW z \in issued, Childless(z)', family[z] = family[t] PROVE FALSE
    BY <1>1, <1>6, <1>7, <2>1 DEF FamiliesAreChains
  <2>2. CASE x \in issued /\ y \in issued
    BY <1>1, <1>3, <1>7, <1>10, <2>2 DEF FamiliesAreChains
  <2>. QED BY <1>2, <1>3, <1>4, <1>10, <2>1, <2>2
<1>11. ASSUME NEW f \in Tokens, current'[f] # NoToken
       PROVE  current'[f] \in issued' /\ family'[current'[f]] = f /\ Childless(current[f])'
  <2>1. CASE f = family[t]
    <3>1. current'[f] = s
      BY <1>1, <1>2, <1>6, <2>1 DEF TFTypeOK
    <3>. QED BY <1>2, <1>4, <1>8, <2>1, <3>1 DEF Childless
  <2>2. CASE f # family[t]
    <3>1. current'[f] = current[f]
      BY <1>1, <1>2, <2>2 DEF TFTypeOK
    <3>2. current[f] \in issued /\ family[current[f]] = f /\ Childless(current[f])
      BY <1>1, <1>11, <3>1 DEF FamiliesAreChains
    <3>. QED BY <1>2, <1>3, <1>7, <2>2, <3>1, <3>2 DEF Childless
  <2>. QED BY <2>1, <2>2
<1>12. \A x \in issued : current'[family[x]] = x => current[family[x]] = x
  BY <1>1, <1>2, <1>5 DEF TFTypeOK
<1>. QED BY <1>1, <1>2, <1>3, <1>4, <1>5, <1>6, <1>9, <1>10, <1>11, <1>12 DEF FamiliesAreChains

\* A revocation ends families and keeps every ancestry
\* (refresh-tokens.repository.ts:65-105).
LEMMA RevokeKeeps ==
    ASSUME BrowserInv, NEW F, Revoke(F), UNCHANGED <<family, parent>>
    PROVE  /\ FamiliesAreChains' /\ issued' = issued
           /\ \A x \in issued : current'[family[x]] = x => current[family[x]] = x /\ family[x] \notin F
<1>1. BTypeOK /\ TFTypeOK /\ FamiliesAreChains /\ NoToken \notin Tokens
  BY Shapes DEF BrowserInv, BTypeOK
<1>2. issued' = issued /\ issued \subseteq Tokens /\ \A x \in issued : family[x] \in Tokens
  BY <1>1 DEF Revoke, TFTypeOK, FamiliesAreChains
<1>3. \A f \in Tokens : current'[f] = IF f \in F THEN NoToken ELSE current[f]
  BY DEF Revoke
<1>4. \A x : Childless(x)' <=> Childless(x)
  BY <1>2 DEF Childless
<1>5. ASSUME NEW f \in Tokens, current'[f] # NoToken
      PROVE  current'[f] \in issued' /\ family'[current'[f]] = f /\ Childless(current[f])'
  <2>1. current'[f] = current[f] /\ current[f] \in issued /\ family[current[f]] = f /\ Childless(current[f])
    BY <1>1, <1>3, <1>5 DEF FamiliesAreChains
  <2>. QED BY <1>2, <2>1 DEF Childless
<1>6. \A x, y \in issued : family[x] = family[y] /\ Childless(x)' /\ Childless(y)' => x = y
  BY <1>1, <1>4 DEF FamiliesAreChains
<1>7. FamiliesAreChains'
  BY <1>1, <1>2, <1>5, <1>6 DEF FamiliesAreChains
<1>. QED BY <1>1, <1>2, <1>3, <1>7

-----------------------------------------------------------------------------
(* The steps of the server.                                                *)

\* An answer without an effect on families.
LEMMA ReplyKeeps ==
    ASSUME BrowserInv, NEW b \in Tabs, tab[b] # Idle, ~tab[b].served, NEW a \in Answers,
           Reply(b, a), UNCHANGED <<issued, current, family, parent, jar>>,
           a.kind # "set", a.token = NoToken,
           Refusal(a) /\ tab[b].saw.refresh # NoToken =>
              current[family[tab[b].saw.refresh]] # tab[b].saw.refresh
    PROVE  BrowserInv'
<1>1. BTypeOK /\ TFTypeOK /\ FamiliesAreChains
  BY DEF BrowserInv, BTypeOK
<1>2. BTypeOK'
  BY <1>1, Replied DEF BTypeOK, TFTypeOK
<1>3. FamiliesAreChains'
  BY <1>1 DEF FamiliesAreChains, Childless
<1>4. Grows(b) /\ Decided(b, a) /\ issued' \subseteq Tokens
  BY <1>1 DEF Grows, Decided, FamiliesAreChains, TFTypeOK
<1>. QED BY <1>2, <1>3, <1>4, ServerKeeps DEF BrowserInv

LEMMA RevokeReplyKeeps ==
    ASSUME BrowserInv, NEW b \in Tabs, tab[b] # Idle, ~tab[b].served, NEW a \in Answers,
           Reply(b, a), NEW F, Revoke(F), UNCHANGED <<family, parent, jar>>,
           a.kind # "set", a.token = NoToken,
           Refusal(a) /\ tab[b].saw.refresh # NoToken =>
              current'[family[tab[b].saw.refresh]] # tab[b].saw.refresh
    PROVE  BrowserInv'
<1>1. BTypeOK /\ TFTypeOK /\ FamiliesAreChains
  BY DEF BrowserInv, BTypeOK
<1>2. TFTypeOK'
  BY <1>1 DEF Revoke, TFTypeOK
<1>3. BTypeOK'
  BY <1>1, <1>2, Replied DEF BTypeOK
<1>4. /\ FamiliesAreChains' /\ issued' = issued
      /\ \A x \in issued : current'[family[x]] = x => current[family[x]] = x
  BY RevokeKeeps
<1>5. Grows(b) /\ Decided(b, a) /\ issued' \subseteq Tokens
  BY <1>1, <1>4 DEF Grows, Decided, FamiliesAreChains, TFTypeOK
<1>. QED BY <1>3, <1>4, <1>5, ServerKeeps DEF BrowserInv

LEMMA LoginKeeps == ASSUME BrowserInv, NEW b \in Tabs, Login(b) PROVE BrowserInv'
<1>1. BTypeOK /\ TFTypeOK /\ FamiliesAreChains /\ JarLeads /\ NoToken \notin Tokens
  BY Shapes DEF BrowserInv, BTypeOK
<1>2. tab[b] # Idle /\ tab[b].op = "login" /\ ~tab[b].served /\ UNCHANGED jar
  BY DEF Login, Asked
<1>3. CASE KeepFamilies /\ Reply(b, NoCookie("handler"))
  BY <1>2, <1>3, Shapes, ReplyKeeps DEF KeepFamilies, Clear, NoCookie
<1>4. ASSUME NEW t \in Tokens, Open(t), NewToken(t, t, NoToken),
             NEW a \in {Set(t), NoCookie("error")}, Reply(b, a)
      PROVE  BrowserInv'
  <2>1. /\ FamiliesAreChains' /\ issued' \subseteq Tokens
        /\ issued' = issued \cup {t} /\ t \notin issued
        /\ \A x \in issued : family'[x] = family[x] /\ parent'[x] = parent[x]
        /\ family'[t] = t /\ parent'[t] = NoToken
        /\ \A x \in issued : current'[family[x]] = current[family[x]]
        /\ \A x \in issued' : parent'[x] \in issued \cup {NoToken}
    BY <1>4, OpenKeeps
  <2>2. a \in Answers
    BY <1>4, Shapes
  <2>3. TFTypeOK'
    BY <1>1, <1>4 DEF Open, TFTypeOK
  <2>4. BTypeOK'
    BY <1>1, <1>2, <1>4, <2>2, <2>3, Replied DEF BTypeOK, NewToken
  <2>5. Grows(b)
    BY <2>1 DEF Grows
  <2>6. a.kind = "set" <=> a.token # NoToken
    BY <1>4, Shapes
  <2>7. ~Refusal(a)
    BY <1>4, Shapes
  <2>8. a.token # NoToken => a.token = t
    BY <1>4, Shapes
  <2>9. jar.refresh # NoToken => jar.refresh \in issued /\ family[jar.refresh] # t
    BY <1>1, <2>1 DEF JarLeads, FamiliesAreChains
  <2>10. Decided(b, a)
    BY <1>2, <2>1, <2>6, <2>7, <2>8, <2>9 DEF Decided
  <2>. QED BY <1>2, <1>4, <2>1, <2>2, <2>4, <2>5, <2>10, ServerKeeps DEF BrowserInv
<1>. QED BY <1>3, <1>4 DEF Login

LEMMA RefreshKeeps == ASSUME BrowserInv, NEW b \in Tabs, Refresh(b) PROVE BrowserInv'
<1>. DEFINE t == tab[b].sent.refresh
<1>1. /\ BTypeOK /\ TFTypeOK /\ FamiliesAreChains /\ JarLeads /\ NoToken \notin Tokens
      /\ tab[b] # Idle /\ tab[b].op = "refresh" /\ ~tab[b].served /\ UNCHANGED jar /\ t # NoToken
  BY Shapes DEF BrowserInv, BTypeOK, Refresh, Asked
<1>2. t = tab[b].saw.refresh /\ t \in issued
  BY <1>1, FitByTab DEF BrowserInv, Fit, Asking
<1>3. CASE ~Usable(t) /\ KeepFamilies /\ Reply(b, Clear("handler"))
  BY <1>1, <1>2, <1>3, Shapes, ReplyKeeps DEF KeepFamilies, Usable
<1>4. CASE KeepFamilies /\ Reply(b, Clear("error"))
  BY <1>1, <1>4, Shapes, ReplyKeeps DEF KeepFamilies
<1>5. ASSUME Usable(t), NEW s \in Tokens, Rotate(family[t], s), NewToken(s, family[t], t),
             NEW a \in {Set(s), Clear("error")}, Reply(b, a)
      PROVE  BrowserInv'
  <2>1. /\ FamiliesAreChains' /\ issued' \subseteq Tokens
        /\ issued' = issued \cup {s} /\ s \notin issued /\ Childless(t)
        /\ \A x \in issued : family'[x] = family[x] /\ parent'[x] = parent[x]
        /\ family'[s] = family[t] /\ parent'[s] = t
        /\ \A x \in issued : current'[family[x]] = x => current[family[x]] = x
        /\ \A x \in issued' : parent'[x] \in issued \cup {NoToken}
    BY <1>2, <1>5, RotateKeeps
  <2>2. a \in Answers /\ (a.kind = "set" <=> a.token # NoToken) /\ ~Refusal(a)
        /\ (a.token # NoToken => a.token = s)
    BY <1>5, Shapes
  <2>3. TFTypeOK'
    BY <1>1, <1>5 DEF Rotate, TFTypeOK
  <2>4. family[t] \in Tokens
    BY <1>1, <1>2 DEF FamiliesAreChains, TFTypeOK
  <2>5. BTypeOK'
    BY <1>1, <1>2, <1>5, <2>2, <2>3, <2>4, Replied DEF BTypeOK, NewToken, TFTypeOK
  <2>6. Grows(b)
    BY <1>2, <2>1 DEF Grows
  <2>7. ASSUME jar.refresh # NoToken, family[jar.refresh] = family[t]
        PROVE  jar.refresh = t
    <3>1. jar.refresh \in issued
      BY <1>1, <2>7 DEF JarLeads
    <3>2. ASSUME NEW x \in issued, parent[x] = jar.refresh PROVE FALSE
      <4>1. Childless(x) /\ x # t
        BY <1>1, <1>2, <2>7, <3>2 DEF JarLeads
      <4>2. family[x] = family[t]
        BY <1>1, <2>7, <3>2 DEF FamiliesAreChains
      <4>. QED BY <1>1, <1>2, <2>1, <4>1, <4>2 DEF FamiliesAreChains
    <3>. QED BY <1>1, <1>2, <2>1, <2>7, <3>1, <3>2 DEF FamiliesAreChains, Childless
  <2>8. jar.refresh # NoToken => family'[jar.refresh] = family[jar.refresh]
    BY <1>1, <2>1 DEF JarLeads
  <2>9. Decided(b, a)
    BY <1>1, <2>1, <2>2, <2>7, <2>8 DEF Decided
  <2>. QED BY <1>1, <1>5, <2>1, <2>2, <2>5, <2>6, <2>9, ServerKeeps DEF BrowserInv
<1>. QED BY <1>3, <1>4, <1>5 DEF Refresh

LEMMA OthersKeep ==
    ASSUME BrowserInv, NEW b \in Tabs,
           MissingCookie(b) \/ Refused(b) \/ Logout(b) \/ ChangePassword(b)
    PROVE  BrowserInv'
<1>1. /\ tab[b] # Idle /\ ~tab[b].served /\ UNCHANGED jar
  BY DEF MissingCookie, Refused, Logout, ChangePassword, Asked
<1>2. CASE MissingCookie(b)
  BY <1>1, <1>2, Shapes, ReplyKeeps DEF MissingCookie, KeepFamilies
<1>3. CASE Refused(b)
  BY <1>1, <1>3, Shapes, ReplyKeeps DEF Refused, KeepFamilies
<1>4. ASSUME NEW t \in Tokens \cup {NoToken}, t = tab[b].saw.refresh, t # NoToken
      PROVE  t \in issued /\ family[t] \in Tokens
  BY <1>1, <1>4, FitByTab DEF BrowserInv, Fit, Asking, FamiliesAreChains, BTypeOK, TFTypeOK
<1>5. CASE Logout(b)
  <2>. DEFINE t == tab[b].sent.refresh
              F == {f \in Tokens : t # NoToken /\ current[f] = t}
              a == IF t = NoToken THEN NoCookie("handler") ELSE Clear("handler")
  <2>1. Revoke(F) /\ UNCHANGED <<family, parent>> /\ Reply(b, a)
    BY <1>5 DEF Logout
  <2>2. a \in Answers /\ a.kind # "set" /\ a.token = NoToken
    BY Shapes
  <2>3. ASSUME Refusal(a), tab[b].saw.refresh # NoToken
        PROVE  current'[family[tab[b].saw.refresh]] # tab[b].saw.refresh
    <3>1. t = tab[b].saw.refresh /\ t # NoToken
      BY <1>1, <2>3, Shapes, FitByTab DEF BrowserInv, Fit, Asking
    <3>2. t \in issued /\ family[t] \in Tokens
      BY <1>1, <1>4, <3>1, TabRecord DEF BrowserInv
    <3>3. current'[family[t]] = t => current[family[t]] = t /\ family[t] \notin F
      BY <2>1, <3>2, RevokeKeeps
    <3>. QED BY <3>1, <3>2, <3>3
  <2>. HIDE DEF F, a
  <2>. QED BY <1>1, <2>1, <2>2, <2>3, RevokeReplyKeeps
<1>6. CASE ChangePassword(b)
  <2>1. PICK a \in {Clear("handler"), NoCookie("error")} : Reply(b, a)
    BY <1>6 DEF ChangePassword
  <2>2. a \in Answers /\ a.kind # "set" /\ a.token = NoToken
    BY <2>1, Shapes
  <2>3. Revoke(Tokens) /\ UNCHANGED <<family, parent>>
    BY <1>6 DEF ChangePassword
  <2>4. tab[b].saw.refresh # NoToken => current'[family[tab[b].saw.refresh]] # tab[b].saw.refresh
    BY <1>1, <1>4, <2>3, TabRecord, RevokeKeeps DEF BrowserInv
  <2>. QED BY <1>1, <2>1, <2>2, <2>3, <2>4, RevokeReplyKeeps
<1>. QED BY <1>2, <1>3, <1>5, <1>6

-----------------------------------------------------------------------------
(* The steps of the browser and of the world around it.                    *)

\* Families stay as they are, and with them what depends on them alone.
LEMMA FamiliesStay ==
    ASSUME BrowserInv, KeepFamilies
    PROVE  /\ TFTypeOK' /\ FamiliesAreChains'
           /\ family' \in [Tokens -> Tokens \cup {NoToken}]
           /\ parent' \in [Tokens -> Tokens \cup {NoToken}]
           /\ \A t : Childless(t)' <=> Childless(t)
  BY DEF KeepFamilies, BrowserInv, BTypeOK, TFTypeOK, FamiliesAreChains, Childless

\* A tab that goes on waiting while the jar stays or loses cookies
\* (auth-cookie.service.ts:36-45, and cookies that expire).
LEMMA FitStays ==
    ASSUME BrowserInv, KeepFamilies, jar'.refresh \in {NoToken, jar.refresh},
           NEW c \in Tabs, tab[c] # Idle, tab'[c] = tab[c],
           \A d \in Tabs : tab'[d] # Idle /\ tab'[d] # tab[d] =>
             tab'[d].saw.refresh \in {NoToken, jar.refresh} /\ tab'[d].answer.token = NoToken
    PROVE  Fit(c)'
<1>1. Fit(c)
  BY FitByTab DEF BrowserInv
<1>2. Asking(c)' /\ Clearing(c)'
  BY <1>1 DEF Fit, Asking, Clearing, KeepFamilies, NoCookie, Clear
<1>3. ASSUME NEW s, s = tab[c].answer.token, s # NoToken
      PROVE  Bringing(c, s)'
  <2>1. Bringing(c, s)
    BY <1>1, <1>3 DEF Fit
  <2>2. s \in issued' /\ Childless(s)' /\ parent'[s] = parent[s] /\ jar'.refresh # s
    BY <1>3, <2>1, FamiliesStay DEF Bringing, KeepFamilies
  <2>3. jar'.refresh # NoToken /\ family'[jar'.refresh] = family'[s] => parent'[s] = jar'.refresh
    BY <2>1 DEF Bringing, KeepFamilies
  <2>4. ASSUME NEW d \in Tabs, tab'[d] # Idle
        PROVE  tab'[d].saw.refresh # s /\ (d # c => tab'[d].answer.token # s)
    <3>1. CASE tab'[d] = tab[d]
      BY <2>1, <2>4, <3>1 DEF Bringing
    <3>2. CASE tab'[d] # tab[d]
      BY <1>3, <2>1, <2>4, <3>2 DEF Bringing
    <3>. QED BY <3>1, <3>2
  <2>. QED BY <2>1, <2>2, <2>3, <2>4 DEF Bringing
<1>. QED BY <1>2, <1>3 DEF Fit

LEMMA SendKeeps == ASSUME BrowserInv, NEW b \in Tabs, NEW op \in Ops, Send(b, op) PROVE BrowserInv'
<1>. DEFINE w == [op |-> op, sent |-> Attached(op), saw |-> jar,
                  served |-> FALSE, answer |-> NoCookie("guard")]
<1>1. /\ BTypeOK /\ JarLeads /\ tab[b] = Idle /\ UNCHANGED jar /\ KeepFamilies
      /\ tab' = [tab EXCEPT ![b] = w]
  BY DEF BrowserInv, Send, KeepFamilies
<1>2. Attached(op) \in Cookies /\ Attached(op).refresh \in {NoToken, jar.refresh}
  BY <1>1 DEF Attached, BTypeOK, Cookies
<1>3. w \in Waiting /\ w # Idle
  <2>1. jar \in Cookies /\ Attached(op) \in Cookies /\ NoCookie("guard") \in Answers
    BY <1>1, <1>2, Shapes DEF BTypeOK
  <2>2. w \in Waiting
    BY <2>1 DEF Waiting
  <2>. QED BY <2>2, Shapes
<1>4. /\ w.saw = jar /\ w.sent = Attached(op) /\ ~w.served /\ w.answer = NoCookie("guard")
      /\ w.answer.token = NoToken /\ w.answer.kind = "none" /\ ~Refusal(w.answer)
  BY Shapes
<1>. HIDE DEF w
<1>5. tab'[b] = w /\ \A c \in Tabs \ {b} : tab'[c] = tab[c]
  BY <1>1 DEF BTypeOK
<1>6. BTypeOK' /\ FamiliesAreChains'
  BY <1>1, <1>3, FamiliesStay DEF BTypeOK
<1>7. JarLeads'
  <2>1. ASSUME jar.refresh # NoToken, NEW x \in issued, parent[x] = jar.refresh
        PROVE  Childless(x)' /\ \A c \in Tabs : tab'[c] # Idle => tab'[c].saw.refresh # x
    <3>1. Childless(x) /\ \A c \in Tabs : tab[c] # Idle => tab[c].saw.refresh # x
      BY <1>1, <2>1 DEF JarLeads
    <3>2. x # jar.refresh
      BY <2>1, <3>1 DEF Childless
    <3>. QED BY <1>1, <1>4, <1>5, <3>1, <3>2, FamiliesStay
  <2>. QED BY <1>1, <2>1 DEF JarLeads, KeepFamilies
<1>8. ASSUME NEW c \in Tabs PROVE Fit(c)'
  <2>1. CASE c = b
    BY <1>1, <1>2, <1>4, <1>5, <2>1, Shapes DEF Fit, Asking, Clearing, JarLeads, KeepFamilies, Clear
  <2>2. CASE c # b
    BY <1>1, <1>4, <1>5, <2>2, FitStays DEF Fit
  <2>. QED BY <2>1, <2>2
<1>9. AnswersFit'
  BY <1>8 DEF AnswersFit, Fit
<1>. QED BY <1>6, <1>7, <1>9 DEF BrowserInv

\* A tab stops waiting, or a cookie goes.
LEMMA LeavesKeep ==
    ASSUME BrowserInv, KeepFamilies, jar' \in Cookies, jar'.refresh \in {NoToken, jar.refresh},
           jar'.access \in {NoToken, jar.access},
           tab' \in [Tabs -> Waiting \cup {Idle}], \A c \in Tabs : tab'[c] \in {Idle, tab[c]}
    PROVE  BrowserInv'
<1>1. BTypeOK' /\ FamiliesAreChains'
  BY FamiliesStay DEF BTypeOK
<1>2. JarLeads'
  <2>1. ASSUME jar'.refresh # NoToken, NEW x \in issued, parent[x] = jar'.refresh
        PROVE  Childless(x)' /\ \A c \in Tabs : tab'[c] # Idle => tab'[c].saw.refresh # x
    BY <2>1, FamiliesStay DEF BrowserInv, JarLeads
  <2>. QED BY <2>1 DEF BrowserInv, JarLeads, KeepFamilies
<1>3. ASSUME NEW c \in Tabs, tab'[c] # Idle PROVE Fit(c)'
  BY <1>3, FitStays
<1>. QED BY <1>1, <1>2, <1>3, FitByTab DEF BrowserInv, AnswersFit, Fit

\* Where the jar goes with an answer.
LEMMA Taken ==
    ASSUME BrowserInv, NEW b \in Tabs, tab[b] # Idle
    PROVE  LET a == tab[b].answer IN
           \/ a.kind = "set" /\ a.token # NoToken /\ Applied(a) = [access |-> a.token, refresh |-> a.token]
                /\ Bringing(b, a.token)
           \/ a.kind = "clear" /\ a.token = NoToken /\ Applied(a) = NoCookies
           \/ a.kind = "none" /\ a.token = NoToken /\ Applied(a) = jar
<1>1. tab[b].answer.kind \in {"set", "clear", "none"}
  BY TabRecord DEF BrowserInv
<1>2. /\ tab[b].answer.kind = "set" <=> tab[b].answer.token # NoToken
      /\ tab[b].answer.token # NoToken => Bringing(b, tab[b].answer.token)
  BY FitByTab DEF BrowserInv, Fit, Asking
<1>. QED BY <1>1, <1>2 DEF Applied

LEMMA ReceiveKeeps == ASSUME BrowserInv, NEW b \in Tabs, Receive(b) PROVE BrowserInv'
<1>1. /\ BTypeOK /\ KeepFamilies /\ tab[b] # Idle /\ tab' = [tab EXCEPT ![b] = Idle]
      /\ jar' = Applied(tab[b].answer)
  BY DEF BrowserInv, Receive
<1>2. /\ tab' \in [Tabs -> Waiting \cup {Idle}] /\ \A c \in Tabs : tab'[c] \in {Idle, tab[c]}
      /\ tab'[b] = Idle
  BY <1>1 DEF BTypeOK
<1>3. CASE tab[b].answer.kind \in {"clear", "none"}
  <2>1. jar' \in {NoCookies, jar}
    BY <1>1, <1>3, Taken
  <2>2. jar' \in Cookies /\ jar'.refresh \in {NoToken, jar.refresh} /\ jar'.access \in {NoToken, jar.access}
    BY <1>1, <2>1, Shapes DEF NoCookies, BTypeOK
  <2>. QED BY <1>1, <1>2, <2>2, LeavesKeep
<1>4. ASSUME NEW s, s = tab[b].answer.token, s # NoToken, jar' = [access |-> s, refresh |-> s],
             Bringing(b, s)
      PROVE  BrowserInv'
  <2>1. s \in Tokens /\ s \in issued /\ Childless(s)
    BY <1>1, <1>4 DEF Bringing, BTypeOK, TFTypeOK
  <2>2. BTypeOK' /\ FamiliesAreChains'
    BY <1>1, <1>2, <1>4, <2>1, FamiliesStay DEF BTypeOK, Cookies
  <2>3. JarLeads'
    BY <1>1, <1>4, <2>1 DEF JarLeads, KeepFamilies, Childless
  <2>4. ASSUME NEW c \in Tabs, tab'[c] # Idle
        PROVE  Fit(c)'
    <3>1. tab'[c] = tab[c] /\ c # b /\ tab[c] # Idle /\ Fit(c)
      BY <1>2, <2>4, FitByTab DEF BrowserInv
    <3>2. Asking(c)' /\ Clearing(c)'
      BY <1>1, <3>1 DEF Fit, Asking, Clearing, KeepFamilies, NoCookie, Clear
    <3>3. ASSUME NEW u, u = tab[c].answer.token, u # NoToken
          PROVE  Bringing(c, u)'
      <4>1. Bringing(c, u)
        BY <3>1, <3>3 DEF Fit
      <4>2. u # s
        BY <1>1, <1>4, <3>1, <3>3 DEF Bringing
      <4>3. family[u] # family[s]
        BY <2>1, <4>1, <4>2 DEF BrowserInv, FamiliesAreChains, Bringing
      <4>4. u \in issued' /\ Childless(u)' /\ jar'.refresh # u
        BY <1>1, <1>4, <4>1, <4>2, FamiliesStay DEF Bringing, KeepFamilies
      <4>5. ~(jar'.refresh # NoToken /\ family'[jar'.refresh] = family'[u])
        BY <1>1, <1>4, <4>3 DEF KeepFamilies
      <4>6. \A d \in Tabs : tab'[d] # Idle => tab'[d].saw.refresh # u /\ (d # c => tab'[d].answer.token # u)
        BY <1>2, <4>1 DEF Bringing
      <4>7. /\ parent'[u] = parent[u] /\ tab'[c] = tab[c]
        BY <1>1, <3>1 DEF KeepFamilies
      <4>. QED BY <4>1, <4>4, <4>5, <4>6, <4>7 DEF Bringing
    <3>. QED BY <3>1, <3>2, <3>3 DEF Fit
  <2>. QED BY <2>2, <2>3, <2>4, FitByTab DEF BrowserInv, AnswersFit, Fit
<1>. QED BY <1>1, <1>3, <1>4, Taken

LEMMA LoseKeeps == ASSUME BrowserInv, NEW b \in Tabs, Lose(b) PROVE BrowserInv'
  BY LeavesKeep DEF Lose, BrowserInv, BTypeOK, Cookies

LEMMA ExpireKeeps ==
    ASSUME BrowserInv, NEW cookie \in {"access", "refresh"}, Expire(cookie) PROVE BrowserInv'
<1>1. jar \in Cookies /\ tab \in [Tabs -> Waiting \cup {Idle}]
  BY DEF BrowserInv, BTypeOK
<1>2. jar' \in Cookies /\ jar'.refresh \in {NoToken, jar.refresh} /\ jar'.access \in {NoToken, jar.access}
  BY <1>1 DEF Expire, Cookies
<1>. QED BY <1>1, <1>2, LeavesKeep DEF Expire

LEMMA ElsewhereKeeps ==
    ASSUME BrowserInv, NEW F, RevokeElsewhere(F) PROVE BrowserInv'
<1>1. BTypeOK /\ TFTypeOK /\ Revoke(F) /\ UNCHANGED <<family, parent, jar, tab>>
  BY DEF BrowserInv, BTypeOK, RevokeElsewhere
<1>2. /\ FamiliesAreChains' /\ issued' = issued
      /\ \A x \in issued : current'[family[x]] = x => current[family[x]] = x
  BY <1>1, RevokeKeeps
<1>3. BTypeOK'
  BY <1>1 DEF BTypeOK, TFTypeOK, Revoke
<1>4. JarLeads'
  BY <1>1, <1>2 DEF BrowserInv, JarLeads, Childless
<1>5. ASSUME NEW c \in Tabs, tab[c] # Idle
      PROVE  Fit(c)'
  <2>1. Fit(c)
    BY FitByTab DEF BrowserInv
  <2>2. Asking(c)' /\ Clearing(c)'
    BY <1>1, <1>2, <1>5, <2>1 DEF Fit, Asking, Clearing, NoCookie, Clear
  <2>3. tab[c].answer.token # NoToken => Bringing(c, tab[c].answer.token)'
    BY <1>1, <1>2, <1>5, <2>1 DEF Fit, Bringing, Childless
  <2>. QED BY <1>1, <2>2, <2>3 DEF Fit
<1>. QED BY <1>1, <1>2, <1>3, <1>4, <1>5 DEF BrowserInv, AnswersFit, Fit

-----------------------------------------------------------------------------
LEMMA BrowserInit == Init => BrowserInv
  BY Shapes DEF Init, TFInit, BrowserInv, BTypeOK, TFTypeOK, FamiliesAreChains, JarLeads,
                AnswersFit, NoCookies, Cookies

LEMMA BrowserNext == BrowserInv /\ [Next]_vars => BrowserInv'
<1>. SUFFICES ASSUME BrowserInv, [Next]_vars PROVE BrowserInv'
  OBVIOUS
<1>1. CASE UNCHANGED vars
  BY <1>1 DEF vars, BrowserInv, BTypeOK, TFTypeOK, FamiliesAreChains, JarLeads, AnswersFit,
              Childless, Asking, Bringing, Clearing, NoCookie, Clear
<1>2. ASSUME NEW b \in Tabs, NEW op \in Ops, Send(b, op) PROVE BrowserInv'
  BY <1>2, SendKeeps
<1>3. ASSUME NEW b \in Tabs,
             \/ Login(b) \/ Refresh(b) \/ Receive(b) \/ Lose(b)
             \/ MissingCookie(b) \/ Refused(b) \/ Logout(b) \/ ChangePassword(b)
      PROVE  BrowserInv'
  BY <1>3, LoginKeeps, RefreshKeeps, ReceiveKeeps, LoseKeeps, OthersKeep
<1>4. ASSUME NEW cookie \in {"access", "refresh"}, Expire(cookie) PROVE BrowserInv'
  BY <1>4, ExpireKeeps
<1>5. ASSUME NEW F \in SUBSET Tokens, RevokeElsewhere(F) PROVE BrowserInv'
  BY <1>5, ElsewhereKeeps
<1>. QED BY <1>1, <1>2, <1>3, <1>4, <1>5 DEF Next

(***************************************************************************)
(* Families stay chains, the jar leads them, and answers fit, in whatever  *)
(* order they arrive.  Concerns setAuthCookies and clearAuthCookies.       *)
(***************************************************************************)
THEOREM BrowserInvariant == Spec => []BrowserInv
  BY BrowserInit, BrowserNext, PTL DEF Spec

-----------------------------------------------------------------------------
(* The two action properties.                                              *)

\* Only an answer brings tokens into the jar.
LEMMA JarChanges ==
    ASSUME BrowserInv, [Next]_vars, jar'.refresh \notin {NoToken, jar.refresh}
    PROVE  \E b \in Tabs : Receive(b)
<1>1. jar \in Cookies
  BY DEF BrowserInv, BTypeOK
<1>2. jar' # jar
  OBVIOUS
<1>3. ~(UNCHANGED vars)
  BY <1>2 DEF vars
<1>4. ASSUME NEW cookie \in {"access", "refresh"}, Expire(cookie) PROVE FALSE
  BY <1>1, <1>4 DEF Expire, Cookies
<1>. QED BY <1>2, <1>3, <1>4
         DEF Next, Send, Login, MissingCookie, Refresh, Refused, Logout, ChangePassword, Lose, RevokeElsewhere

(***************************************************************************)
(* A token in the jar gives way to its successor, or to another session by *)
(* a login or an answer to a request that another change of the jar has    *)
(* overtaken.  Concerns setAuthCookies.                                    *)
(***************************************************************************)
THEOREM JarIsLed == Spec => JarFollowsRotation
<1>1. ASSUME BrowserInv, [Next]_vars,
             jar.refresh # NoToken, jar'.refresh \notin {NoToken, jar.refresh}
      PROVE  IF family[jar'.refresh] = family[jar.refresh]
             THEN parent[jar'.refresh] = jar.refresh
             ELSE \E b \in Tabs : Answered(b) /\ (tab[b].op = "login" \/ Overlapped(b))
  <2>1. PICK b \in Tabs : Receive(b)
    BY <1>1, JarChanges
  <2>2. /\ tab[b] # Idle /\ tab[b].served /\ tab'[b] = Idle /\ jar' = Applied(tab[b].answer)
    BY <1>1, <2>1 DEF Receive, BrowserInv, BTypeOK
  <2>. DEFINE s == tab[b].answer.token
  <2>3. jar'.refresh = s /\ Bringing(b, s)
    <3>1. CASE tab[b].answer.kind = "set" /\ Bringing(b, s)
               /\ Applied(tab[b].answer) = [access |-> s, refresh |-> s]
      BY <2>2, <3>1
    <3>2. CASE Applied(tab[b].answer) = NoCookies
      BY <1>1, <2>2, <3>2 DEF NoCookies
    <3>3. CASE Applied(tab[b].answer) = jar
      BY <1>1, <2>2, <3>3
    <3>. QED BY <1>1, <2>2, <3>1, <3>2, <3>3, Taken
  <2>. HIDE DEF s
  <2>4. Answered(b)
    BY <2>2 DEF Answered
  <2>5. tab[b].op = "login" \/ (tab[b].op = "refresh" /\ parent[s] = tab[b].saw.refresh /\ s \in issued /\ parent[s] # NoToken)
    BY <2>3 DEF Bringing
  <2>6. CASE family[s] = family[jar.refresh]
    BY <1>1, <2>3, <2>6 DEF Bringing
  <2>7. CASE family[s] # family[jar.refresh]
    <3>1. parent[s] # NoToken => family[parent[s]] = family[s]
      BY <1>1, <2>3 DEF BrowserInv, FamiliesAreChains, Bringing
    <3>2. tab[b].op = "login" \/ Overlapped(b)
      BY <2>5, <2>7, <3>1 DEF Overlapped
    <3>. QED BY <2>3, <2>4, <2>7, <3>2
  <2>. QED BY <2>6, <2>7
<1>. QED BY <1>1, BrowserInvariant, PTL DEF Spec, JarFollowsRotation

\* What explains the loss of a session.
Explained ==
    \/ \E cookie \in {"access", "refresh"} : Expire(cookie)
    \/ \E b \in Tabs : tab[b] # Idle /\
         \/ ~Answered(b) /\ tab'[b] = Idle
         \/ ~tab[b].served /\ tab'[b] # Idle /\ tab'[b].answer.by = "error"
         \/ Answered(b) /\ (tab[b].answer.by = "error" \/ tab[b].op = "login" \/ Overlapped(b))

\* A session stays held if its token is not replaced and no tab gives it up.
LEMMA HeldOn ==
    ASSUME NEW f, Held(f), current'[f] = current[f], jar' = jar,
           \A b \in Tabs : tab[b] # Idle /\ tab[b].answer.token = current[f] => tab'[b] = tab[b]
    PROVE  Held(f)'
  BY DEF Held, Coming

\* Before it is served a request brings nothing (auth.controller.ts:72-92).
LEMMA HeldByServer ==
    ASSUME BrowserInv, NEW b \in Tabs, tab[b] # Idle, ~tab[b].served, NEW a \in Answers, Reply(b, a),
           jar' = jar, NEW f, Held(f), current'[f] = current[f]
    PROVE  Held(f)'
<1>1. tab[b].answer.token = NoToken
  BY Shapes, FitByTab DEF BrowserInv, Fit, Asking
<1>2. current[f] # NoToken
  BY DEF Held
<1>3. \A c \in Tabs \ {b} : tab'[c] = tab[c]
  BY Replied DEF BrowserInv
<1>. QED BY <1>1, <1>2, <1>3, HeldOn

\* The handler or the browser, and what it takes from a session.
LEMMA LostByServer ==
    ASSUME BrowserInv, NEW b \in Tabs, NEW f \in Tokens, Held(f), Orphan(f)',
           \/ Login(b) \/ Refresh(b) \/ MissingCookie(b) \/ Refused(b) \/ Logout(b) \/ ChangePassword(b)
    PROVE  Explained
<1>1. /\ BTypeOK /\ TFTypeOK /\ FamiliesAreChains /\ NoToken \notin Tokens
      /\ tab[b] # Idle /\ ~tab[b].served /\ jar' = jar
      /\ ~Held(f)' /\ current'[f] # NoToken /\ current[f] # NoToken
  BY Shapes DEF BrowserInv, BTypeOK, Login, Refresh, MissingCookie, Refused, Logout, ChangePassword, Asked,
                Orphan, Held
<1>2. current[f] \in issued /\ family[current[f]] = f /\ f \in issued
  BY <1>1 DEF FamiliesAreChains
<1>3. ASSUME NEW a \in Answers, Reply(b, a), current'[f] = current[f] PROVE FALSE
  BY <1>1, <1>3, HeldByServer
<1>4. ASSUME NEW F, NEW a \in Answers, Reply(b, a), Revoke(F) PROVE FALSE
  BY <1>1, <1>3, <1>4 DEF Revoke
<1>5. CASE MissingCookie(b) \/ Refused(b)
  BY <1>3, <1>5, Shapes DEF MissingCookie, Refused, KeepFamilies
<1>6. CASE Logout(b)
  BY <1>4, <1>6, Shapes DEF Logout
<1>7. CASE ChangePassword(b)
  BY <1>4, <1>7, Shapes DEF ChangePassword
<1>8. CASE Login(b)
  <2>1. CASE KeepFamilies /\ Reply(b, NoCookie("handler"))
    BY <1>3, <2>1, Shapes DEF KeepFamilies
  <2>2. ASSUME NEW t \in Tokens, Open(t), NEW a \in {Set(t), NoCookie("error")}, Reply(b, a) PROVE FALSE
    <3>1. a \in Answers /\ f # t
      BY <1>2, <2>2, Shapes DEF Open
    <3>2. current'[f] = current[f]
      BY <1>1, <2>2, <3>1 DEF Open, TFTypeOK
    <3>. QED BY <1>3, <2>2, <3>1, <3>2
  <2>. QED BY <1>8, <2>1, <2>2 DEF Login
<1>9. CASE Refresh(b)
  <2>. DEFINE t == tab[b].sent.refresh
  <2>1. CASE KeepFamilies /\ (Reply(b, Clear("handler")) \/ Reply(b, Clear("error")))
    BY <1>3, <2>1, Shapes DEF KeepFamilies
  <2>2. ASSUME NEW s \in Tokens, Rotate(family[t], s), NEW a \in {Set(s), Clear("error")}, Reply(b, a)
        PROVE  Explained
    <3>1. a \in Answers /\ tab'[b] # Idle /\ tab'[b].answer = a
      BY <1>1, <2>2, Shapes, Replied
    <3>2. CASE f # family[t]
      <4>1. current'[f] = current[f]
        BY <1>1, <2>2, <3>2 DEF Rotate, TFTypeOK
      <4>. QED BY <1>3, <2>2, <3>1, <4>1
    <3>3. CASE f = family[t] /\ a = Set(s)
      <4>1. current'[f] = s
        BY <1>1, <2>2, <3>3 DEF Rotate, TFTypeOK
      <4>2. Held(f)'
        BY <1>1, <3>1, <3>3, <4>1, Shapes DEF Held, Coming
      <4>. QED BY <1>1, <4>2
    <3>4. CASE a = Clear("error")
      BY <1>1, <3>1, <3>4, Shapes DEF Explained
    <3>. QED BY <2>2, <3>2, <3>3, <3>4
  <2>. QED BY <1>9, <2>1, <2>2 DEF Refresh
<1>. QED BY <1>5, <1>6, <1>7, <1>8, <1>9

\* An answer takes a usable token out of the jar only if something came between.
LEMMA LostByAnswer ==
    ASSUME BrowserInv, NEW b \in Tabs, NEW f \in Tokens, Held(f), Orphan(f)', Receive(b)
    PROVE  Explained
<1>1. /\ BTypeOK /\ TFTypeOK /\ FamiliesAreChains /\ tab[b] # Idle /\ tab[b].served /\ tab'[b] = Idle
      /\ jar' = Applied(tab[b].answer) /\ current' = current
      /\ \A c \in Tabs \ {b} : tab'[c] = tab[c]
      /\ ~Held(f)' /\ current[f] # NoToken
  BY DEF BrowserInv, BTypeOK, Receive, KeepFamilies, Orphan, Held
<1>2. Answered(b)
  BY <1>1 DEF Answered
<1>3. SUFFICES ASSUME tab[b].answer.by # "error", tab[b].op # "login", tab[b].saw = jar
               PROVE  FALSE
  BY <1>1, <1>2 DEF Explained, Overlapped
<1>. DEFINE a == tab[b].answer
            c == current[f]
<1>4. \A d \in Tabs \ {b} : tab[d] # Idle => tab[d].answer.token # c
  BY <1>1 DEF Held, Coming
<1>5. jar.refresh = c \/ a.token = c
  BY <1>1, <1>4 DEF Held, Coming
<1>6. jar'.refresh # c
  BY <1>1 DEF Held
<1>7. CASE a.kind = "set" /\ a.token # NoToken /\ Applied(a) = [access |-> a.token, refresh |-> a.token]
           /\ Bringing(b, a.token)
  <2>1. jar.refresh = c /\ parent[a.token] = c /\ a.token \in issued
    BY <1>1, <1>3, <1>5, <1>6, <1>7 DEF Bringing
  <2>. QED BY <1>1, <2>1 DEF FamiliesAreChains, Childless
<1>8. CASE a.kind = "clear" /\ a.token = NoToken
  <2>1. a \in Answers /\ jar.refresh = c
    BY <1>1, <1>5, <1>8, TabRecord
  <2>2. Refusal(a)
    BY <1>3, <1>8 DEF Refusal
  <2>3. Clearing(b) /\ family[c] = f
    BY <1>1, FitByTab DEF BrowserInv, Fit, FamiliesAreChains
  <2>. QED BY <1>1, <1>3, <2>1, <2>2, <2>3 DEF Clearing
<1>9. CASE a.kind = "none" /\ a.token = NoToken /\ Applied(a) = jar
  BY <1>1, <1>5, <1>6, <1>9
<1>. QED BY <1>1, <1>7, <1>8, <1>9, Taken

\* Nothing but the server issues tokens, and nothing but a tab gives one up.
LEMMA LostOnlySo ==
    ASSUME BrowserInv, [Next]_vars, NEW f \in Tokens, Held(f), Orphan(f)'
    PROVE  Explained
<1>1. BTypeOK /\ TFTypeOK /\ ~Held(f)' /\ current'[f] # NoToken /\ current[f] # NoToken
  BY DEF BrowserInv, BTypeOK, Held, Orphan
<1>2. CASE UNCHANGED vars
  BY <1>1, <1>2, HeldOn DEF vars
<1>3. ASSUME NEW b \in Tabs, NEW op \in Ops, Send(b, op) PROVE FALSE
  <2>1. \A c \in Tabs : tab[c] # Idle => tab'[c] = tab[c]
    BY <1>1, <1>3 DEF Send, BTypeOK
  <2>2. current' = current /\ jar' = jar
    BY <1>3 DEF Send
  <2>. QED BY <1>1, <2>1, <2>2, HeldOn
<1>4. ASSUME NEW b \in Tabs, Lose(b) PROVE Explained
  <2>1. tab[b] # Idle /\ tab'[b] = Idle /\ jar' = jar /\ current' = current
        /\ \A c \in Tabs \ {b} : tab'[c] = tab[c]
    BY <1>1, <1>4 DEF Lose, KeepFamilies, BTypeOK
  <2>2. CASE ~Answered(b)
    BY <2>1, <2>2 DEF Explained
  <2>3. CASE Answered(b)
    <3>1. Receive(b)
      BY <1>4, <2>3 DEF Lose, Receive, Answered
    <3>. QED BY <3>1, LostByAnswer
  <2>. QED BY <2>2, <2>3
<1>5. ASSUME NEW cookie \in {"access", "refresh"}, Expire(cookie) PROVE Explained
  BY <1>5 DEF Explained
<1>6. ASSUME NEW F \in SUBSET Tokens, RevokeElsewhere(F) PROVE FALSE
  <2>1. current'[f] = current[f] /\ jar' = jar /\ tab' = tab
    BY <1>1, <1>6 DEF RevokeElsewhere, Revoke, TFTypeOK
  <2>. QED BY <1>1, <2>1, HeldOn
<1>. QED BY <1>2, <1>3, <1>4, <1>5, <1>6, LostByServer, LostByAnswer DEF Next

(***************************************************************************)
(* A usable session leaves a browser only for one of the reasons the       *)
(* property lists.  Concerns the catch of AuthController.refresh.          *)
(***************************************************************************)
THEOREM SessionsKept == Spec => SessionsAreNotLostQuietly
<1>1. BrowserInv /\ [Next]_vars => \A f \in Tokens : Held(f) /\ Orphan(f)' => Explained
  BY LostOnlySo
<1>. QED BY <1>1, BrowserInvariant, PTL DEF Spec, SessionsAreNotLostQuietly, Explained
=============================================================================
