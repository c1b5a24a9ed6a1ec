---------------------------- MODULE MediaProofs ----------------------------
(***************************************************************************)
(* MediaInv for any number of departments, ports and requests and any      *)
(* delays.  A request is traced to the moment at which it read the         *)
(* department; a URL to the request that signed it; an object to a URL.    *)
(* What carries the trace through every step is that stood only grows      *)
(* (LaterStanding) and that no step but a Tick moves the clock.            *)
(***************************************************************************)
EXTENDS MediaProperties, FiniteSetTheorems, TLAPS

\* What RequestsStood says of one request.
Traced(q) ==
    /\ q.at <= now /\ now <= q.at + Lag
    /\ q.op \in FileOps => q.port \in Ports /\ q.dep = ports[q.port]
    /\ q.op = "port" => q.port \in Ports
    /\ q.op = "remove" <=> q.name # None
    /\ q.pc = "act" /\ q.op \in FileOps \cup {"port"} => Stood(q.dep, q.code, q.at, 0)
    /\ q.op \in {"update", "delete"} =>
         /\ departments[q.dep] # None
         /\ Active(q.dep) \/ q.at <= departments[q.dep].deletedAt

LEMMA RequestsTraced ==
    RequestsStood <=> \A r \in Requests : requests[r] # None => Traced(requests[r])
  BY DEF RequestsStood, Traced

\* Once a department has stood under a code, it has done so ever since.
LaterStanding == \A d \in Departments, c \in Codes :
    stood[d][c] # None => stood'[d][c] # None /\ stood[d][c] <= stood'[d][c]

\* Moments of standing are times.
LEMMA StoodLater ==
    ASSUME MTypeOK, MTypeOK', LaterStanding, NEW d \in Departments \cup {None}, NEW c \in Codes,
           NEW t \in Nat, NEW span \in Nat, Stood(d, c, t, span)
    PROVE  Stood(d, c, t, span)'
<1>1. d \in Departments
  BY DEF Stood, EverStood
<1>2. /\ stood[d][c] \in Nat /\ stood'[d][c] \in Nat \cup {None}
      /\ stood'[d][c] # None /\ stood[d][c] <= stood'[d][c] /\ t <= stood[d][c] + span
  BY <1>1, MediaConstants DEF MTypeOK, LaterStanding, Stood, EverStood, Times
<1>. QED BY <1>1, <1>2 DEF Stood, EverStood

\* A step in which the clock stands, no port changes hands and no department is lost
\* keeps the traces of the requests it leaves alone.
LEMMA OthersTraced ==
    ASSUME MTypeOK, MTypeOK', LaterStanding, now' = now,
           \A p \in Ports : ports[p] # None => ports'[p] = ports[p],
           NEW s \in Requests, requests[s] # None, requests'[s] = requests[s],
           Traced(requests[s]),
           requests[s].op \in FileOps => ports[requests[s].port] # None,
           LET d == requests[s].dep IN
             requests[s].op \in {"update", "delete"} =>
               /\ departments'[d] # None
               /\ Active(d)' \/ requests[s].at <= departments'[d].deletedAt
    PROVE  Traced(requests[s])'
<1>. DEFINE q == requests[s]
<1>1. q \in Request /\ q.at \in Nat /\ q.dep \in Departments /\ q.code \in Codes
  BY MediaConstants DEF MTypeOK, Request, Times
<1>2. q.pc = "act" /\ q.op \in FileOps \cup {"port"} => Stood(q.dep, q.code, q.at, 0)'
  BY <1>1, StoodLater DEF Traced
<1>. QED BY <1>1, <1>2 DEF Traced

LEMMA ActiveSince ==
    ASSUME MediaInv, NEW d \in Departments, Active(d), NEW c \in Codes, departments[d].code = c
    PROVE  Stood(d, c, now, 0)
<1>1. stood[d][c] = now /\ now \in Nat
  BY DEF MediaInv, ActiveStand, MTypeOK, Times
<1>. QED BY <1>1, MediaConstants DEF Stood, EverStood

\* What a request carries, with its type.
LEMMA RequestRead ==
    ASSUME MediaInv, NEW r \in Requests, requests[r] # None
    PROVE  /\ requests[r] \in Request /\ Traced(requests[r])
           /\ requests[r].dep \in Departments /\ requests[r].code \in Codes
           /\ requests[r].at \in Nat /\ now \in Nat
           /\ requests[r].op \in FileOps => ports[requests[r].port] # None
<1>1. requests[r] \in Request /\ now \in Nat
  BY DEF MediaInv, MTypeOK, Times
<1>2. Traced(requests[r])
  BY RequestsTraced DEF MediaInv
<1>. QED BY <1>1, <1>2, MediaConstants DEF Request, Times, Traced

\* A step in which the clock stands keeps MediaInv if what it changes is traced.
LEMMA Standstill ==
    ASSUME MediaInv, MTypeOK', now' = now, LaterStanding, ActiveStand',
           \A p \in Ports : ports[p] # None => ports'[p] = ports[p],
           \A s \in Requests : requests'[s] # None /\ requests'[s] # requests[s] => Traced(requests[s])',
           \A d \in Departments : departments[d] # None =>
             /\ departments'[d] # None
             /\ departments'[d].deletedAt \in {departments[d].deletedAt, now},
           \A u \in urls' \ urls :
             /\ u.at = u.key.name.second /\ u.at = now
             /\ Stood(ports[u.key.port], u.key.code, now, Lag),
           \A k \in objects' \ objects : \E u \in urls : k = u.key
    PROVE  MediaInv'
<1>0. now \in Nat /\ now' \in Nat
  BY DEF MediaInv, MTypeOK, Times
<1>1. RequestsStood'
  <2>1. ASSUME NEW s \in Requests, requests'[s] # None, requests'[s] = requests[s]
        PROVE  Traced(requests[s])'
    <3>. DEFINE d == requests[s].dep
    <3>1. /\ requests[s] # None /\ Traced(requests[s]) /\ d \in Departments
          /\ requests[s].at \in Nat
          /\ requests[s].op \in FileOps => ports[requests[s].port] # None
      BY <2>1, RequestRead
    <3>2. ASSUME requests[s].op \in {"update", "delete"}
          PROVE  /\ departments'[d] # None
                 /\ Active(d)' \/ requests[s].at <= departments'[d].deletedAt
      <4>1. /\ departments[d] # None
            /\ Active(d) \/ requests[s].at <= departments[d].deletedAt
            /\ requests[s].at <= now
        BY <3>1, <3>2 DEF Traced
      <4>2. departments'[d] # None /\ departments'[d].deletedAt \in {departments[d].deletedAt, now}
        BY <3>1, <4>1
      <4>3. CASE departments'[d].deletedAt = now
        BY <4>1, <4>2, <4>3
      <4>4. CASE departments'[d].deletedAt = departments[d].deletedAt
        BY <2>1, <4>1, <4>2, <4>4 DEF Active
      <4>. QED BY <4>2, <4>3, <4>4
    <3>. QED BY <2>1, <3>1, <3>2, OthersTraced DEF MediaInv
  <2>2. \A s \in Requests : requests'[s] # None => Traced(requests[s])'
    BY <2>1
  <2>. QED BY <2>2 DEF RequestsStood, Traced
<1>2. \A p \in Ports, c \in Codes, t \in Nat, span \in Nat :
        Stood(ports[p], c, t, span) => Stood(ports[p], c, t, span)' /\ ports'[p] = ports[p]
  <2>. TAKE p \in Ports, c \in Codes, t \in Nat, span \in Nat
  <2>. HAVE Stood(ports[p], c, t, span)
  <2>1. ports'[p] = ports[p] /\ ports[p] \in Departments
    BY MediaConstants DEF Stood, EverStood, MediaInv, MTypeOK
  <2>2. \A d \in Departments : Stood(d, c, t, span) => Stood(d, c, t, span)'
    BY StoodLater DEF MediaInv
  <2>3. stood[ports[p]][c] # None /\ t <= stood[ports[p]][c] + span
    BY DEF Stood, EverStood
  <2>4. stood'[ports'[p]][c] # None /\ t <= stood'[ports'[p]][c] + span
    <3>1. \A d \in Departments : d # None
      BY MediaConstants
    <3>. QED BY <2>1, <2>2, <2>3, <3>1 DEF Stood, EverStood
  <2>. QED BY <2>1, <2>4, MediaConstants DEF Stood, EverStood
<1>3. UrlsStood'
  <2>. SUFFICES ASSUME NEW u \in urls'
                PROVE  /\ u.at = u.key.name.second
                       /\ u.at <= now /\ now <= u.at + UrlLife
                       /\ Stood(ports[u.key.port], u.key.code, u.at, Lag)'
    BY DEF UrlsStood
  <2>1. u.key.port \in Ports /\ u.key.code \in Codes /\ u.at \in Nat
    BY DEF MTypeOK, Urls, Keys, Times
  <2>2. u \in urls => /\ u.at = u.key.name.second /\ u.at <= now /\ now <= u.at + UrlLife
                      /\ Stood(ports[u.key.port], u.key.code, u.at, Lag)
    BY DEF MediaInv, UrlsStood
  <2>. QED BY <1>0, <1>2, <2>1, <2>2, MediaConstants
<1>4. ObjectsStood'
  <2>1. \A p \in Ports, c \in Codes : EverStood(ports[p], c) => EverStood(ports[p], c)'
    <3>. TAKE p \in Ports, c \in Codes
    <3>. HAVE EverStood(ports[p], c)
    <3>1. ports'[p] = ports[p] /\ ports[p] \in Departments
      BY DEF EverStood, MediaInv, MTypeOK
    <3>. QED BY <3>1 DEF EverStood, LaterStanding
  <2>2. ASSUME NEW k \in objects' PROVE EverStood(ports[k.port], k.code)
    <3>1. CASE k \in objects
      BY <3>1 DEF MediaInv, ObjectsStood
    <3>2. CASE k \notin objects
      BY <3>2 DEF MediaInv, UrlsStood, Stood
    <3>. QED BY <3>1, <3>2
  <2>3. \A k \in objects' : k.port \in Ports /\ k.code \in Codes
    BY DEF MTypeOK, Keys
  <2>. QED BY <2>1, <2>2, <2>3 DEF ObjectsStood
<1>. QED BY <1>1, <1>3, <1>4 DEF MediaInv

-----------------------------------------------------------------------------
(* One lemma per handler.                                                  *)

LEMMA Moving ==
    ASSUME MediaInv
    PROVE  /\ now \in Times /\ now \in Nat
           /\ stood' = stood => LaterStanding
           /\ stood' = stood /\ departments' = departments /\ now' = now => ActiveStand'
           /\ \A d \in Departments, c \in Codes :
                stood[d][c] \in Times \cup {None} /\ (stood[d][c] # None => stood[d][c] <= now)
<1>1. now \in Times /\ now \in Nat
  BY DEF MediaInv, MTypeOK, Times
<1>2. \A d \in Departments, c \in Codes :
        stood[d][c] \in Times \cup {None} /\ (stood[d][c] # None => stood[d][c] <= now)
  BY DEF MediaInv, MTypeOK, ActiveStand
<1>3. stood' = stood => LaterStanding
  BY <1>2 DEF LaterStanding, Times
<1>4. ASSUME stood' = stood, departments' = departments, now' = now PROVE ActiveStand'
  BY <1>4 DEF MediaInv, ActiveStand, Active
<1>. QED BY <1>1, <1>2, <1>3, <1>4

\* A step that only reads: it answers a request or lets it wait with what it found.
LEMMA ReadingStep ==
    ASSUME MediaInv, NEW r \in Requests,
           UNCHANGED <<departments, ports, urls, objects, now, stood>>,
           listing' \in Listing \cup {None},
           requests' \in [Requests -> Request \cup {None}],
           \A s \in Requests \ {r} : requests'[s] = requests[s],
           requests'[r] # None => Traced(requests[r])'
    PROVE  MediaInv'
<1>1. MTypeOK'
  BY DEF MediaInv, MTypeOK
<1>2. LaterStanding /\ ActiveStand'
  BY Moving
<1>3. \A s \in Requests : requests'[s] # None /\ requests'[s] # requests[s] => Traced(requests[s])'
  OBVIOUS
<1>4. \A d \in Departments : departments[d] # None =>
        /\ departments'[d] # None
        /\ departments'[d].deletedAt \in {departments[d].deletedAt, now}
  OBVIOUS
<1>. QED BY <1>1, <1>2, <1>3, <1>4, Standstill

\* Answering a request leaves the others waiting.
LEMMA Answered ==
    ASSUME MediaInv, NEW r \in Requests, Answer(r)
    PROVE  /\ requests' \in [Requests -> Request \cup {None}]
           /\ requests'[r] = None
           /\ \A s \in Requests \ {r} : requests'[s] = requests[s]
           /\ \A s \in Requests : requests'[s] # None => requests'[s] = requests[s]
  BY DEF Answer, MediaInv, MTypeOK

LEMMA Waits ==
    ASSUME MediaInv, NEW r \in Requests, NEW op \in FileOps \cup SiteOps,
           NEW label \in {"department", "act"}, NEW d \in Departments, NEW c \in Codes,
           NEW p \in Ports \cup {None}, NEW n \in FileNames \cup {None},
           Wait(r, op, label, d, c, p, n)
    PROVE  /\ requests' \in [Requests -> Request \cup {None}]
           /\ requests'[r] = [op |-> op, pc |-> label, dep |-> d, code |-> c,
                              port |-> p, name |-> n, at |-> now]
           /\ \A s \in Requests \ {r} : requests'[s] = requests[s]
<1>1. [op |-> op, pc |-> label, dep |-> d, code |-> c, port |-> p, name |-> n, at |-> now]
        \in Request
  BY Moving DEF Request
<1>. QED BY <1>1 DEF Wait, MediaInv, MTypeOK

\* files.service.ts:50-72, ports.service.ts:31 and departments.service.ts:68, 83: the reads.
LEMMA FindDepartmentKeeps ==
    ASSUME MediaInv, NEW r \in Requests, NEW op \in SiteOps, NEW d \in Departments, NEW c \in Codes,
           FindDepartment(r, op, d, c), listing' = None
    PROVE  MediaInv'
<1>1. /\ requests' \in [Requests -> Request \cup {None}]
      /\ requests'[r] = [op |-> op, pc |-> "act", dep |-> d, code |-> c,
                         port |-> None, name |-> None, at |-> now]
      /\ \A s \in Requests \ {r} : requests'[s] = requests[s]
  BY Waits DEF FindDepartment
<1>2. Traced(requests[r])'
  BY <1>1, Moving, MediaConstants DEF Traced, FindDepartment, Active, FileOps
<1>. QED BY <1>1, <1>2, ReadingStep DEF FindDepartment

LEMMA FindSiteKeeps ==
    ASSUME MediaInv, NEW r \in Requests, NEW c \in Codes, NEW p \in Ports,
           FindSite(r, c, p), listing' = None
    PROVE  MediaInv'
<1>. PICK d \in FindByCode(c) : Wait(r, "port", "act", d, c, p, None)
  BY DEF FindSite
<1>0. d \in Departments /\ Active(d) /\ departments[d].code = c
  BY DEF FindByCode
<1>1. /\ requests' \in [Requests -> Request \cup {None}]
      /\ requests'[r] = [op |-> "port", pc |-> "act", dep |-> d, code |-> c,
                         port |-> p, name |-> None, at |-> now]
      /\ \A s \in Requests \ {r} : requests'[s] = requests[s]
  BY <1>0, Waits DEF SiteOps
<1>2. UNCHANGED <<departments, ports, urls, objects, now, stood>>
  BY DEF FindSite
<1>3. Stood(d, c, now, 0)
  BY <1>0, ActiveSince
<1>4. Traced(requests[r])'
  BY <1>1, <1>2, <1>3, Moving, MediaConstants DEF Traced, FileOps, Stood, EverStood
<1>. QED BY <1>1, <1>2, <1>4, ReadingStep

LEMMA FindPortKeeps ==
    ASSUME MediaInv, NEW r \in Requests, NEW op \in FileOps, NEW c \in Codes, NEW p \in Ports,
           NEW n \in PastNames \cup {None}, FindPort(r, op, c, p, n), listing' = None
    PROVE  MediaInv'
<1>0. ports[p] \in Departments
  BY DEF FindPort, MediaInv, MTypeOK
<1>1. /\ requests' \in [Requests -> Request \cup {None}]
      /\ requests'[r] = [op |-> op, pc |-> "department", dep |-> ports[p], code |-> c,
                         port |-> p, name |-> n, at |-> now]
      /\ \A s \in Requests \ {r} : requests'[s] = requests[s]
  BY <1>0, Waits DEF FindPort, PastNames
<1>2. UNCHANGED <<departments, ports, urls, objects, now, stood>>
  BY DEF FindPort
<1>3. Traced(requests[r])'
  BY <1>1, <1>2, Moving, MediaConstants DEF Traced, FileOps, FindPort
<1>. QED BY <1>1, <1>2, <1>3, ReadingStep

LEMMA ValidatePortKeeps ==
    ASSUME MediaInv, NEW r \in Requests, ValidatePort(r), listing' = None
    PROVE  MediaInv'
<1>. DEFINE q == requests[r]
<1>0. UNCHANGED <<departments, ports, urls, objects, now, stood>>
  BY DEF ValidatePort
<1>1. CASE Belongs(r) /\ Wait(r, q.op, "act", q.dep, q.code, q.port, q.name)
  <2>1. /\ q \in Request /\ q # None /\ q.op \in FileOps /\ Traced(q)
        /\ q.port \in Ports /\ q.dep = ports[q.port]
    BY RequestRead DEF ValidatePort, At, Traced
  <2>2. /\ q.dep \in Departments /\ Active(q.dep) /\ departments[q.dep].code = q.code
        /\ q.code \in Codes
    BY <1>1, <2>1 DEF Belongs, FindByCode, Request
  <2>3. /\ requests' \in [Requests -> Request \cup {None}]
        /\ requests'[r] = [op |-> q.op, pc |-> "act", dep |-> q.dep, code |-> q.code,
                           port |-> q.port, name |-> q.name, at |-> now]
        /\ \A s \in Requests \ {r} : requests'[s] = requests[s]
    BY <1>1, <2>1, <2>2, Waits DEF Request
  <2>4. Stood(q.dep, q.code, now, 0)
    BY <2>2, ActiveSince
  <2>5. Traced(requests[r])'
    BY <1>0, <2>1, <2>3, <2>4, Moving, MediaConstants DEF Traced, FileOps, Stood, EverStood
  <2>. QED BY <1>0, <2>3, <2>5, ReadingStep
<1>2. CASE Answer(r)
  BY <1>0, <1>2, Answered, ReadingStep
<1>. QED BY <1>1, <1>2 DEF ValidatePort

LEMMA FailKeeps ==
    ASSUME MediaInv, NEW r \in Requests, Fail(r), listing' = None
    PROVE  MediaInv'
  BY Answered, ReadingStep DEF Fail

LEMMA FindAllByPortKeeps ==
    ASSUME MediaInv, NEW r \in Requests, FindAllByPort(r)
    PROVE  MediaInv'
<1>1. /\ requests[r] # None /\ requests[r] \in Request /\ requests[r].op = "list"
      /\ Traced(requests[r]) /\ requests[r].port \in Ports
  BY RequestRead DEF FindAllByPort, At, Traced, FileOps
<1>2. listing' \in Listing
  BY <1>1 DEF FindAllByPort, UnderPrefix, Listing, Request, MediaInv, MTypeOK
<1>. QED BY <1>2, Answered, ReadingStep DEF FindAllByPort

\* Steps that only write the store or hand out a URL (files.service.ts:100-195).
LEMMA StoreStep ==
    ASSUME MediaInv, NEW r \in Requests, Answer(r),
           UNCHANGED <<departments, ports, now, stood>>, listing' = None,
           urls' \subseteq Urls,
           \A u \in urls' \ urls : /\ u.at = u.key.name.second /\ u.at = now
                                   /\ Stood(ports[u.key.port], u.key.code, now, Lag),
           objects' \subseteq objects
    PROVE  MediaInv'
<1>1. MTypeOK'
  BY Answered DEF MediaInv, MTypeOK
<1>2. LaterStanding /\ ActiveStand'
  BY Moving
<1>. QED BY <1>1, <1>2, Answered, Standstill

LEMMA GenerateUploadUrlKeeps ==
    ASSUME MediaInv, NEW r \in Requests, NEW ch \in Chars, NEW accepted \in BOOLEAN,
           GenerateUploadUrl(r, ch, accepted), listing' = None
    PROVE  MediaInv'
<1>. DEFINE q == requests[r]
            key == [code |-> q.code, port |-> q.port, name |-> UniqueFileName(ch)]
            u == [key |-> key, at |-> now]
<1>1. /\ q \in Request /\ Traced(q) /\ q.op \in FileOps /\ q.port \in Ports
      /\ q.code \in Codes /\ q.at \in Nat /\ now \in Nat
      /\ Stood(q.dep, q.code, q.at, 0) /\ q.dep = ports[q.port] /\ now <= q.at + Lag
  BY RequestRead DEF GenerateUploadUrl, At, Traced, FileOps
<1>2. u \in Urls /\ u.at = u.key.name.second /\ u.key.port = q.port /\ u.key.code = q.code
  BY <1>1, Moving DEF UniqueFileName, Urls, Keys, FileNames
<1>3. Stood(ports[q.port], q.code, now, Lag)
  <2>1. stood[q.dep][q.code] \in Nat
    BY <1>1, RequestRead, MediaConstants, Moving
    DEF Stood, EverStood, GenerateUploadUrl, At, Times
  <2>. QED BY <1>1, <2>1, MediaConstants DEF Stood, EverStood
<1>4. urls' \subseteq urls \cup {u}
  BY DEF GenerateUploadUrl
<1>5. urls' \subseteq Urls
  BY <1>2, <1>4 DEF MediaInv, MTypeOK
<1>6. \A v \in urls' \ urls : /\ v.at = v.key.name.second /\ v.at = now
                              /\ Stood(ports[v.key.port], v.key.code, now, Lag)
  BY <1>2, <1>3, <1>4
<1>. QED BY <1>5, <1>6, StoreStep DEF GenerateUploadUrl

LEMMA RemoveFileKeeps ==
    ASSUME MediaInv, NEW r \in Requests, RemoveFile(r), listing' = None
    PROVE  MediaInv'
  BY StoreStep DEF RemoveFile, MediaInv, MTypeOK

LEMMA PutKeeps ==
    ASSUME MediaInv, NEW u \in urls, Put(u), listing' = None
    PROVE  MediaInv'
<1>1. MTypeOK'
  BY DEF Put, MediaInv, MTypeOK, Urls
<1>2. LaterStanding /\ ActiveStand'
  BY Moving DEF Put
<1>. QED BY <1>1, <1>2, Standstill DEF Put

LEMMA CreateDepartmentKeeps ==
    ASSUME MediaInv, NEW d \in Departments, NEW c \in Codes,
           CreateDepartment(d, c), listing' = None
    PROVE  MediaInv'
<1>1. MTypeOK'
  BY Moving DEF CreateDepartment, MediaInv, MTypeOK, Rows
<1>2. /\ stood'[d][c] = now
      /\ \A e \in Departments, b \in Codes : e # d \/ b # c => stood'[e][b] = stood[e][b]
  BY DEF CreateDepartment, MediaInv, MTypeOK
<1>3. LaterStanding
  BY <1>2, Moving, MediaConstants DEF LaterStanding, Times
<1>4. /\ departments'[d] = [code |-> c, deletedAt |-> None]
      /\ \A e \in Departments \ {d} : departments'[e] = departments[e]
      /\ departments[d] = None
  BY DEF CreateDepartment, MediaInv, MTypeOK
<1>5. ActiveStand'
  <2>. SUFFICES ASSUME NEW e \in Departments
                PROVE  /\ Active(e)' => stood'[e][departments'[e].code] = now
                       /\ \A b \in Codes : stood'[e][b] # None => stood'[e][b] <= now
    BY DEF CreateDepartment, ActiveStand
  <2>1. \A b \in Codes : stood'[e][b] # None => stood'[e][b] <= now
    BY <1>2, Moving
  <2>2. CASE e = d
    BY <1>2, <1>4, <2>1, <2>2
  <2>3. CASE e # d
    <3>1. Active(e)' => Active(e) /\ departments[e].code \in Codes
      BY <1>4, <2>3 DEF Active, MediaInv, MTypeOK, Rows
    <3>2. Active(e)' => stood'[e][departments'[e].code] = now
      BY <1>2, <1>4, <2>3, <3>1 DEF MediaInv, ActiveStand
    <3>. QED BY <2>1, <3>2
  <2>. QED BY <2>2, <2>3
<1>6. \A e \in Departments : departments[e] # None =>
        departments'[e] # None /\ departments'[e].deletedAt \in {departments[e].deletedAt, now}
  BY <1>4
<1>. QED BY <1>1, <1>3, <1>5, <1>6, Standstill DEF CreateDepartment

\* A PATCH moves the code and never deletedAt (departments.service.ts:70).
LEMMA UpdateDepartmentKeeps ==
    ASSUME MediaInv, NEW r \in Requests, UpdateDepartment(r), listing' = None
    PROVE  MediaInv'
<1>. DEFINE d == requests[r].dep
            c == requests[r].code
<1>1. d \in Departments /\ c \in Codes /\ departments[d] # None /\ departments[d] \in Rows
  <2>1. d \in Departments /\ c \in Codes /\ departments[d] # None
    BY RequestRead DEF UpdateDepartment, At, Traced
  <2>. QED BY <2>1 DEF MediaInv, MTypeOK
<1>. HIDE DEF d, c
<1>2. /\ Renamed(departments[d], c) \in Rows
      /\ Renamed(departments[d], c).code = c
      /\ Renamed(departments[d], c).deletedAt = departments[d].deletedAt
  BY <1>1 DEF Renamed, Rows
<1>3. \/ UNCHANGED <<departments, stood>>
      \/ /\ departments' = [departments EXCEPT ![d] = Renamed(departments[d], c)]
         /\ stood' = IF Active(d) THEN [stood EXCEPT ![d][c] = now] ELSE stood
  BY DEF UpdateDepartment, d, c
<1>4. UNCHANGED <<ports, urls, objects, now>> /\ Answer(r)
  BY DEF UpdateDepartment
<1>5. CASE UNCHANGED <<departments, stood>>
  BY <1>4, <1>5, Answered, ReadingStep
<1>6. CASE /\ departments' = [departments EXCEPT ![d] = Renamed(departments[d], c)]
           /\ stood' = IF Active(d) THEN [stood EXCEPT ![d][c] = now] ELSE stood
  <2>1. /\ departments' \in [Departments -> Rows \cup {None}]
        /\ departments'[d] = Renamed(departments[d], c)
        /\ \A e \in Departments \ {d} : departments'[e] = departments[e]
    BY <1>1, <1>2, <1>6 DEF MediaInv, MTypeOK
  <2>2. /\ stood' \in [Departments -> [Codes -> Times \cup {None}]]
        /\ \A e \in Departments, b \in Codes : e # d \/ b # c => stood'[e][b] = stood[e][b]
        /\ Active(d) => stood'[d][c] = now
        /\ ~Active(d) => stood' = stood
    BY <1>1, <1>6, Moving DEF MediaInv, MTypeOK
  <2>3. MTypeOK'
    BY <1>4, <2>1, <2>2, Answered DEF MediaInv, MTypeOK
  <2>4. LaterStanding
    BY <2>2, Moving, MediaConstants DEF LaterStanding, Times
  <2>5. departments'[d] # None
    BY <1>2, <2>1, NoneIsNoRow
  <2>6. \A e \in Departments : Active(e)' => Active(e)
    BY <1>1, <1>2, <2>1 DEF Active
  <2>7. ActiveStand'
    <3>. SUFFICES ASSUME NEW e \in Departments
                  PROVE  /\ Active(e)' => stood'[e][departments'[e].code] = now
                         /\ \A b \in Codes : stood'[e][b] # None => stood'[e][b] <= now
      BY <1>4 DEF ActiveStand
    <3>1. \A b \in Codes : stood'[e][b] # None => stood'[e][b] <= now
      BY <2>2, Moving
    <3>2. CASE e = d
      BY <1>2, <2>1, <2>2, <2>6, <3>1, <3>2
    <3>3. CASE e # d
      BY <2>1, <2>2, <2>6, <3>1, <3>3 DEF Active, MediaInv, MTypeOK, Rows, ActiveStand
    <3>. QED BY <3>2, <3>3
  <2>8. \A e \in Departments : departments[e] # None =>
          /\ departments'[e] # None
          /\ departments'[e].deletedAt \in {departments[e].deletedAt, now}
    BY <1>2, <2>1, <2>5
  <2>. QED BY <1>4, <2>3, <2>4, <2>7, <2>8, Answered, Standstill
<1>. QED BY <1>3, <1>5, <1>6

LEMMA RemoveDepartmentKeeps ==
    ASSUME MediaInv, NEW r \in Requests, RemoveDepartment(r), listing' = None
    PROVE  MediaInv'
<1>. DEFINE d == requests[r].dep
<1>1. d \in Departments /\ departments[d] # None /\ departments[d] \in Rows
  <2>1. d \in Departments /\ departments[d] # None
    BY RequestRead DEF RemoveDepartment, At, Traced
  <2>. QED BY <2>1 DEF MediaInv, MTypeOK
<1>2. departments' = [departments EXCEPT ![d] = [departments[d] EXCEPT !.deletedAt = now]]
  BY DEF RemoveDepartment
<1>. HIDE DEF d
<1>3. LET row == [departments[d] EXCEPT !.deletedAt = now]
      IN  row \in Rows /\ row.code = departments[d].code /\ row.deletedAt = now
  BY <1>1, Moving DEF Rows
<1>4. /\ departments' \in [Departments -> Rows \cup {None}]
      /\ departments'[d] \in Rows /\ departments'[d].deletedAt = now
      /\ \A e \in Departments \ {d} : departments'[e] = departments[e]
  BY <1>1, <1>2, <1>3 DEF MediaInv, MTypeOK
<1>5. MTypeOK'
  BY <1>4, Answered DEF RemoveDepartment, MediaInv, MTypeOK
<1>6. LaterStanding
  BY Moving DEF RemoveDepartment
<1>7. now # None
  BY Moving, MediaConstants
<1>8. ActiveStand'
  BY <1>4, <1>7 DEF RemoveDepartment, MediaInv, ActiveStand, Active
<1>9. departments'[d] # None
  BY <1>4, NoneIsNoRow
<1>10. \A e \in Departments : departments[e] # None =>
         /\ departments'[e] # None
         /\ departments'[e].deletedAt \in {departments[e].deletedAt, now}
  BY <1>4, <1>9
<1>. QED BY <1>5, <1>6, <1>8, <1>10, Answered, Standstill DEF RemoveDepartment

\* A port that exists keeps its department (ports.service.ts:37, the unique code).
LEMMA CreatePortKeeps ==
    ASSUME MediaInv, NEW r \in Requests, CreatePort(r), listing' = None
    PROVE  MediaInv'
<1>. DEFINE p == requests[r].port
            d == requests[r].dep
<1>1. p \in Ports /\ d \in Departments
  BY RequestRead DEF CreatePort, At, Traced
<1>2. ports' = IF ports[p] = None THEN [ports EXCEPT ![p] = d] ELSE ports
  BY DEF CreatePort
<1>. HIDE DEF p, d
<1>3. /\ ports' \in [Ports -> Departments \cup {None}]
      /\ \A x \in Ports : ports[x] # None => ports'[x] = ports[x]
  BY <1>1, <1>2 DEF MediaInv, MTypeOK
<1>4. MTypeOK'
  BY <1>3, Answered DEF CreatePort, MediaInv, MTypeOK
<1>5. LaterStanding /\ ActiveStand'
  BY Moving DEF CreatePort
<1>. QED BY <1>3, <1>4, <1>5, Answered, Standstill DEF CreatePort

\* The clock moves only while every request may still wait, and takes the URLs along
\* that have expired.
LEMMA TickKeeps ==
    ASSUME MediaInv, Tick, listing' = None
    PROVE  MediaInv'
<1>1. /\ now \in Nat /\ now' = now + 1 /\ now' \in Times
      /\ UNCHANGED <<departments, ports, requests, objects>>
  BY Moving, MediaConstants DEF Tick, Times
<1>2. \A d \in Departments, c \in Codes :
        stood'[d][c] = IF Active(d) /\ departments[d].code = c THEN now' ELSE stood[d][c]
  BY <1>1 DEF Tick
<1>3. stood' \in [Departments -> [Codes -> Times \cup {None}]]
  BY <1>1, Moving DEF Tick
<1>4. MTypeOK'
  BY <1>1, <1>3 DEF Tick, MediaInv, MTypeOK
<1>5. LaterStanding
  BY <1>1, <1>2, Moving, MediaConstants DEF LaterStanding, Times
<1>6. ActiveStand'
  <2>. SUFFICES ASSUME NEW d \in Departments
                PROVE  /\ Active(d) => stood'[d][departments[d].code] = now'
                       /\ \A c \in Codes : stood'[d][c] # None => stood'[d][c] <= now'
    BY <1>1 DEF ActiveStand, Active
  <2>1. Active(d) => departments[d].code \in Codes
    BY DEF Active, MediaInv, MTypeOK, Rows
  <2>2. \A c \in Codes : stood'[d][c] # None => stood'[d][c] <= now'
    BY <1>1, <1>2, Moving DEF Times
  <2>. QED BY <1>2, <2>1, <2>2
<1>7. RequestsStood'
  <2>. SUFFICES ASSUME NEW r \in Requests, requests[r] # None
                PROVE  Traced(requests[r])'
    BY <1>1 DEF RequestsStood, Traced
  <2>1. /\ requests[r] \in Request /\ Traced(requests[r])
        /\ requests[r].dep \in Departments /\ requests[r].code \in Codes
        /\ requests[r].at \in Nat
    BY RequestRead
  <2>2. now < requests[r].at + Lag
    BY DEF Tick
  <2>3. requests[r].pc = "act" /\ requests[r].op \in FileOps \cup {"port"} =>
          Stood(requests[r].dep, requests[r].code, requests[r].at, 0)'
    BY <1>1, <1>4, <1>5, <2>1, StoodLater DEF Traced, MediaInv
  <2>4. requests[r].at <= now' /\ now' <= requests[r].at + Lag
    BY <1>1, <2>1, <2>2, MediaConstants DEF Traced
  <2>. QED BY <1>1, <2>1, <2>3, <2>4 DEF Traced, Active
<1>8. UrlsStood'
  <2>. SUFFICES ASSUME NEW u \in urls'
                PROVE  /\ u.at = u.key.name.second
                       /\ u.at <= now' /\ now' <= u.at + UrlLife
                       /\ Stood(ports[u.key.port], u.key.code, u.at, Lag)'
    BY DEF UrlsStood
  <2>1. /\ u \in urls /\ ~Expired(u) /\ u.at = u.key.name.second /\ u.at <= now
        /\ Stood(ports[u.key.port], u.key.code, u.at, Lag)
    BY DEF Tick, MediaInv, UrlsStood
  <2>2. u.key.port \in Ports /\ u.key.code \in Codes /\ u.at \in Nat
    BY <2>1 DEF MediaInv, MTypeOK, Urls, Keys, Times
  <2>3. u.at <= now' /\ now' <= u.at + UrlLife
    BY <1>1, <2>1, <2>2, MediaConstants DEF Expired
  <2>4. ports[u.key.port] \in Departments \cup {None}
    BY <2>2 DEF MediaInv, MTypeOK
  <2>5. ports[u.key.port] \in Departments
    BY <2>1, <2>4 DEF Stood, EverStood
  <2>6. stood[ports[u.key.port]][u.key.code] \in Times
    BY <2>1, <2>2, <2>5, Moving DEF Stood, EverStood
  <2>7. /\ stood'[ports[u.key.port]][u.key.code] # None
        /\ stood'[ports[u.key.port]][u.key.code] \in Nat
        /\ stood[ports[u.key.port]][u.key.code] <= stood'[ports[u.key.port]][u.key.code]
    BY <1>1, <1>2, <2>2, <2>5, <2>6, Moving, MediaConstants DEF Times
  <2>8. u.at <= stood[ports[u.key.port]][u.key.code] + Lag
    BY <2>1 DEF Stood
  <2>. QED BY <1>1, <2>1, <2>2, <2>3, <2>5, <2>6, <2>7, <2>8, MediaConstants
       DEF Stood, EverStood, Times
<1>9. ObjectsStood'
  <2>. SUFFICES ASSUME NEW k \in objects
                PROVE  EverStood(ports[k.port], k.code)'
    BY <1>1 DEF ObjectsStood
  <2>1. k.port \in Ports /\ k.code \in Codes /\ EverStood(ports[k.port], k.code)
    BY DEF MediaInv, MTypeOK, Keys, ObjectsStood
  <2>2. ports[k.port] \in Departments
    BY <2>1 DEF EverStood, MediaInv, MTypeOK
  <2>. QED BY <1>1, <1>5, <2>1, <2>2 DEF EverStood, LaterStanding
<1>. QED BY <1>4, <1>6, <1>7, <1>8, <1>9 DEF MediaInv

-----------------------------------------------------------------------------
(* The theorems.                                                           *)

LEMMA MediaInit == Init => MediaInv
<1>. SUFFICES ASSUME Init PROVE MediaInv
  OBVIOUS
<1>1. MTypeOK
  BY MediaConstants DEF Init, MTypeOK, Times
<1>2. ActiveStand
  BY DEF Init, ActiveStand, Active
<1>3. RequestsStood /\ UrlsStood /\ ObjectsStood
  BY DEF Init, RequestsStood, UrlsStood, ObjectsStood
<1>. QED BY <1>1, <1>2, <1>3 DEF MediaInv

LEMMA MediaNext == MediaInv /\ [Next]_vars => MediaInv'
<1>. SUFFICES ASSUME MediaInv, [Next]_vars PROVE MediaInv'
  OBVIOUS
<1>1. CASE Silent /\ listing' = None
  BY <1>1, CreateDepartmentKeeps, FindDepartmentKeeps, UpdateDepartmentKeeps,
     RemoveDepartmentKeeps, FindSiteKeeps, CreatePortKeeps, FindPortKeeps, ValidatePortKeeps,
     GenerateUploadUrlKeeps, RemoveFileKeeps, FailKeeps, PutKeeps, TickKeeps
  DEF Silent
<1>2. CASE \E r \in Requests : FindAllByPort(r)
  BY <1>2, FindAllByPortKeeps
<1>3. CASE UNCHANGED vars
  <2>1. UNCHANGED <<departments, ports, requests, urls, objects, listing, now, stood>>
    BY <1>3 DEF vars
  <2>2. MTypeOK' /\ ActiveStand'
    BY <2>1 DEF MediaInv, MTypeOK, ActiveStand, Active
  <2>3. RequestsStood'
    BY <2>1 DEF MediaInv, RequestsStood, Stood, EverStood, Active
  <2>4. UrlsStood' /\ ObjectsStood'
    BY <2>1 DEF MediaInv, UrlsStood, ObjectsStood, Stood, EverStood
  <2>. QED BY <2>2, <2>3, <2>4 DEF MediaInv
<1>. QED BY <1>1, <1>2, <1>3 DEF Next

\* Every request, URL and object is traced to a moment at which the department of its
\* port stood under its code (validatePortBelongsToDepartment and its callers).
THEOREM MediaInvariant == Spec => []MediaInv
<1>. QED BY MediaInit, MediaNext, PTL DEF Spec

\* What a step adds to the store or takes from it comes from one handler
\* (files.service.ts:188 and the presigned PUT).
LEMMA StoreChanges ==
    ASSUME Next
    PROVE  /\ \A k \in objects' \ objects :
                \E u \in urls : k = u.key /\ UNCHANGED <<ports, now, stood>>
           /\ \A k \in objects \ objects' : \E r \in Requests : RemoveFile(r)
           /\ objects' \subseteq objects \/ \E u \in urls : objects' = objects \cup {u.key}
<1>1. CASE Silent
  <2>1. CASE \E u \in urls : Put(u)
    BY <2>1 DEF Put
  <2>2. CASE \E r \in Requests : RemoveFile(r)
    BY <2>2 DEF RemoveFile
  <2>3. CASE objects' = objects
    BY <2>3
  <2>. QED BY <1>1, <2>1, <2>2, <2>3
       DEF Silent, CreateDepartment, FindDepartment, UpdateDepartment, RemoveDepartment, FindSite,
           CreatePort, FindPort, ValidatePort, GenerateUploadUrl, Fail, Tick
<1>2. CASE \E r \in Requests : FindAllByPort(r)
  BY <1>2 DEF FindAllByPort
<1>. QED BY <1>1, <1>2 DEF Next

\* A file appears only within Lag and the life of a URL of a moment at which its
\* department stood, and disappears, as a port appears, only within Lag of one
\* (ports.service.ts, files.service.ts).
THEOREM EffectsWithinBounds == Spec => EffectsNeedAStandingSite
<1>1. MediaInv /\ [Next]_vars =>
        [ /\ \A k \in objects' \ objects : Stood(ports[k.port], k.code, now, Lag + UrlLife)
          /\ \A k \in objects \ objects' : Stood(ports[k.port], k.code, now, Lag)
          /\ \A p \in Ports : ports'[p] # ports[p] =>
               ports[p] = None /\ \E c \in Codes : Stood(ports'[p], c, now, Lag)
        ]_vars
  <2>. SUFFICES ASSUME MediaInv, Next
                PROVE  /\ \A k \in objects' \ objects :
                            Stood(ports[k.port], k.code, now, Lag + UrlLife)
                       /\ \A k \in objects \ objects' : Stood(ports[k.port], k.code, now, Lag)
                       /\ \A p \in Ports : ports'[p] # ports[p] =>
                            ports[p] = None /\ \E c \in Codes : Stood(ports'[p], c, now, Lag)
    OBVIOUS
  <2>0. now \in Nat
    BY Moving
  <2>1. ASSUME NEW k \in objects' \ objects
        PROVE  Stood(ports[k.port], k.code, now, Lag + UrlLife)
    <3>1. PICK u \in urls : k = u.key
      BY StoreChanges
    <3>2. /\ now <= u.at + UrlLife /\ u.at \in Nat
          /\ EverStood(ports[k.port], k.code) /\ u.at <= stood[ports[k.port]][k.code] + Lag
          /\ k.port \in Ports /\ k.code \in Codes
      BY <3>1 DEF MediaInv, UrlsStood, Stood, MTypeOK, Urls, Keys, Times
    <3>3. ports[k.port] \in Departments
      BY <3>2 DEF EverStood, MediaInv, MTypeOK
    <3>4. stood[ports[k.port]][k.code] \in Nat
      BY <3>2, <3>3, Moving DEF EverStood, Times
    <3>. QED BY <2>0, <3>2, <3>4, MediaConstants DEF Stood
  <2>2. ASSUME NEW k \in objects \ objects' PROVE Stood(ports[k.port], k.code, now, Lag)
    <3>1. PICK r \in Requests : RemoveFile(r)
      BY StoreChanges
    <3>. DEFINE q == requests[r]
    <3>2. k.port = q.port /\ k.code = q.code
      BY <3>1 DEF RemoveFile
    <3>3. /\ Stood(q.dep, q.code, q.at, 0) /\ q.dep = ports[q.port] /\ q.dep \in Departments
          /\ q.code \in Codes /\ now <= q.at + Lag /\ q.at \in Nat
      BY <3>1, RequestRead DEF RemoveFile, At, Traced, FileOps
    <3>4. stood[q.dep][q.code] \in Nat
      BY <3>3, Moving DEF Stood, EverStood, Times
    <3>. QED BY <2>0, <3>2, <3>3, <3>4, MediaConstants DEF Stood, EverStood
  <2>3. ASSUME NEW p \in Ports, ports'[p] # ports[p]
        PROVE  ports[p] = None /\ \E c \in Codes : Stood(ports'[p], c, now, Lag)
    <3>1. PICK r \in Requests : CreatePort(r)
      BY <2>3 DEF Next, Silent, CreateDepartment, FindDepartment, UpdateDepartment, RemoveDepartment,
                  FindSite, FindPort, ValidatePort, GenerateUploadUrl, RemoveFile, FindAllByPort,
                  Fail, Put, Tick
    <3>. DEFINE q == requests[r]
    <3>2. /\ Stood(q.dep, q.code, q.at, 0) /\ q.dep \in Departments
          /\ q.code \in Codes /\ now <= q.at + Lag /\ q.at \in Nat
      BY <3>1, RequestRead DEF CreatePort, At, Traced, FileOps
    <3>3. p = q.port /\ ports[p] = None /\ ports'[p] = q.dep
      BY <2>3, <3>1 DEF CreatePort, MediaInv, MTypeOK
    <3>4. stood[q.dep][q.code] \in Nat
      BY <3>2, Moving DEF Stood, EverStood, Times
    <3>5. Stood(q.dep, q.code, now, Lag)
      BY <2>0, <3>2, <3>4, MediaConstants DEF Stood, EverStood
    <3>6. ports'[p] # None
      BY <3>2, <3>3, MediaConstants
    <3>. QED BY <3>2, <3>3, <3>5, <3>6 DEF Stood, EverStood
  <2>. QED BY <2>1, <2>2, <2>3
<1>. QED BY <1>1, MediaInvariant, PTL DEF Spec, EffectsNeedAStandingSite

\* No upload and no other file brings a name back after its URL has run out
\* (generateUniqueFileName, files.service.ts:275).
THEOREM FilesGone == Spec => FilesStayGone
<1>1. MediaInv /\ [Next]_vars =>
        [\A k \in objects' \ objects : now <= k.name.second + UrlLife]_vars
  <2>. SUFFICES ASSUME MediaInv, Next, NEW k \in objects' \ objects
                PROVE  now <= k.name.second + UrlLife
    OBVIOUS
  <2>. QED BY StoreChanges DEF MediaInv, UrlsStood
<1>. QED BY <1>1, MediaInvariant, PTL DEF Spec, FilesStayGone

\* A deleted department stays deleted, and what changes it began before the deletion
\* (departments.service.ts:68-90).
THEOREM DeletionsSettled == Spec => DeletionsSettle
<1>1. MediaInv /\ [Next]_vars =>
        [\A d \in Departments :
           departments[d] # None /\ ~Active(d) /\ departments'[d] # departments[d] =>
             /\ departments'[d] # None /\ departments'[d].deletedAt # None
             /\ now <= departments[d].deletedAt + Lag]_vars
  <2>. SUFFICES ASSUME MediaInv, Next, NEW d \in Departments, departments[d] # None, ~Active(d),
                       departments'[d] # departments[d]
                PROVE  /\ departments'[d] # None /\ departments'[d].deletedAt # None
                       /\ now <= departments[d].deletedAt + Lag
    OBVIOUS
  <2>0. departments[d] \in Rows /\ departments[d].deletedAt \in Nat
    BY DEF Active, MediaInv, MTypeOK, Rows, Times
  <2>1. PICK r \in Requests : UpdateDepartment(r) \/ RemoveDepartment(r)
    <3>1. \A c \in Codes, e \in Departments : ~CreateDepartment(e, c)
      BY DEF CreateDepartment, MediaInv, MTypeOK
    <3>. QED BY <3>1
         DEF Next, Silent, FindDepartment, FindSite, CreatePort, FindPort, ValidatePort,
             GenerateUploadUrl, RemoveFile, FindAllByPort, Fail, Put, Tick
  <2>. DEFINE q == requests[r]
  <2>2. /\ q \in Request /\ Traced(q) /\ q.op \in {"update", "delete"} /\ q.dep \in Departments
        /\ q.at \in Nat /\ now \in Nat
    BY <2>1, RequestRead DEF UpdateDepartment, RemoveDepartment, At
  <2>3. q.dep = d
    BY <2>1, <2>2 DEF UpdateDepartment, RemoveDepartment, MediaInv, MTypeOK
  <2>4. now <= departments[d].deletedAt + Lag
    BY <2>0, <2>2, <2>3, MediaConstants DEF Traced
  <2>5. q.code \in Codes /\ now \in Times
    BY <2>2, Moving DEF Request
  <2>6. CASE UpdateDepartment(r)
    <3>1. departments'[d] = Renamed(departments[d], q.code)
      BY <2>3, <2>6 DEF UpdateDepartment, MediaInv, MTypeOK
    <3>2. departments'[d] \in Rows /\ departments'[d].deletedAt = departments[d].deletedAt
      BY <2>0, <2>5, <3>1 DEF Renamed, Rows
    <3>. QED BY <2>0, <2>4, <3>2, MediaConstants, NoneIsNoRow
  <2>7. CASE RemoveDepartment(r)
    <3>1. departments'[d] = [departments[d] EXCEPT !.deletedAt = now]
      BY <2>3, <2>7 DEF RemoveDepartment, MediaInv, MTypeOK
    <3>2. departments'[d] \in Rows /\ departments'[d].deletedAt = now
      BY <2>0, <2>5, <3>1 DEF Rows
    <3>. QED BY <2>2, <2>4, <3>2, MediaConstants, NoneIsNoRow
  <2>. QED BY <2>1, <2>6, <2>7
<1>. QED BY <1>1, MediaInvariant, PTL DEF Spec, DeletionsSettle

\* The store is finite: a PUT adds one object.
LEMMA FiniteStore == Spec => []IsFiniteSet(objects)
<1>1. Init => IsFiniteSet(objects)
  BY FS_EmptySet DEF Init
<1>2. IsFiniteSet(objects) /\ [Next]_vars => IsFiniteSet(objects)'
  <2>. SUFFICES ASSUME IsFiniteSet(objects), [Next]_vars PROVE IsFiniteSet(objects)'
    OBVIOUS
  <2>1. CASE Next
    <3>1. CASE objects' \subseteq objects
      BY <3>1, FS_Subset
    <3>2. CASE \E u \in urls : objects' = objects \cup {u.key}
      BY <3>2, FS_AddElement
    <3>. QED BY <2>1, <3>1, <3>2, StoreChanges
  <2>2. CASE UNCHANGED vars
    BY <2>2 DEF vars
  <2>. QED BY <2>1, <2>2
<1>. QED BY <1>1, <1>2, PTL DEF Spec

(***************************************************************************)
(* The two ways in which a listing breaks ListingsShowEveryFile: it is     *)
(* full, or a file is under another code, which the department of the port *)
(* did bear once.  There is no third.                                      *)
(***************************************************************************)
LeftOut(k, answer) ==
    \/ Cardinality(answer.files) = MaxKeys
    \/ k.code # answer.code /\ EverStood(ports[k.port], k.code)

ListingsExplained ==
    [][ listing' # listing /\ listing' # None =>
          /\ Stood(ports[listing'.port], listing'.code, now, Lag)
          /\ \A k \in objects \ listing'.files :
               k.port = listing'.port => LeftOut(k, listing')
      ]_vars

\* A listing that is not full leaves out only files under a code that the department of
\* the port bore before a PATCH (findAllByPort, files.service.ts:170-186).
THEOREM ListingsComplete == Spec => ListingsExplained
<1>1. MediaInv /\ IsFiniteSet(objects) /\ [Next]_vars =>
        [ listing' # listing /\ listing' # None =>
            /\ Stood(ports[listing'.port], listing'.code, now, Lag)
            /\ \A k \in objects \ listing'.files :
                 k.port = listing'.port => LeftOut(k, listing')
        ]_vars
  <2>. SUFFICES ASSUME MediaInv, IsFiniteSet(objects), Next, listing' # None
                PROVE  /\ Stood(ports[listing'.port], listing'.code, now, Lag)
                       /\ \A k \in objects \ listing'.files :
                            k.port = listing'.port => LeftOut(k, listing')
    OBVIOUS
  <2>1. PICK r \in Requests : FindAllByPort(r)
    BY DEF Next
  <2>. DEFINE q == requests[r]
              found == UnderPrefix(q.code, q.port)
  <2>2. PICK page \in SUBSET found :
          /\ Cardinality(page) = IF Cardinality(found) < MaxKeys THEN Cardinality(found) ELSE MaxKeys
          /\ listing' = [code |-> q.code, port |-> q.port, files |-> page]
    BY <2>1 DEF FindAllByPort
  <2>3. /\ Stood(q.dep, q.code, q.at, 0) /\ q.dep = ports[q.port] /\ q.dep \in Departments
        /\ q.code \in Codes /\ now <= q.at + Lag /\ q.at \in Nat /\ now \in Nat
    BY <2>1, RequestRead DEF FindAllByPort, At, Traced, FileOps
  <2>4. Stood(ports[q.port], q.code, now, Lag)
    <3>1. stood[q.dep][q.code] \in Nat
      BY <2>3, Moving DEF Stood, EverStood, Times
    <3>. QED BY <2>3, <3>1, MediaConstants DEF Stood, EverStood
  <2>5. found \subseteq objects /\ IsFiniteSet(found)
    BY FS_Subset DEF UnderPrefix
  <2>6. ASSUME NEW k \in objects, k \notin page, k.port = q.port, Cardinality(page) # MaxKeys
        PROVE  k.code # q.code /\ EverStood(ports[q.port], k.code)
    <3>1. Cardinality(page) = Cardinality(found)
      BY <2>2, <2>6
    <3>2. page = found
      BY <2>5, <3>1, FS_Subset
    <3>. QED BY <2>6, <3>2 DEF UnderPrefix, MediaInv, ObjectsStood
  <2>7. listing'.code = q.code /\ listing'.port = q.port /\ listing'.files = page
    BY <2>2
  <2>. QED BY <2>4, <2>6, <2>7 DEF LeftOut
<1>. QED BY <1>1, MediaInvariant, FiniteStore, PTL DEF Spec, ListingsExplained
=============================================================================
