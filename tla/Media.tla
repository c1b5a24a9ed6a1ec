------------------------------- MODULE Media -------------------------------
(***************************************************************************)
(* Departments, their ports and the files of a port in the object store.   *)
(* A file is nothing but an object under code/port/name: no table knows    *)
(* it.  Every media request first reads the port and then the department   *)
(* that bears the code of the path, and then acts on the store without     *)
(* looking again; a presigned URL acts for another UrlLife seconds.        *)
(*                                                                         *)
(* A department may be renamed (PATCH of code) or deleted softly at any    *)
(* moment; a deleted one keeps its code and its ports.  Ports are only     *)
(* created: the other handlers of PortsController are commented out.       *)
(***************************************************************************)
EXTENDS Naturals, FiniteSets

CONSTANTS
    Departments, Codes, Ports,
    Chars,      \* Math.random().toString(36).substring(2, 6)
    Requests,   \* slots for requests being served, over all replicas
    None,
    UrlLife,    \* 900 s, and what a body takes that was begun in time
    Lag,        \* a request acts at most this many seconds after a read
    MaxKeys,    \* ListObjectsV2 answers at most 1000 keys
    MaxFiles,   \* bound on the file names in use
    MaxNow      \* bound of the clock

ASSUME MediaConstants ==
    /\ UrlLife \in Nat /\ Lag \in Nat /\ MaxNow \in Nat
    /\ None \notin Departments /\ None \notin Nat

VARIABLES
    departments,
    ports,      \* department_id of a port; None: no such port
    requests,
    urls,       \* presigned PUTs that the store still honours
    objects,    \* the store
    listing,    \* the answer of GET media just given; None after any other step
    now,
    stood       \* auxiliary: when a department was last active under a code

vars == <<departments, ports, requests, urls, objects, listing, now, stood>>

Times == 0..MaxNow
FileNames == [second : Times, chars : Chars]
Keys == [code : Codes, port : Ports, name : FileNames]
Urls == [key : Keys, at : Times]
Rows == [code : Codes, deletedAt : Times \cup {None}]
ASSUME NoneIsNoRow == None \notin Rows
FileOps == {"upload", "list", "remove"}
SiteOps == {"port", "update", "delete"}
Request == [op : FileOps \cup SiteOps, pc : {"department", "act"}, dep : Departments,
            code : Codes, port : Ports \cup {None}, name : FileNames \cup {None}, at : Times]
Listing == [code : Codes, port : Ports, files : SUBSET Keys]

MTypeOK ==
    /\ departments \in [Departments -> Rows \cup {None}]
    /\ ports \in [Ports -> Departments \cup {None}]
    /\ requests \in [Requests -> Request \cup {None}]
    /\ urls \subseteq Urls
    /\ objects \subseteq Keys
    /\ listing \in Listing \cup {None}
    /\ now \in Times
    /\ stood \in [Departments -> [Codes -> Times \cup {None}]]

Init ==
    /\ departments = [d \in Departments |-> None]
    /\ ports = [p \in Ports |-> None]
    /\ requests = [r \in Requests |-> None]
    /\ urls = {} /\ objects = {} /\ listing = None
    /\ now = 0
    /\ stood = [d \in Departments |-> [c \in Codes |-> None]]

Active(d) == departments[d] # None /\ departments[d].deletedAt = None
Taken(c) == \E d \in Departments : departments[d] # None /\ departments[d].code = c

\* Mutant of FindByCode: a deleted department is found too.
FindByCodeDeletedToo(c) == {d \in Departments : departments[d] # None /\ departments[d].code = c}
FindByCode(c) == {d \in Departments : Active(d) /\ departments[d].code = c}

(***************************************************************************)
(* What a request waits with after a read: the row it found and when.      *)
(***************************************************************************)
Wait(r, op, pc, d, c, p, n) ==
    requests' = [requests EXCEPT ![r] = [op |-> op, pc |-> pc, dep |-> d, code |-> c,
                                         port |-> p, name |-> n, at |-> now]]

At(r, ops, pc) == requests[r] # None /\ requests[r].op \in ops /\ requests[r].pc = pc
Answer(r) == requests' = [requests EXCEPT ![r] = None]

-----------------------------------------------------------------------------
CreateDepartment(d, c) ==
    /\ departments[d] = None /\ ~Taken(c)
    /\ departments' = [departments EXCEPT ![d] = [code |-> c, deletedAt |-> None]]
    /\ stood' = [stood EXCEPT ![d][c] = now]
    /\ UNCHANGED <<ports, requests, urls, objects, now>>

(***************************************************************************)
(* PATCH and DELETE of a department: findDepartmentOrThrow, then a write   *)
(* by id that does not ask again whether the row is still active.          *)
(***************************************************************************)
FindDepartment(r, op, d, c) ==
    /\ requests[r] = None /\ op \in {"update", "delete"} /\ Active(d)
    /\ op = "delete" => c = departments[d].code   \* DELETE names no code
    /\ Wait(r, op, "act", d, c, None, None)
    /\ UNCHANGED <<departments, ports, urls, objects, now, stood>>

\* Mutant of Renamed: the whole row that was read is written back.
RenamedWholeRow(row, c) == [code |-> c, deletedAt |-> None]
Renamed(row, c) == [row EXCEPT !.code = c]

UpdateDepartment(r) ==
    LET d == requests[r].dep
        c == requests[r].code
        free == c = departments[d].code \/ ~Taken(c)   \* otherwise 409
    IN
    /\ At(r, {"update"}, "act")
    /\ departments' = IF free THEN [departments EXCEPT ![d] = Renamed(@, c)] ELSE departments
    /\ stood' = IF free /\ Active(d) THEN [stood EXCEPT ![d][c] = now] ELSE stood
    /\ Answer(r)
    /\ UNCHANGED <<ports, urls, objects, now>>

RemoveDepartment(r) ==
    /\ At(r, {"delete"}, "act")
    /\ departments' = [departments EXCEPT ![requests[r].dep].deletedAt = now]
    /\ Answer(r)
    /\ UNCHANGED <<ports, urls, objects, now, stood>>

(***************************************************************************)
(* POST /ports: the department of the code, then the insertion.            *)
(***************************************************************************)
FindSite(r, c, p) ==
    /\ requests[r] = None
    /\ \E d \in FindByCode(c) : Wait(r, "port", "act", d, c, p, None)
    /\ UNCHANGED <<departments, ports, urls, objects, now, stood>>

CreatePort(r) ==
    LET p == requests[r].port IN
    /\ At(r, {"port"}, "act")
    /\ ports' = IF ports[p] = None THEN [ports EXCEPT ![p] = requests[r].dep] ELSE ports  \* 409
    /\ Answer(r)
    /\ UNCHANGED <<departments, urls, objects, now, stood>>

PastNames == {n \in FileNames : n.second <= now}

(***************************************************************************)
(* validatePortBelongsToDepartment: the port, then the department.         *)
(***************************************************************************)
FindPort(r, op, c, p, n) ==
    /\ requests[r] = None /\ op \in FileOps
    /\ ports[p] # None
    /\ op = "remove" <=> n # None
    /\ Wait(r, op, "department", ports[p], c, p, n)
    /\ UNCHANGED <<departments, ports, urls, objects, now, stood>>

\* Mutant of Belongs: the department need not be the one of the port.
BelongsToAny(r) == FindByCode(requests[r].code) # {}
Belongs(r) == requests[r].dep \in FindByCode(requests[r].code)

ValidatePort(r) ==
    LET q == requests[r] IN
    /\ At(r, FileOps, "department")
    /\ IF Belongs(r) THEN Wait(r, q.op, "act", q.dep, q.code, q.port, q.name) ELSE Answer(r)
    /\ UNCHANGED <<departments, ports, urls, objects, now, stood>>

(***************************************************************************)
(* POST upload-url.  The extension and the declared size may refuse the    *)
(* request; they depend on the request alone.                              *)
(***************************************************************************)
\* Mutant of UniqueFileName: no timestamp.
UniqueFileNameRandomOnly(ch) == [second |-> 0, chars |-> ch]
UniqueFileName(ch) == [second |-> now, chars |-> ch]

InUse == {u.key : u \in urls} \cup objects

GenerateUploadUrl(r, ch, accepted) ==
    LET key == [code |-> requests[r].code, port |-> requests[r].port, name |-> UniqueFileName(ch)]
    IN
    /\ At(r, {"upload"}, "act")
    /\ accepted => Cardinality(InUse \cup {key}) <= MaxFiles
    /\ urls' = IF accepted THEN urls \cup {[key |-> key, at |-> now]} ELSE urls
    /\ Answer(r)
    /\ UNCHANGED <<departments, ports, objects, now, stood>>

(***************************************************************************)
(* The client, or the server for it, PUTs by an upload URL, as often as it *)
(* likes while the signature is valid.                                     *)
(***************************************************************************)
Put(u) ==
    /\ u \in urls
    /\ objects' = objects \cup {u.key}
    /\ UNCHANGED <<departments, ports, requests, urls, now, stood>>

(***************************************************************************)
(* GET media: one call of ListObjectsV2, whose continuation token nobody   *)
(* reads.  DELETE media/:fileName: the answer may be an error although the *)
(* store deleted the object, or the call may not have reached it.          *)
(***************************************************************************)
UnderPrefix(c, p) == {k \in objects : k.code = c /\ k.port = p}

FindAllByPort(r) ==
    LET q == requests[r]
        found == UnderPrefix(q.code, q.port)
    IN
    /\ At(r, {"list"}, "act")
    /\ \E page \in SUBSET found :
         /\ Cardinality(page) = IF Cardinality(found) < MaxKeys THEN Cardinality(found) ELSE MaxKeys
         /\ listing' = [code |-> q.code, port |-> q.port, files |-> page]
    /\ Answer(r)
    /\ UNCHANGED <<departments, ports, urls, objects, now, stood>>

RemoveFile(r) ==
    LET q == requests[r] IN
    /\ At(r, {"remove"}, "act")
    /\ objects' = objects \ {[code |-> q.code, port |-> q.port, name |-> q.name]}
    /\ Answer(r)
    /\ UNCHANGED <<departments, ports, urls, now, stood>>

Fail(r) ==
    /\ requests[r] # None
    /\ Answer(r)
    /\ UNCHANGED <<departments, ports, urls, objects, now, stood>>

-----------------------------------------------------------------------------
Expired(u) == u.at + UrlLife < now + 1

Tick ==
    /\ now < MaxNow
    /\ \A r \in Requests : requests[r] # None => now < requests[r].at + Lag
    /\ now' = now + 1
    /\ urls' = {u \in urls : ~Expired(u)}
    /\ stood' = [d \in Departments |-> [c \in Codes |->
                   IF Active(d) /\ departments[d].code = c THEN now + 1 ELSE stood[d][c]]]
    /\ UNCHANGED <<departments, ports, requests, objects>>

Silent ==
    \/ \E d \in Departments, c \in Codes : CreateDepartment(d, c)
    \/ \E r \in Requests :
         \/ \E op \in SiteOps, d \in Departments, c \in Codes : FindDepartment(r, op, d, c)
         \/ UpdateDepartment(r) \/ RemoveDepartment(r)
         \/ \E c \in Codes, p \in Ports : FindSite(r, c, p)
         \/ CreatePort(r)
         \/ \E op \in FileOps, c \in Codes, p \in Ports, n \in PastNames \cup {None} :
              FindPort(r, op, c, p, n)
         \/ ValidatePort(r)
         \/ \E ch \in Chars, accepted \in BOOLEAN : GenerateUploadUrl(r, ch, accepted)
         \/ RemoveFile(r) \/ Fail(r)
    \/ \E u \in urls : Put(u)
    \/ Tick

Next ==
    \/ Silent /\ listing' = None
    \/ \E r \in Requests : FindAllByPort(r)

Spec == Init /\ [][Next]_vars
=============================================================================
