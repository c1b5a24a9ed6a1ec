-------------------------- MODULE MediaProperties --------------------------
(***************************************************************************)
(* What remains true of files whose right to exist is read in one system   *)
(* and used in another: delays are bounded, and nobody reaches the files   *)
(* of a port under a code its department never bore.                       *)
(***************************************************************************)
EXTENDS Media

(***************************************************************************)
(* The department d has been active under the code c, and was so not more  *)
(* than span seconds before t.                                             *)
(***************************************************************************)
EverStood(d, c) == d # None /\ stood[d][c] # None
Stood(d, c, t, span) == EverStood(d, c) /\ t <= stood[d][c] + span

(***************************************************************************)
(* The inductive invariant: every request, URL and object can be traced    *)
(* back to a moment at which the department of its port stood under its    *)
(* code.  Concerns validatePortBelongsToDepartment and its three callers.  *)
(***************************************************************************)
ActiveStand == \A d \in Departments :
    /\ Active(d) => stood[d][departments[d].code] = now
    /\ \A c \in Codes : stood[d][c] # None => stood[d][c] <= now

RequestsStood == \A r \in Requests :
    LET q == requests[r] IN
    q # None =>
      /\ q.at <= now /\ now <= q.at + Lag
      /\ q.op \in FileOps => q.port \in Ports /\ q.dep = ports[q.port]
      /\ q.op = "port" => q.port \in Ports
      /\ q.op = "remove" <=> q.name # None
      /\ q.pc = "act" /\ q.op \in FileOps \cup {"port"} => Stood(q.dep, q.code, q.at, 0)
      /\ q.op \in {"update", "delete"} =>
           /\ departments[q.dep] # None
           /\ Active(q.dep) \/ q.at <= departments[q.dep].deletedAt

UrlsStood == \A u \in urls :
    /\ u.at = u.key.name.second
    /\ u.at <= now /\ now <= u.at + UrlLife
    /\ Stood(ports[u.key.port], u.key.code, u.at, Lag)

ObjectsStood == \A k \in objects : EverStood(ports[k.port], k.code)

MediaInv == MTypeOK /\ ActiveStand /\ RequestsStood /\ UrlsStood /\ ObjectsStood

(***************************************************************************)
(* After a department is renamed or deleted, what was begun under its code *)
(* goes on for a while and no longer: a file appears only within Lag and   *)
(* the life of a URL of a moment at which the department of its port stood *)
(* under the code of its key, and it disappears, and a port is created,    *)
(* only within Lag.  Concerns the checks of ports.service.ts against PATCH *)
(* and DELETE of departments.                                              *)
(***************************************************************************)
EffectsNeedAStandingSite ==
    [][ /\ \A k \in objects' \ objects : Stood(ports[k.port], k.code, now, Lag + UrlLife)
        /\ \A k \in objects \ objects' : Stood(ports[k.port], k.code, now, Lag)
        /\ \A p \in Ports : ports'[p] # ports[p] =>
             ports[p] = None /\ \E c \in Codes : Stood(ports'[p], c, now, Lag)
      ]_vars

(***************************************************************************)
(* An object appears only while a URL signed in the second its name tells  *)
(* may be valid: a file that was removed later than that never comes back, *)
(* neither by a late upload nor because another upload gets its name.      *)
(* Concerns generateUniqueFileName.                                        *)
(***************************************************************************)
FilesStayGone == [][\A k \in objects' \ objects : now <= k.name.second + UrlLife]_vars

(***************************************************************************)
(* GET media answers all files of the port, as the controller says of it   *)
(* ("toàn bộ tệp tin thuộc một Port").  The code does not keep this: it    *)
(* lists what is under the code in the path, so files uploaded before the  *)
(* department was renamed are left out, and one call of ListObjectsV2      *)
(* answers at most MaxKeys of the rest.  Concerns findAllByPort.           *)
(***************************************************************************)
ListingsShowEveryFile ==
    [][ listing' # listing /\ listing' # None =>
          {k \in objects : k.port = listing'.port} \subseteq listing'.files
      ]_vars

(***************************************************************************)
(* A deleted department stays deleted, and it changes at all (its code by  *)
(* a PATCH, its deletedAt by a DELETE that found it active) only within    *)
(* Lag of its deletion.  Concerns DepartmentsService.update and remove,    *)
(* which write by id alone.                                                *)
(***************************************************************************)
DeletionsSettle ==
    [][ \A d \in Departments :
          departments[d] # None /\ ~Active(d) /\ departments'[d] # departments[d] =>
            /\ departments'[d] # None /\ departments'[d].deletedAt # None
            /\ now <= departments[d].deletedAt + Lag
      ]_vars
=============================================================================
