-------------------------- MODULE ListsProperties --------------------------
(***************************************************************************)
(* What the lists and the answers to writes owe their clients.             *)
(***************************************************************************)
EXTENDS Lists

(***************************************************************************)
(* INVARIANTS                                                              *)
(***************************************************************************)

\* Of the rows that stood throughout, those that share their createdAt with others may be
\* missed, since each page may show them in an order of its own.  Of all other rows a walk
\* from the first page to totalPages passes over no more than were removed meanwhile,
\* whichever they were: a removal may pull one row over the border of two pages, or end the
\* walk one page early.  Creations, even of rows that appear in the middle, make it miss
\* none.  (skip, take, count and totalPages of the four services that forward page and limit.)
Overlooked == {i \in walk.watched \ walk.seen : Alone(i)}
WalksMissOnlyForRemovals ==
    list \in Forwarding /\ walk.pc = "done" => Cardinality(Overlooked) <= walk.removed

\* A row that shares its createdAt with no other is shown on two pages only if a row was
\* created in between that pushed it over the border.
WalksRepeatOnlyForCreations ==
    list \in Forwarding => walk.repeats <= walk.inserted

\* What the page the walk is at holds when n rows are selected.
Due(n) == LET skipped == Skip(walk.page, walk.limit) IN
          IF n <= skipped THEN 0 ELSE IF n <= skipped + walk.limit THEN n - skipped ELSE walk.limit

\* The total and the items of one answer come from two snapshots: they disagree by no
\* more than the writes in between, and do so about rows the list may show (none that is
\* deleted is counted).
TotalsFitTheirPage ==
    list \in Forwarding /\ walk.pc \in {"shown", "done"} =>
        /\ Due(walk.total) <= Cardinality(walk.items) + walk.skew
        /\ Cardinality(walk.items) <= Due(walk.total) + walk.skew

\* How many of the selected rows come before a row that is alone.
Position(selected, i) == Cardinality({j \in selected : createdAt[j] > createdAt[i]})

\* permissions.controller.ts:61 documents paging, as the controllers of the other lists do,
\* and meta repeats the page asked for; but page and limit do not reach the repository.
\* However far a walk goes and whatever limit it asks for, of the rows that share their
\* createdAt with no other it shows those that are among the first ten (DefaultLimit), or
\* were before rows created meanwhile pushed them back: all others are out of reach.
PermissionsShowTheFirstPage ==
    list = "permissions" /\ Walking =>
        \A i \in walk.seen : Alone(i) => Position(Live, i) < DefaultLimit + walk.inserted

\* One removal of a row is answered with success, even if two requests found it before
\* either removed it; of the lists that keep deleted rows this is not so.
RemovedByOne ==
    list \notin Soft =>
        \A q, r \in Requests :
            /\ requests[q] # None /\ requests[q].op = "remove" /\ requests[q].answer = Ok
            /\ requests[r] # None /\ requests[r].op = "remove" /\ requests[r].answer = Ok
            /\ requests[q].id = requests[r].id
            => q = r

\* Rows: those with a createdAt have been created; only two tables keep deleted rows; a row that
\* is stamped waits for the one request that creates it; a removal answered with success has
\* left nothing where rows are not kept; a client knows only rows that were inserted.
RequestFits(q) ==
    requests[q] # None =>
        LET r == requests[q] IN
        /\ r.op = "create" => r.pc # "check"
        /\ Writing(q, "create") => rows[r.id] = [state |-> "stamped", key |-> r.key]
        /\ r.op # "create" => rows[r.id].state \in {"live", "deleted", "gone"}
        /\ r.op = "remove" /\ r.answer = Ok /\ list \notin Soft => rows[r.id].state = "gone"
RowsFit ==
    /\ \A i \in Ids : i \in Created <=> rows[i].state # "unused"
    /\ list \notin Soft => \A i \in Ids : rows[i].state # "deleted"
    /\ \A q \in Requests : RequestFits(q)
    /\ \A q, s \in Requests :
           Writing(q, "create") /\ Writing(s, "create") /\ requests[q].id = requests[s].id => q = s
    /\ \A i \in walk.seen \cup walk.items : rows[i].state \in {"live", "deleted", "gone"}

\* The walk: of the rows alone on the pages fetched so far no more are missed than were removed,
\* and no more of those shown have moved behind them than were inserted, repeats included.
Fetched == IF walk.pc \in {"idle", "find"} THEN Skip(walk.page, walk.limit)
           ELSE Skip(walk.page, walk.limit) + walk.limit
Missed == {i \in Overlooked : Position(Live, i) < Fetched}
Ahead == {i \in walk.seen \cap Live : Alone(i) /\ Position(Live, i) >= Fetched}
WalkFits ==
    /\ walk.pc = "idle" => walk.page = 1 /\ walk.seen = {} /\ walk.repeats = 0 /\ walk.inserted = 0 /\ walk.removed = 0
    /\ Walking => walk.watched \subseteq Live
    /\ list \in Forwarding /\ Walking =>
           /\ Cardinality(Missed) <= walk.removed
           /\ Cardinality(Ahead) + walk.repeats <= walk.inserted
    /\ list \in Forwarding /\ walk.pc = "shown" /\ walk.total <= Skip(walk.page, walk.limit) + walk.limit =>
           Cardinality(Overlooked) <= walk.removed

\* How far the rows of now are from those of the page.
CountFits ==
    list \in Forwarding /\ walk.pc = "count" =>
        /\ Due(Cardinality(Live)) <= Cardinality(walk.items) + walk.skew
        /\ Cardinality(walk.items) <= Due(Cardinality(Live)) + walk.skew

\* The types, and what holds of a list in every state: an inductive invariant.
ListsInv ==
    LTypeOK /\ RowsFit /\ WalkFits /\ CountFits /\ RemovedByOne

(***************************************************************************)
(* ACTION PROPERTY                                                         *)
(***************************************************************************)

\* A request is told the truth as of its write: success only if the row is as asked, 404 only
\* about a row that no list shows, 409 from a conflict of keys only about a key that another
\* row holds; and an answer of 400 to 499 has changed no row that was there.  An answer of 500
\* tells nothing: the connection may have been lost after the row was written.
ToldTheOutcome(q) ==
    requests[q] # None /\ requests[q].pc # "done" /\ requests'[q].pc = "done" =>
        LET r == requests'[q] IN
        /\ r.answer = Ok => CASE r.op = "remove" -> rows'[r.id].state # "live"
                              [] r.op = "update" -> Stored(r.id) /\ rows'[r.id].key = r.key
                              [] r.op = "create" -> rows'[r.id].key = r.key /\ rows'[r.id].state \in {"live", "deleted"}
        /\ r.answer.status \in 400..499 => \A i \in Ids : Stored(i) => rows'[i] = rows[i]
        /\ r.answer.status = 404 => r.id \notin Live
        /\ r.answer = Failure("P2002") => Holders(r.key) \ {r.id} # {}
AnswersTellTheOutcome == [][\A q \in Requests : ToldTheOutcome(q)]_vars
=============================================================================
