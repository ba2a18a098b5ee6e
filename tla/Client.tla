------------------------------- MODULE Client -------------------------------
(***************************************************************************)
(* The read-only exchange client (client, http): cursor walks over lists   *)
(* that change while they are walked, and what a reader may claim          *)
(* afterwards (history, coverage, and audit's reads of both).              *)
(*                                                                         *)
(* A list is newest first and its cursor is the last row of a page: what a *)
(* server answers to a cursor is what is older than it.  Rows are numbered *)
(* by age, 1 the oldest.  Fills move from the live route to the archive.   *)
(***************************************************************************)
EXTENDS Integers, FiniteSets, FiniteSetsExt

CONSTANTS
    PageLimit,   \* rows asked for in a page
    Budget,      \* max_fills and max_orders of a bounded walk
    MaxPages,    \* pages a market list is walked for
    MaxRetries,  \* further attempts of a request
    MaxRows      \* bound: rows that ever exist

VARIABLES
    exchange,  \* what the routes hold, and how they treat a query
    began,     \* the rows that existed when the read began
    walk,      \* the walk under way
    yielded,   \* rows handed to the reader
    claims     \* WalkStats of the walks, and what went wrong

clientVars == <<exchange, began, walk, yielded, claims>>

\* "history": run_audit's full history; "sample": its bounded read of fills.
Modes == {"history", "sample", "settlements", "orders", "markets"}
Nothing == 0        \* no cursor, no time
NotText == 0 - 1    \* a cursor that is not a string
Unbounded == 0 - 1

NoStats == [pages |-> 0, rows |-> 0, exhausted |-> FALSE, truncated |-> FALSE]
NoProbe == [asked |-> FALSE, answered |-> FALSE, older |-> 0]

\* A budget and a completeness claim are mutually exclusive.
Remaining(mode) == IF mode \in {"sample", "orders"} THEN Budget ELSE Unbounded
Start(mode, route) ==
    [mode |-> mode, route |-> route, cursor |-> Nothing, seen |-> {},
     left |-> Remaining(mode), tries |-> 0]

Init ==
    /\ \E rows \in 0 .. MaxRows, mode \in Modes, windowed, heeds \in BOOLEAN, odd \in SUBSET {1} :
         /\ mode # "settlements" => ~windowed /\ ~heeds /\ odd = {}
         /\ exchange = [live |-> 1 .. rows, archive |-> {}, unreadable |-> odd,
                        windowed |-> windowed, heeds |-> heeds]
         /\ began = 1 .. rows
         /\ walk = Start(mode, "live")
    /\ yielded = {}
    /\ claims = [live |-> NoStats, archive |-> NoStats, archiveFailed |-> FALSE,
                 raised |-> FALSE, probe |-> NoProbe]

-----------------------------------------------------------------------------
(* The exchange.                                                           *)

Rows == exchange.live \cup exchange.archive

NewRow ==
    /\ Cardinality(Rows) < MaxRows
    /\ exchange' = [exchange EXCEPT !.live = @ \cup {Cardinality(Rows) + 1}]
    /\ UNCHANGED <<began, walk, yielded, claims>>

\* The cutoff moves: the oldest live fill is served by the archive only.
Archive ==
    /\ walk.mode \in {"history", "sample"} /\ exchange.live # {}
    /\ LET oldest == Min(exchange.live) IN
       exchange' = [exchange EXCEPT !.live = @ \ {oldest}, !.archive = @ \cup {oldest}]
    /\ UNCHANGED <<began, walk, yielded, claims>>

\* What the route serves to the query without parameters.
Served(route) ==
    IF exchange.windowed THEN {r \in exchange[route] : r > 1} ELSE exchange[route]

Page(rows, cursor) ==
    [status |-> "ok", body |-> "object", list |-> TRUE, rows |-> rows, odd |-> FALSE,
     cursor |-> cursor]
NoRows(status, body, list) ==
    [Page({}, Nothing) EXCEPT !.status = status, !.body = body, !.list = list]

\* A page holds the newest rows older than the cursor, at most the limit, and
\* carries a cursor unless nothing older is left.
HonestPages(route, cursor, limit) ==
    LET older == {r \in Served(route) : cursor = Nothing \/ r < cursor} IN
    IF older = {} THEN {Page({}, Nothing)}
    ELSE UNION {LET page == {r \in older : Cardinality({o \in older : o >= r}) <= n} IN
                {Page(page, IF page = older THEN Nothing ELSE Min(page)), Page(page, Min(page))}
                 : n \in 1 .. limit}

\* What goes wrong: no answer, a status, a body that is not JSON or no object,
\* a missing list, an entry that is no object, a cursor that is not text, that
\* was given before, or that comes with an empty page.
Faults(page, seen) ==
    {NoRows(s, "none", FALSE) : s \in {"transport", "retryable", "refused"}}
      \cup {NoRows("ok", "broken", FALSE), NoRows("ok", "object", FALSE)}
      \cup {[page EXCEPT !.odd = TRUE], [page EXCEPT !.cursor = NotText], Page({}, 1)}
      \cup {[page EXCEPT !.cursor = c] : c \in seen}

-----------------------------------------------------------------------------
(* A page read.                                                            *)

\* urllib_transport, request_with_retries: 429, 5xx and no answer are retried.
Transient(a) == a.status \in {"transport", "retryable"}
Retried(a) == Transient(a) /\ walk.tries < MaxRetries

\* decode_json_object, _require_list: what is missing is never empty.
RequireList_MissingIsEmpty(a) == a.status = "ok" /\ a.body = "object"
RequireList(a) == a.status = "ok" /\ a.body = "object" /\ a.list

\* _next_cursor.
CursorFault(a) == a.cursor = NotText \/ a.cursor \in walk.seen

\* Rows a page yields before the budget stops the walk.
Within(rows) ==
    IF walk.left = Unbounded THEN rows
    ELSE {r \in rows : Cardinality({o \in rows : o >= r}) <= walk.left}
OutOfBudget(a) == walk.left # Unbounded /\ Cardinality(a.rows) >= walk.left

\* The page raises after its rows: a market list skips an entry that is no
\* object and takes an empty page.
Raises(a) ==
    \/ ~OutOfBudget(a) /\ walk.mode # "markets" /\ a.odd
    \/ ~OutOfBudget(a) /\ CursorFault(a)
    \/ ~OutOfBudget(a) /\ walk.mode # "markets" /\ a.rows = {} /\ a.cursor # Nothing

\* WalkStats after a page: settlements count a page before they look at it.
Counted(stats, a) ==
    [stats EXCEPT !.pages = @ + 1,
                  !.rows = @ + Cardinality(Within(a.rows))
                             + (IF a.odd /\ walk.mode = "settlements" THEN 1 ELSE 0),
                  !.exhausted = ~OutOfBudget(a) /\ ~Raises(a) /\ a.cursor = Nothing,
                  !.truncated = OutOfBudget(a)]

\* An archive that fails is recorded; any other failure ends the read.
Fail(stats) ==
    /\ walk' = [walk EXCEPT !.route = "done"]
    /\ claims' = [claims EXCEPT ![walk.route] = stats,
                                !.archiveFailed = @ \/ walk.route = "archive",
                                !.raised = @ \/ walk.route # "archive"]

\* The live fills, then the archive; settlements, then the probe.
AfterWalk ==
    IF walk.mode = "history" /\ walk.route = "live" THEN Start("history", "archive")
    ELSE [walk EXCEPT !.route = IF walk.mode = "settlements" THEN "probe" ELSE "done"]

\* iter_markets stops after its pages and says nothing of it.
LastPage == walk.mode = "markets" /\ Cardinality(walk.seen) + 1 = MaxPages

\* One answer to the request the walk waits for.
Answered(a) ==
    IF Retried(a)
    THEN walk' = [walk EXCEPT !.tries = @ + 1] /\ UNCHANGED <<yielded, claims>>
    ELSE IF ~RequireList(a)
    THEN Fail(claims[walk.route]) /\ UNCHANGED yielded
    ELSE LET stats == Counted(claims[walk.route], a) IN
         /\ yielded' = yielded \cup Within(a.rows)
         /\ IF Raises(a) THEN Fail(stats)
            ELSE /\ claims' = IF walk.mode = "markets" THEN claims
                              ELSE [claims EXCEPT ![walk.route] = stats]
                 /\ walk' = IF OutOfBudget(a) \/ a.cursor = Nothing \/ LastPage
                            THEN AfterWalk
                            ELSE [walk EXCEPT
                                    !.cursor = a.cursor, !.seen = @ \cup {a.cursor}, !.tries = 0,
                                    !.left = IF @ = Unbounded THEN @ ELSE @ - Cardinality(a.rows)]

\* A walk of fills asks for no more than it may still yield.
LimitOf == IF walk.mode = "sample" THEN Min({PageLimit, walk.left})
           ELSE IF walk.mode = "orders" THEN Min({PageLimit, Budget}) ELSE PageLimit

Receive ==
    /\ walk.route \in {"live", "archive"}
    /\ LET honest == HonestPages(walk.route, walk.cursor, LimitOf) IN
       \E page \in honest : \E a \in {page} \cup Faults(page, walk.seen) : Answered(a)
    /\ UNCHANGED <<exchange, began>>

-----------------------------------------------------------------------------
(* What may be claimed.                                                    *)

\* HistoryEvidence.complete.
Complete ==
    /\ walk.mode = "history" /\ walk.route = "done" /\ ~claims.raised
    /\ claims.live.exhausted /\ ~claims.live.truncated
    /\ claims.archive.exhausted /\ ~claims.archive.truncated
    /\ ~claims.archiveFailed

\* SettlementCoverage.observed_floor.
ObservedFloor ==
    IF claims.live.exhausted /\ ~claims.live.truncated /\ yielded # {}
         /\ yielded \cap exchange.unreadable = {}
    THEN Min(yielded) ELSE Nothing

\* SettlementCoverage.floor: withheld once an older row was served.
Floor == IF claims.probe.older > 0 THEN Nothing ELSE ObservedFloor

\* _probe_below_the_floor: one row is asked for; a route that knows max_ts
\* answers with the newest older one, another with its newest.  What fails is
\* recorded, and leaves the floor.
ProbeBelow ==
    /\ walk.route = "probe"
    /\ walk' = [walk EXCEPT !.route = "done"]
    /\ \/ ObservedFloor = Nothing /\ UNCHANGED claims
       \/ /\ ObservedFloor # Nothing
          /\ LET older == {r \in exchange.live : r < ObservedFloor}
                 row == IF exchange.heeds THEN older ELSE exchange.live
             IN \E ok \in BOOLEAN :
                  claims' = [claims EXCEPT !.probe =
                    [asked |-> TRUE, answered |-> ok,
                     older |-> IF ok /\ row # {} /\ Max(row) < ObservedFloor THEN 1 ELSE 0]]
    /\ UNCHANGED <<exchange, began, yielded>>

Next == NewRow \/ Archive \/ Receive \/ ProbeBelow

-----------------------------------------------------------------------------
(* Properties.                                                             *)

\* A complete history holds every fill there was when the read began, on
\* whichever route it was by the time that route was walked; an exhausted walk
\* of one route holds what the route served throughout; and a floor that a
\* probe was asked about has nothing older below it (_chain_fill_routes,
\* _iter_cursor_pages, _probe_below_the_floor).
ClaimedReadsAreWhole ==
    /\ Complete => began \subseteq yielded
    /\ claims.live.exhausted /\ walk.mode # "history"
         => began \cap Served("live") \subseteq yielded
    /\ walk.mode = "settlements" /\ walk.route = "done" /\ Floor # Nothing
         /\ claims.probe.answered /\ exchange.heeds
         => \A r \in Rows : r >= Floor
=============================================================================
