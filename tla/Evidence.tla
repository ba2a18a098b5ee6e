------------------------------ MODULE Evidence ------------------------------
(***************************************************************************)
(* The append-only execution-evidence ledger of one wager: the standalone  *)
(* importer contract/standalone/execution_evidence_ledger.py, the rows the *)
(* router builds for it (execution_evidence, evidence_emission, closes and *)
(* the cutoff of close_coverage), and the link a sport repository makes    *)
(* from its own decision records.                                          *)
(*                                                                         *)
(* Rows are made again and again while what they are made from still       *)
(* changes: the order fills further, decision records arrive late, candles *)
(* appear and move to the archive.  The first row under a key stays.       *)
(***************************************************************************)
EXTENDS Integers, Sequences, FiniteSets, SequencesExt, FiniteSetsExt

CONSTANTS
    Refs,          \* recommendations of the wager's market and side
    Window,        \* how long before the first fill a recommendation may be
    KickOff,       \* the scheduled start
    MaxGap,        \* age up to which a candle before the start is a close
    Lookback,      \* reach of the 1-minute candles before the cutoff
    WideLookback,  \* reach of the 60-minute candles
    HourTicks,     \* ticks in an hour
    Profile,       \* the destination: operator switch, importer, ledger path committable
    MaxTime,       \* bound: ticks of the clock
    MaxFills       \* bound: fills of the order

VARIABLES
    now,
    decisions,  \* decision records the sport repository holds: ref and time
    fills,      \* times of the order's fills
    candles,    \* time |-> what the minute's candle holds
    archived,   \* the market left the live route
    evidence    \* the rows of the ledger file

evVars == <<now, decisions, fills, candles, archived, evidence>>

\* "quoted": a quote or a trade; "crossed": the ask below the bid.
CandleKinds == {"quoted", "crossed", "empty"}

Init ==
    /\ now = 1
    /\ decisions = {} /\ fills = <<>>
    /\ candles = <<"empty">>
    /\ archived = FALSE
    /\ evidence = {}

-----------------------------------------------------------------------------
(* The world.                                                              *)

\* A minute passes and its candle is complete.
Minute(kind) ==
    /\ now < MaxTime
    /\ now' = now + 1 /\ candles' = Append(candles, kind)
    /\ UNCHANGED <<decisions, fills, archived, evidence>>

Fill ==
    /\ Len(fills) < MaxFills
    /\ fills' = Append(fills, now)
    /\ UNCHANGED <<now, decisions, candles, archived, evidence>>

\* A decision record becomes readable, at once or late.
Decide(ref, at) ==
    /\ at <= now /\ \A d \in decisions : d.ref # ref
    /\ decisions' = decisions \cup {[ref |-> ref, at |-> at]}
    /\ UNCHANGED <<now, fills, candles, archived, evidence>>

Archive ==
    /\ ~archived /\ now > KickOff
    /\ archived' = TRUE
    /\ UNCHANGED <<now, decisions, fills, candles, evidence>>

-----------------------------------------------------------------------------
(* Rows.                                                                   *)

\* emission_allowed.
EmissionAllowed == Profile.switch /\ Profile.importer /\ Profile.committable

\* build_execution_evidence, execution_row.
ExecutionRow ==
    [kind |-> "EXECUTION", producer |-> "router", extra |-> FALSE,
     first |-> Min(Range(fills)), last |-> Max(Range(fills)), count |-> Len(fills)]

\* resolve_close over the candles of one response.
Missing == [quality |-> "MISSING", asOf |-> 0, cutoff |-> 0, period |-> 0]

ResolveClose(ends, cutoff, period) ==
    LET usable == {t \in ends : t <= cutoff /\ candles[t] # "empty"}
    IN  IF usable = {} \/ candles[Max(usable \cup {1})] = "crossed" THEN Missing
        ELSE [quality |-> IF cutoff - Max(usable) <= MaxGap THEN "TRUE_CLOSE" ELSE "EARLIER_QUOTE_PROXY",
              asOf |-> Max(usable), cutoff |-> cutoff, period |-> period]

\* The candles a route serves: the live one while the market is live, the
\* historical one once it is archived.
Served(historical, ends) == IF historical = archived THEN ends ELSE {}

\* fetch_and_resolve: minutes first, hours after them, in each the live route
\* and, if that is empty, the historical one; the first TRUE_CLOSE, else the
\* latest proxy.  An hour's candle holds what its last minute holds.
FetchAndResolve(cutoff) ==
    LET minutes == {t \in 1..now : t >= cutoff - Lookback /\ t <= cutoff}
        hours == {t \in 1..now : t >= cutoff - WideLookback /\ t <= cutoff /\ t % HourTicks = 0}
        near == ResolveClose(Served(FALSE, minutes) \cup Served(TRUE, minutes), cutoff, 1)
        wide == ResolveClose(Served(FALSE, hours) \cup Served(TRUE, hours), cutoff, 60)
    IN  IF near.quality = "TRUE_CLOSE" THEN near
        ELSE IF wide.quality = "TRUE_CLOSE" THEN wide
        ELSE IF near.asOf >= wide.asOf THEN near ELSE wide

\* close_row: without a cutoff, or with two that disagree, the close is
\* MISSING; with the source of its cutoff the body has one field too many.
CloseRow(cutoffs, named) ==
    LET close == IF Cardinality(cutoffs) = 1 THEN FetchAndResolve(CHOOSE c \in cutoffs : TRUE) ELSE Missing
    IN  [kind |-> "CLOSE", producer |-> "router", extra |-> named /\ close.quality # "MISSING",
         quality |-> close.quality, asOf |-> close.asOf, cutoff |-> close.cutoff,
         period |-> close.period]

\* link_recommendation from the execution on file.  Every decision here is of
\* the order's own market and side.
Hits(first) == {d \in decisions : 0 <= first - d.at /\ first - d.at <= Window}

\* The nearest of several.
LinkStatus_Nearest(hits) == IF hits = {} THEN "MISSING" ELSE "LINKED"

LinkStatus(hits) ==
    IF hits = {} THEN "MISSING"
    ELSE IF \E d, e \in hits : d.ref # e.ref THEN "AMBIGUOUS" ELSE "LINKED"

Latest(hits) == CHOOSE d \in hits : \A e \in hits : e.at <= d.at

Unlinked == [ref |-> "none", at |-> 0]

LinkRow(execution) ==
    LET hits == Hits(execution.first)
        status == LinkStatus(hits)
        pick == IF status = "LINKED" THEN Latest(hits) ELSE Unlinked
    IN  [kind |-> "LINK", producer |-> "edge_finder", extra |-> FALSE, status |-> status,
         ref |-> pick.ref, asOf |-> pick.at, considered |-> Cardinality(hits)]

-----------------------------------------------------------------------------
(* The importer.                                                           *)

Producers(kind) ==
    CASE kind = "EXECUTION" -> {"router"}
      [] kind = "CLOSE" -> {"router", "edge_finder"}
      [] kind = "LINK" -> {"edge_finder"}

\* validate_row.
ValidRow(row) ==
    /\ row.producer \in Producers(row.kind) /\ ~row.extra
    /\ row.kind = "EXECUTION" => row.first > 0 /\ row.first <= row.last
    /\ (row.kind = "CLOSE" /\ row.quality # "MISSING") =>
         row.asOf > 0 /\ row.asOf <= row.cutoff /\ (row.quality = "TRUE_CLOSE" => row.period <= 60)
    /\ row.kind = "LINK" => ((row.status = "LINKED") <=> (row.ref # "none"))

\* row_key.
RowKey(row) ==
    CASE row.kind = "EXECUTION" -> <<"EXECUTION">>
      [] row.kind = "CLOSE" -> <<"CLOSE", row.quality>>
      [] row.kind = "LINK" -> <<"LINK", row.status, row.ref>>

\* import_rows for one row: NEW is appended; DUPLICATE_NOOP, CONFLICT and
\* REFUSED leave the file, and which of the three it was is not kept.  All rows
\* are of one wager, so the source key of its execution is implied.  The CLOSE
\* rows of edge_finder are not made.
Filed(ledger, row) ==
    IF ValidRow(row) /\ \A r \in ledger : RowKey(r) # RowKey(row) THEN ledger \cup {row} ELSE ledger

\* build_payload: the execution and, when the caller has one, the close.
\* The start is stated by nobody, by one source or by two.
ImportFromRouter(cutoffs, named, withClose) ==
    /\ EmissionAllowed /\ fills # <<>>
    /\ LET executed == Filed(evidence, ExecutionRow)
       IN  evidence' = IF withClose THEN Filed(executed, CloseRow(cutoffs, named)) ELSE executed
    /\ UNCHANGED <<now, decisions, fills, candles, archived>>

ImportLink ==
    /\ \E row \in evidence : row.kind = "EXECUTION" /\ evidence' = Filed(evidence, LinkRow(row))
    /\ UNCHANGED <<now, decisions, fills, candles, archived>>

Next ==
    \/ \E kind \in CandleKinds : Minute(kind)
    \/ Fill \/ Archive
    \/ \E ref \in Refs, at \in 1..MaxTime : Decide(ref, at)
    \/ \E cutoffs \in SUBSET {KickOff, KickOff + 1}, named \in BOOLEAN, withClose \in BOOLEAN :
         ImportFromRouter(cutoffs, named, withClose)
    \/ ImportLink

Spec == Init /\ [][Next]_evVars

-----------------------------------------------------------------------------
(* Properties.                                                             *)

\* validate_ledger.
LedgerValidates ==
    /\ \A r \in evidence : ValidRow(r)
    /\ \A r, q \in evidence : RowKey(r) = RowKey(q) => r = q

\* Whatever arrives late and however often the rows are made again, the
\* ledger asserts at most one recommendation for the wager.
OneRecommendationPerWager ==
    /\ LedgerValidates
    /\ \A r, q \in {l \in evidence : l.kind = "LINK" /\ l.status = "LINKED"} : r.ref = q.ref
=============================================================================
