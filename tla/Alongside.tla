------------------------------ MODULE Alongside -----------------------------
(***************************************************************************)
(* The components that run alongside deliveries and settlements.  They     *)
(* share no file and call none of one another, so their interleavings say  *)
(* nothing: a behaviour is one of one component (focus), with the others   *)
(* at rest.  Bankroll is extended, the others are instances: every         *)
(* constant and variable of theirs is the one of the same name here.       *)
(***************************************************************************)
EXTENDS Bankroll, Sequences, FiniteSets

\* Entry capture.
CONSTANTS Orders, TickerOf, FillsOf, Watched, LegacyOrders, ThinAt,
          OrderLimit, FreshSeconds, Horizon, MaxClock, MaxKills

VARIABLES clock, placed, executed, tape, link, disk, copy, branch, kills
Capture == INSTANCE EntryCapture

\* Operations: the conductor dispatches the targets that have a cadence.
CONSTANTS Cadence, ListLimit, StaleAfter, Length, Lead

VARIABLES runs, conductor, successor, health
Ops == INSTANCE Operations

\* The app tree.
CONSTANTS Boards, RunOf, MaxCrashes

VARIABLES attempt, tree, publisher, bundles, reader, crashes
Tree == INSTANCE AppTree

\* Evidence.
CONSTANTS Refs, RecommendedWithin, KickOff, MaxGap, Lookback, WideLookback, HourTicks,
          Profile, MaxTime, MaxFills

VARIABLES now, decisions, fills, candles, archived, evidence
Ev == INSTANCE Evidence WITH Window <- RecommendedWithin

\* The client.
CONSTANTS PageLimit, Budget, MaxPages, MaxRetries, MaxRows

VARIABLES exchange, began, walk, yielded, claims
Reads == INSTANCE Client

\* The backfill, and what the exchange serves while others are at work.
CONSTANTS Sports, Traded, Servable, MaxRuns, MaxHand, RestSport, RestServed

VARIABLES sport, raws, ledger, catchup, proposal, hands
CatchUp == INSTANCE Backfill

\* What the proofs need of the constants.
ASSUME BoundsAreNumbers == {Horizon, OrderLimit, MaxTime, MaxRows, PageLimit, Budget} \subseteq Nat
ASSUME LegacyIsFinite == IsFiniteSet(LegacyOrders)
ASSUME TradesAreTrades ==
    /\ IsFiniteSet(Traded)
    /\ \A f \in Traded : {f.price, f.count, f.fee} \subseteq Int
    /\ \A f, g \in Traded : f.id = g.id => f = g
ASSUME ServedAreTraded ==
    \A objects \in Servable :
        /\ \A raw \in objects : \E f \in Traded : CatchUp!Describes(raw, f)
        /\ \A one, other \in objects : one.id = other.id => one = other

VARIABLE focus  \* the component this behaviour is of

captureVars == <<clock, placed, executed, tape, link, disk, copy, branch, kills>>
opsVars == <<runs, conductor, successor, health>>
treeVars == <<attempt, tree, publisher, bundles, reader, crashes>>
evVars == <<now, decisions, fills, candles, archived, evidence>>
clientVars == <<exchange, began, walk, yielded, claims>>
backfillVars == <<sport, raws, ledger, catchup, proposal, hands>>
vars == <<captureVars, opsVars, treeVars, evVars, clientVars, bankrollVars, backfillVars, focus>>

\* Where a component begins in one of several states, those at rest are in one.
Resting ==
    /\ focus # "client" => /\ began = {} /\ walk = Reads!Start("markets", "live")
    /\ focus # "bankroll" => token
    /\ focus # "backfill" => sport = RestSport /\ raws = RestServed

InitAlongside ==
    /\ focus \in {"capture", "operations", "tree", "evidence", "client", "bankroll", "backfill"}
    /\ Capture!Init /\ Ops!Init /\ Tree!Init /\ Ev!Init
    /\ Reads!Init /\ Init /\ CatchUp!Init
    /\ Resting

NextAlongside ==
    \/ /\ focus = "capture" /\ Capture!Next
       /\ UNCHANGED <<opsVars, treeVars, evVars, clientVars, bankrollVars, backfillVars, focus>>
    \/ /\ focus = "operations" /\ Ops!Next
       /\ UNCHANGED <<captureVars, treeVars, evVars, clientVars, bankrollVars, backfillVars, focus>>
    \/ /\ focus = "tree" /\ Tree!Next
       /\ UNCHANGED <<captureVars, opsVars, evVars, clientVars, bankrollVars, backfillVars, focus>>
    \/ /\ focus = "evidence" /\ Ev!Next
       /\ UNCHANGED <<captureVars, opsVars, treeVars, clientVars, bankrollVars, backfillVars, focus>>
    \/ /\ focus = "client" /\ Reads!Next
       /\ UNCHANGED <<captureVars, opsVars, treeVars, evVars, bankrollVars, backfillVars, focus>>
    \/ /\ focus = "bankroll" /\ Next
       /\ UNCHANGED <<captureVars, opsVars, treeVars, evVars, clientVars, backfillVars, focus>>
    \/ /\ focus = "backfill" /\ CatchUp!Next
       /\ UNCHANGED <<captureVars, opsVars, treeVars, evVars, clientVars, bankrollVars, focus>>

\* A step of the components' scheduling.
Does(step) == focus = "operations" /\ step

\* Time passes, the hourly cron comes, a job whose minutes are over ends, runs
\* begin and end (every job has a timeout), the publisher's own cron comes and
\* reads what it needs.  A list may fail and a dispatch be refused for a
\* while, not for ever.
Fairness ==
    /\ WF_opsVars(Does(Ops!Tick)) /\ WF_opsVars(Does(Ops!Cron))
    /\ WF_opsVars(Does(Ops!EndOfJob /\ conductor.left = 0))
    /\ WF_opsVars(Does(Ops!PublishFromLogs))
    /\ \A t \in DOMAIN Cadence :
         /\ WF_opsVars(Does(Ops!Begin(t))) /\ WF_opsVars(Does(Ops!Finish(t)))
         /\ SF_opsVars(Does(Ops!FindDue(t))) /\ SF_opsVars(Does(Ops!Dispatch(t)))

Spec == InitAlongside /\ [][NextAlongside]_vars /\ Fairness

\* An order counted with a fresh entry quote was joined to a book the exchange
\* showed before the order was placed, and is in one of the collector's cohorts
\* only (Ring, join_order, process_orders).
EntryQuotesAreHonest == Capture!EntryQuotesAreHonest

\* The published statistics lose no order and change none, whatever is killed
\* between a save, a copy and a push (save_atomic, publish, the restore step).
PublishedTotalsNeverDrop == Capture!PublishedTotalsNeverDrop

\* A reader of app/latest that finds no problem has read one publication, and
\* the naming file never names what is not there (publish, verify_published).
PublishedTreeIsWhole == Tree!PublishedTreeIsWhole

\* The evidence ledger validates and asserts at most one recommendation for the
\* wager, however late its records arrive (import_rows, link_recommendation).
OneRecommendationPerWager == Ev!OneRecommendationPerWager

\* A complete history holds every fill there was when the read began, on
\* whichever route it was by the time that route was walked; an exhausted walk
\* of one route holds what the route served throughout; and a floor that a
\* probe was asked about has nothing older below it (_chain_fill_routes,
\* _iter_cursor_pages, _probe_below_the_floor).
ClaimedReadsAreWhole == Reads!ClaimedReadsAreWhole

\* A backfilled wager is written at most once, at its cost, and never for a
\* market and side that the ledger its run read already had a row for, whoever
\* wrote it and in whichever words (reconcile_one, normalize_fill).
BackfillWritesOnlyTheMissing == CatchUp!BackfillWritesOnlyTheMissing

\* Runs of a target never stop being started, whatever its last runs ended as
\* and however often the chain of conductors breaks (decide, should_chain).
ScheduleNeverStops == focus = "operations" => \A t \in DOMAIN Cadence : Ops!KeepsStarting(t)

\* The health document does not say HEALTHY for ever over a delivery or a
\* settlement that failed or is blocked (build_documents).
FailureIsNeverHidden == focus = "operations" => []<>~Ops!FailureHidden
=============================================================================
