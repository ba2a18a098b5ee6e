------------------------------ MODULE Pipeline ------------------------------
(***************************************************************************)
(* One `deliver` run after another: cli.py takes the time, audit.py reads  *)
(* the account's fills on the live route and then in the archive, resolves *)
(* each market through metadata.py's caches, reads the taxonomy, and       *)
(* production.py passes every order through its gates; what is eligible is *)
(* written to the destinations' payloads and the run says in one word how  *)
(* it went.  Meanwhile orders fill, markets close, fills move into the     *)
(* archive and any lookup may fail.                                        *)
(*                                                                         *)
(* Times are whole seconds of a coarse clock.  A fill is its time: every   *)
(* fill is one contract, at most one a tick for one order.                 *)
(***************************************************************************)
EXTENDS Classification, Sequences, SequencesExt, FiniteSetsExt

CONSTANTS
    Orders, TickerOf,   \* the account's orders and their market
    TickerOrder,        \* every market ticker, in the order sorted() gives
    EventOf, SeriesOf,  \* the event and the series of a market
    Catalogues,         \* what the exchange may say of markets, orders and sports
    Lively,             \* those of them under which orders also fill and markets close
    Fragile,            \* those of them under which calls also fail
    Trading,            \* the orders that then fill; the others never do
    Routed,             \* DESTINATION_REPOS: leagues with an active profile
    Shaped,             \* ROW_BUILDERS: leagues with a row shape
    ComboRecorders,     \* leagues whose destination records combos
    Cutover,            \* PRODUCTION_CUTOVER_ISO
    Window,             \* STABILIZATION_SECONDS
    MaxClock,           \* bound: ticks of the clock
    MaxFills,           \* bound: fills of one order
    MaxChanges,         \* bound: closings and archivings in a behaviour
    MaxFaults           \* bound: calls that fail in a behaviour

Tickers == Range(TickerOrder)

ASSUME Parameters ==
    /\ Lively \cup Fragile \subseteq Catalogues /\ Trading \subseteq Orders
    /\ TickerOf \in [Orders -> Tickers]
    /\ Routed \subseteq Shaped /\ Shaped \subseteq Leagues /\ ComboRecorders \subseteq Routed
    /\ TickerOrder \in Seq(STRING)
    /\ {Cutover, MaxClock, MaxFills, MaxChanges, MaxFaults} \subseteq Nat /\ Cutover < MaxClock
    /\ Window \in Nat \ {0}

\* What an order's fills carry: all of it, no price, no fee on one of them, or
\* two markets or sides under one order id.
Bookings == {"complete", "unpriced", "feeless", "contradictory"}

MarketFacts ==
    [competition : STRING, seriesMarks : SUBSET TextMarks, eventMarks : SUBSET TextMarks,
     registry : Leagues \cup {Nothing}, legs : SUBSET Tickers, namelessLeg : BOOLEAN,
     collection : BOOLEAN, fieldDate : STRING, tickerDate : STRING]

ASSUME CataloguesAreTyped ==
    \A c \in Catalogues :
        /\ c.markets \in [Tickers -> MarketFacts] /\ c.booked \in [Orders -> Bookings]
        /\ IsFiniteSet(c.claims) /\ c.claims \subseteq STRING \X STRING
        /\ \A claim \in c.claims : claim[2] \notin {"null", "failed", "malformed"}

VARIABLES
    catalogue,  \* [markets, booked, claims]: fixed, what a lookup would answer
    clock,
    fills,      \* order |-> times of its fills, oldest first
    open,       \* markets still open
    archive,    \* fills before this time are served by the archive only
    run,        \* the run in progress, or the last one
    handed,     \* wagers ever written to a destination's payload
    changes,    \* closings and archivings so far
    faults      \* failed calls so far

exchange == <<catalogue, clock, fills, open, archive, changes>>
vars == <<exchange, run, handed, faults>>

-----------------------------------------------------------------------------
(* The run's record.                                                       *)

NoTaxonomy == [read |-> FALSE, claims |-> {}]

Fresh(now) ==
    [pc |-> "live", now |-> now,
     seen |-> [o \in Orders |-> {}],  \* fills read so far; one id is kept once
     archiveRead |-> FALSE,
     contexts |-> <<>>,               \* ticker |-> what the resolver cached
     status |-> <<>>,                 \* ticker |-> open or closed, as read with it
     lost |-> {},                     \* event and series lookups that failed
     taxonomy |-> NoTaxonomy,
     payload |-> {}, refused |-> <<>>, health |-> "none"]

Idle == [Fresh(0) EXCEPT !.pc = "idle"]

\* Either nothing has happened yet, or the trading is over before the first run.
Init ==
    /\ \/ /\ catalogue \in Lively
          /\ clock = 0 /\ changes = 0
          /\ fills = [o \in Orders |-> <<>>]
       \/ /\ catalogue \in Catalogues
          /\ clock = MaxClock /\ changes = MaxChanges
          /\ fills = [o \in Orders |-> <<Cutover + 1>>]
    /\ archive = 0
    /\ faults = IF catalogue \in Fragile THEN 0 ELSE MaxFaults
    /\ open = Tickers
    /\ run = Idle
    /\ handed = {}

-----------------------------------------------------------------------------
(* The exchange.                                                           *)

Tick == clock < MaxClock /\ clock' = clock + 1
        /\ UNCHANGED <<catalogue, fills, open, archive, changes, run, handed, faults>>

\* An order fills in an open market.  The stabilization window rests on the
\* measured span of an order's fills: the next one comes within Window of the
\* last.  The clock's bound leaves every order time to become stable.
Fill(o) ==
    /\ TickerOf[o] \in open /\ Len(fills[o]) < MaxFills /\ clock + Window <= MaxClock
    /\ fills[o] # <<>> => Last(fills[o]) < clock /\ clock < Last(fills[o]) + Window
    /\ fills' = [fills EXCEPT ![o] = Append(@, clock)]
    /\ UNCHANGED <<catalogue, clock, open, archive, changes, run, handed, faults>>

Close(t) ==
    /\ t \in open /\ changes < MaxChanges
    /\ open' = open \ {t} /\ changes' = changes + 1
    /\ UNCHANGED <<catalogue, clock, fills, archive, run, handed, faults>>

\* GET /historical/cutoff moves up: fills leave the live route.
Archive ==
    /\ archive < clock /\ changes < MaxChanges
    /\ archive' \in (archive + 1)..clock /\ changes' = changes + 1
    /\ UNCHANGED <<catalogue, clock, fills, open, run, handed, faults>>

-----------------------------------------------------------------------------
(* Reading the fills.                                                      *)

\* _run_deliver takes the time before anything is read.
Start ==
    /\ run.pc = "idle"
    /\ run' = Fresh(clock)
    /\ UNCHANGED <<exchange, handed, faults>>

Observe(seen, served) == [o \in Orders |-> seen[o] \cup (Range(fills[o]) \cap served)]

\* iter_fills, unbounded.  A failure here ends the run with EXIT_API.
ReadLive ==
    /\ run.pc = "live"
    /\ \/ /\ run' = [run EXCEPT !.seen = Observe(@, archive..MaxClock), !.pc = "archive"]
          /\ UNCHANGED faults
       \/ /\ faults < MaxFaults /\ faults' = faults + 1
          /\ run' = [Idle EXCEPT !.health = "failed"]
    /\ UNCHANGED <<exchange, handed>>

\* iter_historical_fills, after the live route: a fill that moves in between
\* is read twice, never missed.  A failure is recorded and the run goes on.
ReadArchive ==
    /\ run.pc = "archive"
    /\ \/ /\ run' = [run EXCEPT !.seen = Observe(@, 0..(archive - 1)),
                                !.archiveRead = TRUE, !.pc = "markets"]
          /\ UNCHANGED faults
       \/ /\ faults < MaxFaults /\ faults' = faults + 1
          /\ run' = [run EXCEPT !.pc = "markets"]
    /\ UNCHANGED <<exchange, handed>>

-----------------------------------------------------------------------------
(* Resolving markets: market, then event, event metadata and series, each  *)
(* asked for once a run whatever it answered.                              *)

Resolved == DOMAIN run.contexts

\* The lookups one more market costs: those no earlier market has made.
Lookups(t) ==
    LET known == {u \in Resolved : run.contexts[u].found}
    IN  (IF \E u \in known : EventOf[u] = EventOf[t]
         THEN {} ELSE {<<"event", EventOf[t]>>, <<"metadata", EventOf[t]>>})
        \cup (IF \E u \in known : SeriesOf[u] = SeriesOf[t]
              THEN {} ELSE {<<"series", SeriesOf[t]>>})

NotFound ==
    [found |-> FALSE, competition |-> "failed", marks |-> {}, registry |-> Nothing,
     legs |-> {}, namelessLeg |-> FALSE, collection |-> FALSE,
     fieldDate |-> Nothing, tickerDate |-> Nothing]

\* What a market's context holds once these lookups have failed.  The registry
\* and the ticker's date need no lookup beyond the market's own.  A date field
\* is the event's: one that the market itself states would be read when the
\* event has none.  A market names its series itself, so that a failed event
\* lookup does not take the series with it.
Context(t, lost) ==
    LET m == catalogue.markets[t]
        has(kind, key) == <<kind, key>> \notin lost
    IN  [found |-> TRUE,
         competition |-> IF has("metadata", EventOf[t]) THEN m.competition ELSE "failed",
         marks |-> (IF has("series", SeriesOf[t]) THEN m.seriesMarks ELSE {})
                   \cup (IF has("event", EventOf[t]) THEN m.eventMarks ELSE {}),
         registry |-> m.registry,
         legs |-> m.legs, namelessLeg |-> m.namelessLeg, collection |-> m.collection,
         fieldDate |-> IF has("event", EventOf[t]) THEN m.fieldDate ELSE Nothing,
         tickerDate |-> m.tickerDate]

\* The cache with what was read of one more ticker.
Cached(cache, t, what) == [u \in DOMAIN cache \cup {t} |-> IF u = t THEN what ELSE cache[u]]

\* MetadataResolver.resolve for a market not yet cached.
Resolve(t) ==
    \/ /\ faults < MaxFaults /\ faults' = faults + 1
       /\ run' = [run EXCEPT !.contexts = Cached(@, t, NotFound)]
    \/ \E lost \in SUBSET Lookups(t) :
          /\ faults + Cardinality(lost) <= MaxFaults
          /\ faults' = faults + Cardinality(lost)
          /\ run' = [run EXCEPT !.lost = @ \cup lost,
                        !.contexts = Cached(@, t, Context(t, run.lost \cup lost)),
                        !.status = Cached(@, t, IF t \in open THEN "open" ELSE "closed")]

\* Where in sorted order these tickers have one that is not resolved yet.
Awaited(tickers) == {i \in DOMAIN TickerOrder : TickerOrder[i] \in tickers \ Resolved}

\* The first of them is resolved next.
ResolveNext(tickers) ==
    \E i \in Awaited(tickers) : (\A j \in Awaited(tickers) : i <= j) /\ Resolve(TickerOrder[i])

SeenOrders == {o \in Orders : run.seen[o] # {}}

SeenTickers == {TickerOf[o] : o \in SeenOrders}

\* run_audit resolves the market of every fill it read.
ResolveMarket ==
    /\ run.pc = "markets" /\ ResolveNext(SeenTickers)
    /\ UNCHANGED <<exchange, handed>>

\* _fetch_taxonomy, when there is anything to classify: a failure is None.
ReadTaxonomy ==
    /\ run.pc = "markets" /\ SeenTickers \subseteq Resolved
    /\ \/ /\ run' = [run EXCEPT !.taxonomy = IF SeenTickers = {} THEN NoTaxonomy
                                ELSE [read |-> TRUE, claims |-> catalogue.claims],
                                !.pc = "legs"]
          /\ UNCHANGED faults
       \/ /\ SeenTickers # {} /\ faults < MaxFaults /\ faults' = faults + 1
          /\ run' = [run EXCEPT !.pc = "legs"]
    /\ UNCHANGED <<exchange, handed>>

-----------------------------------------------------------------------------
(* The production filter, over what this run read.                         *)

\* The replay refuses fills that contradict one another on what their order is.
Replayed ==
    \A o \in SeenOrders : catalogue.booked[o] = "contradictory" => Cardinality(run.seen[o]) = 1

IsAfterCutover_LastFill(o) == Max(run.seen[o]) > Cutover

\* Measured on the first execution, so a late fill does not make an old order new.
IsAfterCutover(o) == Min(run.seen[o]) > Cutover

Candidates == IF Replayed THEN {o \in SeenOrders : IsAfterCutover(o)} ELSE {}

CandidateLegs ==
    UNION {run.contexts[t].legs :
             t \in {u \in {TickerOf[o] : o \in Candidates} : LegsStated(run.contexts[u])}}

\* A combo's legs are ordinary markets, resolved through the same caches.
ResolveLeg ==
    /\ run.pc = "legs" /\ ResolveNext(CandidateLegs)
    /\ UNCHANGED <<exchange, handed>>

\* The window measured to the moment of evaluation instead of the run's start.
AssessFinality_LateNow(o) ==
    LET t == TickerOf[o]
    IN  IF t \in DOMAIN run.status /\ run.status[t] = "closed" THEN "final_market_closed"
        ELSE IF clock - Max(run.seen[o]) >= Window THEN "final_stable"
        ELSE "pending_recent_fill"

\* Only the exchange's word makes an order final.
AssessFinality_NoWindow(o) ==
    LET t == TickerOf[o]
    IN  IF t \in DOMAIN run.status /\ run.status[t] = "closed" THEN "final_market_closed"
        ELSE "pending_recent_fill"

\* assess_finality, with the window allowed, as the workflow runs it.
AssessFinality(o) ==
    LET t == TickerOf[o]
    IN  IF t \in DOMAIN run.status /\ run.status[t] = "closed" THEN "final_market_closed"
        ELSE IF run.now - Max(run.seen[o]) >= Window THEN "final_stable"
        ELSE "pending_recent_fill"

\* evaluate_order's gates after the cutover's, in their order; Nothing when all pass.
Gates(o, t, sport) ==
    IF AssessFinality(o) = "pending_recent_fill" THEN "order_not_final"
    ELSE IF catalogue.booked[o] = "unpriced" THEN "no_execution_price"
    ELSE IF catalogue.booked[o] = "feeless" THEN "fees_incomplete"
    ELSE IF sport \in {Nothing, "OTHER"} THEN "sport_unresolved"
    ELSE IF sport \notin Routed
         THEN IF sport \in Shaped THEN "destination_not_activated"
              ELSE "no_destination_importer"
    ELSE IF IsCombo(run.contexts[t]) /\ sport \notin ComboRecorders
         THEN "combo_not_recordable"
    ELSE IF ContestDate(t, run.contexts) = Nothing THEN "game_date_not_established"
    ELSE Nothing

Refusal(o) ==
    Gates(o, TickerOf[o], ClassifyWithLegs(TickerOf[o], run.contexts, run.taxonomy).sport)

\* Every call of this run was answered.
Unfailing ==
    /\ run.archiveRead /\ run.taxonomy.read /\ run.lost = {}
    /\ \A t \in Resolved : run.contexts[t].found

Wager(o) ==
    [order |-> o, sport |-> ClassifyWithLegs(TickerOf[o], run.contexts, run.taxonomy).sport,
     date |-> ContestDate(TickerOf[o], run.contexts),
     filled |-> run.seen[o], finality |-> AssessFinality(o), clean |-> Unfailing]

SelfResolving == {"order_not_final"}
ByDesign_NotActivated == {"no_destination_importer", "destination_not_activated"}
ByDesign == {"no_destination_importer"}

\* NEEDS_ATTENTION_REFUSALS: derived by subtraction, so a new refusal asks for a person.
NeedsAttention(refusal) == refusal \notin SelfResolving \cup ByDesign

\* ProductionDiagnostics.health, by attention required.
Health(refused, payload) ==
    IF \E o \in DOMAIN refused : NeedsAttention(refused[o]) THEN "blocked"
    ELSE IF \E o \in DOMAIN refused : refused[o] \in SelfResolving THEN "deferred"
    ELSE IF payload # {} THEN "delivered"
    ELSE IF DOMAIN refused # {} THEN "not_routable"
    ELSE "healthy_no_op"

\* One payload per routed league, of every wager eligible now; the model
\* keeps what was ever written.
Written(payload) == handed \cup payload

\* What is refused is counted, what is not is written, by order.
Settle(refusal) ==
    LET refused == Restrict(refusal, {o \in DOMAIN refusal : refusal[o] # Nothing})
        payload == {Wager(o) : o \in DOMAIN refusal \ DOMAIN refused}
    IN  /\ run' = [run EXCEPT !.pc = "done", !.payload = payload, !.refused = refused,
                              !.health = Health(refused, payload)]
        /\ handed' = Written(payload)

\* evaluate_production, write_payloads and the health line.  A replay that
\* failed leaves no candidate: nothing is filtered, counted or written.
Evaluate ==
    /\ run.pc = "legs" /\ CandidateLegs \subseteq Resolved
    /\ Settle([o \in Candidates |-> Refusal(o)])
    /\ UNCHANGED <<exchange, faults>>

Finish ==
    /\ run.pc = "done"
    /\ run' = [run EXCEPT !.pc = "idle"]
    /\ UNCHANGED <<exchange, handed, faults>>

-----------------------------------------------------------------------------
Deliver == \/ Start \/ ReadLive \/ ReadArchive \/ ResolveMarket \/ ReadTaxonomy
           \/ ResolveLeg \/ Evaluate \/ Finish

Exchange == Tick \/ Archive \/ (\E o \in Trading : Fill(o)) \/ (\E t \in Tickers : Close(t))

Next == Deliver \/ Exchange

\* Time passes, and the workflow's schedule starts run after run.
Spec == Init /\ [][Next]_vars /\ WF_vars(Tick) /\ WF_vars(Deliver)

-----------------------------------------------------------------------------
(* Properties.                                                             *)

\* What a sport name leaves possible for a competition, read off the tables.
Possible(s, c) == {l \in FamilyMembers[s] : ~ClosedVocabularyExcludes(l, c)}

\* Nothing the run read of this market speaks against its being this league's:
\* the competition it names, every sport that claims that competition, the one
\* league or the rival sport its texts name.
Supports(ctx, taxonomy, league) ==
    LET c == ctx.competition
        claimants == IF taxonomy.read THEN Claimants(taxonomy.claims, c) ELSE {}
        inScope == {s \in claimants : Possible(s, c) # {}}
        named == ctx.marks \cap Leagues
    IN  /\ ctx.found /\ c # "malformed"
        /\ c \in DOMAIN Direct => Direct[c] = league
        /\ c \notin DOMAIN Direct \cup {"null", "failed"} =>
              \E s \in DOMAIN SettledBySport : claimants = {s} /\ SettledBySport[s] = league
        /\ Cardinality(claimants) > 1 =>
              /\ claimants \subseteq DOMAIN FamilyMembers
              /\ Cardinality(inScope) = 1 /\ \A s \in inScope : league \in FamilyMembers[s]
        /\ Cardinality(named) = 1 => named = {league}
        /\ "rival" \in ctx.marks => named # {}

\* A wager is handed over only on evidence that agrees: of its own market, and
\* for a combo of every one of its legs, which are single markets that by
\* themselves classify into the wager's league and share its date.
RoutedOnUnanimousEvidence ==
    run.pc = "done" => \A w \in run.payload :
        LET own == run.contexts[TickerOf[w.order]]
        IN  /\ Supports(own, run.taxonomy, w.sport)
            /\ IsCombo(own) => LegsStated(own)
            /\ IsCombo(own) => \A l \in own.legs :
                  /\ ~IsCombo(run.contexts[l])
                  /\ Supports(run.contexts[l], run.taxonomy, w.sport)
                  /\ ClassifyMarket(run.contexts[l], run.taxonomy).sport = w.sport
                  /\ GameDate(run.contexts[l]) = w.date

\* Once a run that read everything has handed an order over as stable, every
\* later such run whose fills the replay can group hands over the very same
\* wager: the destination, which keys a row on the order, never sees it
\* change.  This needs the time to be taken before the fills are read and the
\* archive to be read after the live route.
StableWagerNeverChanges ==
    [][run.pc = "legs" /\ run'.pc = "done" /\ Unfailing /\ Replayed =>
         \A w \in handed : (w.clean /\ w.finality = "final_stable") =>
            \E v \in run'.payload : /\ v.order = w.order /\ v.sport = w.sport
                                    /\ v.date = w.date /\ v.filled = w.filled]_vars

\* An order first filled before production began is never handed over by a run
\* that could read the archive, however late its other fills came.
HistoryStaysHistory ==
    \A w \in handed : w.clean => Head(fills[w.order]) > Cutover

\* A run that asks nobody for attention and waits for nothing has handed over
\* every order placed since the cutover that it read, but for leagues no
\* destination has a row shape for; and no run counts as refused what it wrote.
HealthIsHonest ==
    /\ {w.order : w \in run.payload} \cap DOMAIN run.refused = {}
    /\ (run.pc = "done" /\ Replayed /\ run.health \notin {"blocked", "deferred"}) =>
         \A o \in SeenOrders : IsAfterCutover(o) =>
            \/ \E w \in run.payload : w.order = o
            \/ ClassifyWithLegs(TickerOf[o], run.contexts, run.taxonomy).sport \in Leagues \ Shaped

\* No order waits for ever: once its fills stop, some run hands it over or
\* names a reason that waiting does not clear, even while its market stays open.
NothingIsDeferredForever ==
    \A o \in Orders :
        (fills[o] # <<>> /\ Head(fills[o]) > Cutover
            /\ \A p \in Orders : catalogue.booked[p] # "contradictory") ~>
        /\ run.pc = "done"
        /\ \/ \E w \in run.payload : w.order = o
           \/ o \in DOMAIN run.refused /\ run.refused[o] \notin SelfResolving

\* production.py says of healthy_no_op: no post-cutover orders at all, nothing
\* to do, nothing wrong.
NoOpMeansNothingToDo ==
    (run.pc = "done" /\ run.health = "healthy_no_op") =>
        \A o \in SeenOrders : ~IsAfterCutover(o)

\* audit.py says of a missing taxonomy that coverage narrows and correctness
\* does not, and metadata.py that a failed lookup degrades the classification
\* to UNRESOLVED: a wager handed over despite a failed lookup is the one the
\* unfailing lookups give.
OutagesOnlyNarrow ==
    run.pc = "done" => \A w \in run.payload :
        w.sport = ClassifyWithLegs(TickerOf[w.order], [t \in Resolved |-> Context(t, {})],
                                   [read |-> TRUE, claims |-> catalogue.claims]).sport
=============================================================================
