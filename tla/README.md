# kalshi-bet-router: a formal model

`kalshi-bet-router` reads one Kalshi account, decides which orders are final
bets, and delivers them to sport-specific destination repositories. It may not
place a bet and it may not write a destination's ledger itself: it runs the
destination's own importer in a clone, pushes a branch, opens a pull request and,
if a deterministic gate agrees, merges it. Every 15 minutes it does so again from
nothing, so almost all of its correctness is about *repetition*: what a run may
conclude from what an earlier run, or somebody else, left behind.

This directory holds TLA+ modules for that behaviour, TLC configurations that
check them on small instances, and TLAPS proofs of what matters most for every
value of the constants. `PROJECT.json` maps each definition to the lines it
models and lists runs, mutants, findings, hazards and theorems. Run everything
from this directory: `tlc -config X.cfg M`, `tlapm M_proofs.tla`.

## The system

| Component | State it keeps | Operations | Module |
|---|---|---|---|
| Delivery branch lifecycle (`deliver-wagers.yml`, `delivery_branch.py`, `deliver_branch.py`) | the branch `kalshi-router/<sport>` and its pull request; a run's clone, tree, receipts | payload, clone, seed (on the branch or on main), import twice, validate, settle (nothing / adopt / push / refuse), open the pull request | `Delivery` |
| Merge gate (`automerge.py`, `merge_delivery_pr.py`) | none: a function of facts; the merge call pins a sha | gather facts, twelve conditions, merge / wait / refuse | `MergeGate`; its calls in `Delivery`, `Settlement` |
| Settlement delivery (`settle-wagers.yml`, `settlement_parents.py`, `settlement_season.py`) | the branch `kalshi-router/settle-<sport>` | withhold what waits for its wager, import on the clone, commit on the tip, gate, merge | `Settlement` |
| Settlement economics (`settlement.py`) | none | gross, net, fee reconciliation | `Settlement` |
| Reconciliation (`reconcile_delivery.py`) | none | classify each payload row by identity, exit status | `Delivery`, `Settlement` |
| Receipts (`receipts.py`) | none | bring the destinations' receipts into one shape | their result, in `MergeGate` |
| Shared importer (`contract/.../routed_ledger.py`) | a destination's ledger file | import wagers and settlements, validate | `Delivery`, `Settlement`, `Rows` |
| Destination profiles (`destinations.py`) | configuration | layout, CI or validator, auto-merge, seasons | constants |
| Recovery and backfill (`recover-wagers.yml`, `backfill.py`, `backfill-deliver.yml`) | branches of their own | compare with a ledger in its own words, propose what is missing | `Backfill`; a recovery's landing in `Delivery` |
| Production filter and finality (`production.py`, `finality.py`) | none | cutover, finality, sport, importer, date, price, fees; health | `Pipeline` |
| Classification (`classify.py`, `taxonomy.py`, `competitions.py`, `metadata.py`) | a run's caches | weigh evidence of competition, texts, registry, taxonomy; combos by their legs | `Classification`, `Pipeline` |
| Accounting engine (`accounting/`) | a ledger per market and subaccount | replay fills in canonical order, settlements, coverage, authority | `Accounting` |
| History and the audit's reads (`audit.py`, `history.py`, `coverage.py`) | what was read | live and archived fills, settlements, positions; completeness and floor | `Accounting`, `Client`, `Pipeline` |
| Kalshi client (`client.py`, `http.py`) | a cursor, a budget, statistics | walk pages, retry, refuse faults | `Client` |
| Models, execution, row builders (`models.py`, `accounting/execution.py`, `wager.py`, `destination.py`) | none | normalise a fill, aggregate an order, build a row | `Rows` |
| Evidence ledger (`execution_evidence_ledger.py`, `evidence_emission.py`, `closes.py`) | a keyed append-only file | import rows, validate, link a recommendation, resolve a close | `Evidence` |
| Entry capture (`entry_capture.py`, `entry_capture_loop.py`, `entry-capture.yml`) | a ring of books, cumulative counts on a data branch | sample, join orders, save, publish, restore | `EntryCapture` |
| Conductor and health (`router_conductor.py`, `publish_router_health.py`) | GitHub's runs; one status document | find due, dispatch, chain, publish | `Operations` |
| Bankroll (`balance.py`, `publish_bankroll_secret.py`) | a sealed secret of the destination | preflight, read, seal, write, verify | `Bankroll` |
| Edge-finder contract (`contract/`) | the tree `app/latest` | build, check, publish, verify; the explorer | `AppTree` |
| Command line, configuration, reports | none | arguments, printing, output safety | no; reasons below |

How they interact: the client's walks feed the audit, whose fills and contexts feed
the replay, the classification and the production filter; the filter yields a
payload; the delivery loop hands it to the destination's importer and gets
receipts; the tree the importer leaves becomes (or is found to be) the branch's
head; the gate reads the head, the receipts of two imports, the diff and GitHub's
answers; reconciliation reads the ledger branch afresh and matches identities.
Settlements go the same way on a branch of their own and look at the wager
proposal to know what to withhold. Between any two of these steps the destination
moves under other hands: its own pipeline commits, it grades rows, people act on
the pull request, a recovery or a backfill delivers older orders. The conductor
starts deliveries; bankroll, health, entry capture, evidence and the app tree share
no file with them and only the account's facts.

What is hard here, and what makes each part correct:

* **Delivery.** The branch is read at seed time and written after two imports;
  the ledger can move before the merge call; a job dies after its push; a reply is
  lost after the merge; the importer stamps rows with the clock, so rebuilding an
  unchanged batch restarts the check suite it is waiting for. Correct means: an
  order lands once, nothing on the ledger is rewritten, only the commit that was
  judged merges, an unchanged batch keeps its commit, and every eligible order
  lands in the end.
* **Gate.** Twelve answers of three kinds mix. Correct means: absence of evidence
  never merges, one fact is not read twice with opposite meanings, a refusal is not
  hidden behind a wait.
* **Settlement.** The import runs on one read of the ledger, the commit sits on a
  second, the wager proposal is read in two steps, and the wager delivery rebuilds
  and merges it meanwhile. Correct means: no payout without its bet, nothing removed,
  profits that add up to the account's cash, silence only while there is something to
  wait for, and no settled order forgotten.
* **Reconciliation.** Receipts are the importer's word. Correct means: green is
  said only when every order is on the ledger or on an open proposal.
* **Filter and classification.** Orders fill, markets close and fills move to the
  archive between a run's reads; each lookup may fail on its own. Correct means: a
  wager is handed over only on evidence that agrees, never changes once it is
  stable, history stays history, a health word is earned, and nothing waits for ever.
* **Accounting.** Fills at one timestamp, crossings of zero, settlements without a
  subaccount, routes read one after the other while the exchange moves. Correct
  means: quantity, cash and fees are conserved, an episode names what really
  happened, and authority is never claimed where history is missing.
* **Client.** Lists grow and drain while a cursor walks them. Correct means: a claim
  of completeness survives every fault a page can have.
* **Beside the ledgers.** Jobs are killed between a save, a copy and a push; two
  replacements; a write and its answer. Evidence comes late. Correct means: what is
  published is one publication, loses no order and joins no order to a later book; a
  green run left a usable reading; the schedule never stops and failure shows.

## Modules

    CanonicalLedger          the promise: rows appended once per order, graded, never rewritten
      ^ refined by
    Delivery  -- INSTANCE --> MergeGate <-- INSTANCE -- Settlement
      ^                         ^                          ^
    MCDelivery (symmetry)     MCMergeGate (facts)        MCSettlement
    Delivery_proofs           MergeGate_proofs           Settlement_proofs

    Accounting <- MCAccounting                        one market: exchange, audit, replay
      <- Accounting_proofs <- AccountingMoney_proofs
    Sums <- Settlement, Accounting, Rows, Sums_proofs   sums of money and their laws
    Classification <- Pipeline <- MCPipeline          from the account to the payload
                        <- Pipeline_proofs
    Rows <- Backfill
    Alongside -- INSTANCE --> EntryCapture, Operations, AppTree, Evidence, Client, Backfill
    Bankroll <- Alongside <- MCAlongside
                          <- Alongside_proofs (with Sums_proofs)

### Delivery

One destination, run after run. The variables:

* `main` - the destination's ledger branch: a version number and its rows;
* `branch`, `pull`, `ci` - the router's branch (one commit or none), the pull
  request from it, and the check suite of its head;
* `elig` - what the account says of each order: 0 until the production filter
  declares it final, then how often its economics have been read anew (a fill
  after finality);
* `pc`, `run` - the current run: its phase, payload, clone, the branch as it
  fetched it, the tree the importer left, receipts, the head it vouches for;
* `outcome`, `glitches` - how the last run ended, and how many transient failures
  are still to come.

A row is its key, economics, the clock reading stamped on it, its author and
whether it is graded. A commit is the ledger it sits on, its rows, and whether it
touches other files. Git object ids are the smallest unused number, stamps the
smallest unused reading per order: equality is all that the code tests.

Steps of a run that touch only its own clone are folded into the shared read
before them (the two imports and the validator into `Fetch`). Every read or write
of the destination is a step of its own, so others act in between:

| Action | Code |
|---|---|
| `StartRun`, `Clone` | payload and clone in `deliver-wagers.yml` |
| `Fetch`, `FetchFails` | `deliver_branch.py seed` with its unchecked fetch, `choose_seed`, both imports |
| `SettleStray`, `SettleNothing`, `SettleDry`, `SettleAdopt`, `SettlePush`, `SettleRefused` | `deliver_branch.py settle`: containment, `decide`, the lease |
| `OpenPull` | the POST, with 422 read as "already open" |
| `EvaluateGate`, `EvaluateUnknown`, `CallFails` | `merge_delivery_pr.py` up to the verdict |
| `MergeLands`, `MergeRefused` | the merge call with its sha; 409; a lost reply |
| `Reconcile` | `reconcile_delivery.py` and the end of the step |
| `RunDies` | a killed job, or any failed call that is a `continue` |
| `NoiseCommit`, `GradeCommit`, `RecoveryCommit`, `CIStart`, `CIFinish`, `CIFail` | the destination (external), recovery |
| `PersonMerges`, `PersonCloses`, `PersonDrafts`, `PersonAmends`, `PersonDeletes` | people |

Git's merge is `Conflicts` and `MergedRows`: two sides that append to one JSONL
file conflict, grades may or may not touch adjacent lines (both outcomes are
explored), one file per record conflicts only on the same record.
`ImportResults` gives the importer's contract and, where `Faults` says so, importers
that break it: rewrite a row, touch other files, write a row twice, drop a row
without a receipt.

### MergeGate and MCMergeGate

`automerge.evaluate` as twelve operators over a record of facts, each answering
pass, wait or refuse. `Delivery` instantiates it and builds the facts itself.
`MCMergeGate` turns the facts into states: it starts from a delivery in perfect
order (wagers or settlements, CI or validator) and changes up to `MaxDeviations`
facts, one at a time, so that a property over steps can compare two evaluations.

### CanonicalLedger

The abstract specification: batches of new orders are appended, one row per order;
a held row may be graded; nothing else happens. `Delivery` implements it with
`ledger <- main.rows`.

### Accounting

One market, held in several subaccounts, seen by one audit after another. The
replay keeps markets apart by key, so one is enough. The variables:

* `history`, `books`, `cutoff`, `settlement` - the exchange (external): what it
  executed, what the account held before and after each execution, where the
  archive begins, how the market settled;
* `pc`, `audit` - the audit's next step and what it has read. Some fields of
  `audit` (`from`, `begun`, `settled`, `whole`) are history variables: they say
  what was true when a read happened, only properties look at them;
* `todo`, `ledgers` - the fills not replayed yet and a `MarketLedger` per
  subaccount. An episode carries the fields that its economics, its identity and
  its authority depend on; closed ones are a set.

| Action | Code |
|---|---|
| `Execute`, `SettleMarket`, `AdvanceCutoff` | the exchange, between the audit's reads |
| `WalkLive`, `WalkArchive`, `ArchiveFails` | `_chain_fill_routes`, `HistoryEvidence.complete`: live fills, then the archive, to exhaustion or to a failure |
| `WalkBounded` | a sample of the newest fills: never complete |
| `ReadSettlements`, `SkipReconciliation` | `_fetch_settlements` and the floor of `coverage.py`; not asked for |
| `ReadPositions` | `exchange_position_view` |
| `ApplyFill` | one step of `replay`'s loop: the smallest fill in canonical order, `apply_fill` |
| `ApplySettlement` | `_apply_settlements`, with both refusals |
| `AssignAuthority` | `_mark_settlement_coverage`, then `_assign_authority` |
| `Restart` | the next audit, also after one a failed route aborted |

`apply_fill` is `Applied`: `Opening`, `Increasing`, `Reducing`, `Closing`, and
`Reversing`, which is a close and an opening with a fee that goes to neither. Money
is a whole number of a small unit, prices lie on the YES axis, and a price or fee
may be absent (`None`). A route that serves rows newest first and stops gives a
suffix of what happened (`Newest`); rows that do not parse are missing from what
was read (`Parsed`, with `MayReject`). The settlements route may have no row for a
market that settled before the route's reach; its floor, the earliest row of any
market, is then later than that settlement (`SettlementViews`).

Three things are assumed of the exchange. Fills of one instant execute in the
order of their ids (`TiesFollowIds`): the canonical order is time and then id, and
it is the true order only then. Nothing executes before the cutoff once the cutoff
has passed it, and nothing after the settlement. Ids and fills correspond: a page
fetched twice gives the same fills, which is why the reads are sets.

### Settlement

One destination's settlements beside its wager delivery. The ledger branch holds
wager rows (key, and whether market and side are the order's) and settled rows
(key, gross, net); a figure the router refuses to state is the empty set. `market` is
what the exchange says of each market, `proposal` the wager proposal (commit id,
rows, pull request), `branch` and `pull` the settlement's own. A run keeps two reads
of the ledger branch: `clone`, on which the importer runs, and `tip`, on which the
commit sits.

| Action | Code |
|---|---|
| `StartRun` | `settle-live`: `Payload`, with `Gross`, `Net`, `FeeReconciled` of `settlement.py` |
| `Clone`, `FetchTip` | the clone and the second fetch in `settle-wagers.yml` |
| `FetchProposal`, `FetchProposalFails` | `git fetch` and `git show` of the wager branch |
| `ReadPull`, `ReadPullFails` | the proposal's pull request and `settlement_parents.classify`; `settlement_season.py`; the importer twice, containment, validator, the commit on the tip |
| `Push`, `OpenPull` | the force push with its lease, the POST |
| `EvaluateGate`, `EvaluateUnknown`, `MergeLands`, `MergeRefused` | `merge_delivery_pr.py` |
| `Reconcile` | `reconcile_delivery.py --kind settlements` |
| `RunDies` | a killed job or a failed call |
| `AdmitOrder`, `SettleMarket` | the account and the exchange |
| `ProposeWager`, `MergeProposal`, `PersonWithdrawsProposal`, `PersonAmendsProposal`, `PersonMerges` | the wager delivery and people |

The wager delivery is an abstraction of `Delivery`: a proposal rebuilt with one more
order under a new id, merged whole. `Delivery` itself checks that what merges is what
was proposed; here the question is what a settlement run concludes from it.

### Classification, Pipeline and MCPipeline

`Classification` gives one market a league from its competition (with every sport
that claims the competition), its texts as sets of marks, and the ticker registry, in
the code's order of precedence, and a combo its legs' verdict. `Pipeline` is one
`deliver` run after another: `Start` takes the time, `ReadLive` and `ReadArchive` read
fills, `ResolveMarket`, `ReadTaxonomy` and `ResolveLeg` fill the caches of
`metadata.py`, each lookup able to fail by itself, `Evaluate` is
`evaluate_production` with its gates in order, the payloads and the health word.
`Tick`, `Fill`, `Close`, `Archive` are the exchange.

`MCPipeline` starts from a catalogue in perfect order (a single market, another, a
combo of both) and explores every catalogue at most two facts away. Only under the
orderly one do orders fill and markets close under a run, and only under those one
fact away do calls fail: that is where the cases happen, and the three together are
within reach. The tables of competitions are extracts that keep every kind of entry
(a direct name, a contested one, a sport that settles a league, one out of scope, a
closed vocabulary).

What the modules assume of their constants is what those files hold: no competition
or sport is named like a marker of the model (`NamesAreDistinct`, `CataloguesAreTyped`), the
direct table's names of a league with a closed vocabulary are in that vocabulary
(`TablesAgree`), the window is positive, the cutover lies before the last tick of the clock (`Parameters`).

### Rows and Backfill

`Rows` is pure: a fill object in the exchange's current words, its older ones or a
mix, normalised (`_resolve_direction`, `_resolve_legs`, fees, account), aggregated
into an order's execution, and written in each destination's words. `Backfill` is the
catch-up over the window before the cutover: `FetchLedger`, `Reconcile`
(`reconcile_one`'s verdicts, of which one may write), `Deliver` (importer and
stable branch), `Fail`; the owner merges or closes the proposal and records rows by
hand meanwhile. `Describes` says what the exchange may serve of a fill.

### Client

One cursor walk, or a chain of two, over a list that is newest first and changes while
it is walked (`NewRow`, `Archive`). `Receive` is one answer to one request: an honest
page, or one of the faults the code tests for (no answer, a status, broken JSON, a
missing list, an entry that is no object, a cursor that is not text, repeated or on an
empty page). `Counted`, `Raises`, `Retried` are `_iter_cursor_pages`' bookkeeping;
`Complete`, `ObservedFloor`, `ProbeBelow` what a reader may claim afterwards.

### EntryCapture

The collector's memory (`link`), the two files it saves (`disk`), the shell's copy, and
the data branch, which alone outlives a job. `Start` restores; `Respond`, `Stamp`,
`SeriesError` sample books (the response and its time are two steps); `ReadOrders`,
`ReadFills` join orders; `SaveFirst`, `SaveSecond`, `CopyPublic`, `CopyStateAndPush`,
`JobEnds` publish. `LegacyOrders` are orders of the cohort the code retires.

### Evidence

The evidence rows of one wager: `ImportFromRouter` makes the execution row and, with a
cutoff or without, a close from candles near or wide; `ImportLink` links a
recommendation to the execution on file. `Filed` is the importer: the first row under
a key stays. `Minute`, `Fill`, `Decide`, `Archive` change what the rows are made from.

### Operations

GitHub's lists of runs per workflow, the conductor's job (`FindDue`, then `Dispatch` or
`DispatchRefused`; `Chain`, `EndOfJob`, `Cron`), and the health publisher (`Publish`, with
logs read or not). Ages are counted up to one above the staleness threshold.

### Bankroll

`Start`, `Preflight`, `ReadBalance`, `SealingKey`, `Put`, `VerifyLanded` with their
retries and exit codes. A new run cancels the one under way; a write is in `puts` until
it lands or is lost, also when its run is gone; the credential comes and goes.

### AppTree

The tree as files; `Build` checks a bundle before staging it, `Replace` moves one file
at a time with the naming file last, `Prune` removes what is no longer named, then the
explorer in the same way; `WriteHealthOnly` after a failed build, `Crash` anywhere. A
reader (`ReadManifest`, `ReadFile`) verifies beside them.

### Alongside and MCAlongside

The seven components that share no file with one another; `MCAlongside` gives each a small
instance. A behaviour is of one of them (`focus`), the others rest: interleaving them would
multiply states and say nothing. The environments are bounded (a clock, kills, rows,
runs), so behaviours really end and the cfg says `CHECK_DEADLOCK FALSE`; only
`Operations` runs for ever, and only its properties are liveness properties.

## Runs

| Run | Question | Instance |
|---|---|---|
| `MCDeliverySafety` | Are runs accounted for, and is an unchanged batch left alone? | one file per record, stamping importer, CI, dry runs, an order the importer always refuses, missing receipts (`mute`), late fills, grades, noise, a recovery, a person who merges, one glitch, a destination that is held in some runs; 4.2 million states |
| `MCDeliveryFaults` | Can a broken importer, or people acting in the middle of a run, make the router land what it did not verify? | one JSONL file, four faults, CI that fails for its own reasons, branches that must be up to date, noise, a grade, a recovery, people's five actions; 3.8 million |
| `MCDeliveryLiveness` | Does every eligible order reach the ledger without a person, and does the branch rest when nothing merges it? | fairness; noise, grades, a recovery, one glitch, late fills, a hold that comes and goes; 769 thousand |
| `MCDeliveryUnproved` | (violation) a doubled batch | see Findings |
| `MCMergeGate` | Over all facts at most three changes from a perfect delivery, does the gate keep its promises? | two rows, two keys; 380 thousand |
| `MCSettlement` | Does a settlement land only beside its wager, is it never forgotten, do profits add up? | a YES and a NO order on one market, two destinations, one glitch, people who merge, withdraw, amend; 271 thousand |
| `MCAccounting` | Are quantity, cash and fees conserved over any order of fills, and is what the audit claims true of the exchange at some moment? | any 3 of 4 fills, 2 subaccounts, 2 instants, one settlement; 3.4 million |
| `MCAccountingRejected` | (violation) a fill that does not parse | see Findings |
| `MCPipeline` | Is what is handed over agreed, stable and new, and is the health word earned? | a single and a combo, catalogues two facts away from orderly, one failed call; 151 thousand |
| `MCPipelineContradicted`, `MCPipelineOutage` | (violations) | see Findings |
| `MCAlongside` | The components beside the ledgers | seven instances; 770 thousand |

**Bounds of `MCDelivery*`.** Two orders are enough for a batch in which one order is
new and the other is on file, conflicting or graded; in `MCDeliverySafety` a third is
one the importer always refuses. `MaxStamp = 5` and `MaxIds = 4` are never exhausted:
`LiveIds` has three members, and no reachable state holds five stamped rows of one
order; the smallest-unused choice would block otherwise and the run would lose
behaviours. A commit by others before or after a fetch and one failed call at any
point give each single disturbance; liveness has two commits. `MCDeliverySafety` sets
`ChecksKeys = FALSE`, a destination whose own verdict would not notice a second row
of an order. Orders are interchangeable, so the safety runs use symmetry; the
liveness run does not.

`Holds` is the set of values the profile's hold may have when a run reads it. In
`MCDeliveryLiveness` it is both, so a hold may come, go or last for ever, and
`MaxEcon = 2`, so a fill may reach an order already recorded. `ProposalSettles` has no
exception for either: the branch must rest whether or not anything merges it.
`EligibleReachesLedger` names both as the reasons the code gives for an order that is
never merged: a destination held in infinitely many runs, and a row whose economics the
ledger or the proposal contradicts (`Contradicted`), which waits for a person.

What no `MCDelivery*` run reaches, the theorems cover: another pusher between a run's
seed and its push (`"amend"` or `"delete"` with the properties of `MCDeliverySafety`), and an
unrecordable order or a late fill with `MergesOnlyWhatItVerified`.

**Bounds of `MCSettlement`.** One market with both sides is the case in which a fee
must be shared and cash must add up; the exchange states a price and the entry fees, or
neither price nor a fee that the fills explain. Two orders let a proposal hold one
wager while the ledger holds the other; `MaxIds = 3` is never exhausted (a run and the
world hold at most two ids of a branch at once).

**Bounds of `MCAccounting`.** Any three of four fills: two on the YES side, of 2 and 1
contracts, and two on the NO side, of 3 and 1 (`SidesOf`). In the orders their times
allow, within each subaccount, they open, increase, reduce, close exactly, reopen and
cross zero, from either side. The last has no price and the second no fee, so episodes
with unknown economics stand beside known ones; prices are multiples that make the
averages exact. Two instants (`MaxTime = 1`) give equal and different timestamps, a
cutoff between them, and a settlement before and after the floor. Two subaccounts are
the case the settlement and position routes cannot tell apart. The exchange may move
between any two reads and audits repeat without limit.

**Bounds of `MCPipeline`.** `Window = 2` ticks of a clock of four leaves a fill inside
and after the stabilization window, two fills an order that changes after it was read,
two closings or archivings a market that closes and a fill that moves in one run.

**Bounds of `MCAlongside`.** Capture: an order placed before, between and after two
books, one page of one order, one kill. Conductor: a job of two ticks that chains one
before its end, a list of two deliveries and one settlement. App tree: boards of
different and common events, one that must not be published, two attempts of one run
id, one crash. Evidence: two recommendations, three ticks around the start, two fills.
Client: four rows, pages of two, a budget of two, one retry. Bankroll: five-minute
ticks, a job of two, the bound of thirty minutes as six, two attempts (the code's
`API_ATTEMPTS` is three: two already separate a lost answer from a failed write).
Backfill: an order of two fills and another on the same market and side, two runs, one
row by hand, in three destinations' words.

`MCMergeGate`, like `MCAlongside`, sets `CHECK_DEADLOCK FALSE` because it stops when no
change is left; the other runs do not, since the schedule always starts another run.

The properties:

* `OneRowPerKey` - an order is on the ledger at most once.
* `RefinesCanonicalLedger` - the ledger only ever grows by new orders or is graded.
* `MergesOnlyWhatItVerified` - the merge call lands the commit this run settled,
  only router rows, each receipted at this payload's economics, with the
  destination's verdict in.
* `UnchangedProposalIsNeverRepushed` - the branch's head moves only if what it
  proposes, clock readings aside, has moved.
* `ProposedMeansProposed`, `GreenMeansAccounted` - what a run reports as proposed,
  or green, is on the ledger or on an open proposal.
* `EligibleReachesLedger`, `ProposalSettles` - the liveness properties of a delivery:
  orders reach the ledger, and the branch stops moving even where nothing merges it.
* `MergeIsWitnessed`, `AbsentEvidenceNeverMerges`, `RunningChecksOnlyWait`,
  `RefusalIsNotDelayed` - the gate.
* `NoOrphan` - a settlement is on the ledger once, beside its wager at that wager's own
  market and side; `LedgerOnlyGrows`; `ProfitIsCash` - the stated profits of a market
  add up to what it paid less principal less the exchange's fee, once.
* `WithheldWaitsForItsWager` - a settlement is withheld only while its wager is on the
  proposal as it is now; `GreenMeansSettled`; `SettledIsFiledOrReported` - a settled
  order whose wager is canonical is filed, proposed to a person, or reported in red.
* `EpisodesAreFlatToFlat`, `KeysNameOneEpisode` - the shape of a ledger: an open
  episode owns the whole position, a closed one closed what it opened, no two share
  a key.
* `CashConserved`, `FeesCountedOnce` - what the episodes of a subaccount say they
  realized and paid is what its executions and its settlement moved. The cash of a
  settlement is claimed only where its row can be that subaccount's alone
  (`PaysFor`): the route has no subaccount, and a row without readable counts is not
  compared with the replayed size.
* `ImportableIsReal` - an episode with a stable key is an episode of the exchange,
  and all of it when it says it closed by fills.
* `ClaimHeldAtSomeMoment` - `claims_complete_position_state` describes what the
  account held at one moment since the audit began, although no two routes were
  read at the same moment.
* `LiveInventoryIsLive` - a market already settled when the settlements were read
  has no open episode that still counts as provable, where that route spoke of it
  or has a floor.
* `RoutedOnUnanimousEvidence`, `HistoryStaysHistory`, `HealthIsHonest`,
  `StableWagerNeverChanges`, `NothingIsDeferredForever` - a payload's wagers agree with
  all the evidence read, never predate the cutover, are accounted for by the health
  word, do not change once stable, and no order waits for ever.
* `EntryQuotesAreHonest`, `PublishedTotalsNeverDrop` (capture), `PublishedTreeIsWhole`,
  `OneRecommendationPerWager`, `ClaimedReadsAreWhole` (client), `GreenMeansUsable`
  (bankroll), `BackfillWritesOnlyTheMissing`, `ScheduleNeverStops`,
  `FailureIsNeverHidden` (conductor, health) - the promise of each component beside
  the ledgers.

Each has a mutant: a change of one modelled definition that a plausible bug would
make (several are the code's own earlier versions, such as rebuilding on main in
every run, reading `unstable` as a refusal, or subtracting the settlement fee twice)
under which the run fails. `TypeOK` of `Delivery` is checked in `MCDeliverySafety`.

**Fairness.** `Delivery` and `Settlement`: `WF(RunStep)`, because the workflow is
scheduled again and again, its concurrency group queues runs without cancelling one in
progress, and a run goes on to its end; a run's next phase is always one of the
disjuncts, so weak fairness of the disjunction is enough. `WF(CIStart)`,
`WF(CIFinish)`: a check suite starts and reports. `Pipeline`: `WF(Tick)`, `WF(Deliver)`.
`Operations`: time passes, the hourly cron comes, jobs end at their timeout, runs begin
and finish, the publisher's own cron reads what it needs (weak); a list is read and a
dispatch accepted infinitely often if tried infinitely often (strong, since either may
fail for a while). No fairness is given to people, other committers, the account,
failures, or the schedule that GitHub may drop.

## Findings

Runs that are expected to fail: each states what a doc or comment of the
repository says and shows a behaviour of the code that does otherwise.

* `MCDeliveryUnproved` / `OneRowPerKey` - idempotence is proved of the import that
  ran. A batch that a non-idempotent importer doubled is refused by the run that
  wrote it, adopted by the next run (whose import finds both rows on file and
  changes nothing), proved idempotent there, and merged, if the destination's own
  verdict does not look for duplicates.
* `MCAccountingRejected` / `EveryFillWasObserved` - `fill_history_complete` is
  documented as both routes exhausted "with nothing rejected", and `CLOSED_BY_FILLS` as
  "every fill ... observed". `HistoryEvidence.complete` does not look at
  `fills_rejected`: a fill that fails to parse leaves the history COMPLETE, and an
  episode replayed without it is importable.
* `MCPipelineContradicted` / `NoOpMeansNothingToDo` - one order whose fills contradict
  one another on their market or side fails the replay, `run_audit` skips the filter and
  keeps its zero counters, and the run reports a healthy no-op with every post-cutover
  order unrouted.
* `MCPipelineOutage` / `OutagesOnlyNarrow` - with the event-metadata or the taxonomy
  call failed, weaker evidence hands over a wager that the whole evidence files
  elsewhere or refuses.

Other places where the code does what a reader may not expect, met while modelling.
No run states them; where a property would be in their way its wording or the run's
constants say so:

* A pull request that is `behind` and must be up to date stays behind: `choose_seed`
  rebuilds only when the ledger moved. A pull request that a person closed or merged
  before the gate looks for it makes the run red. With a branch deleted during a run
  the POST's 422 is read as "already open" (`MCDeliverySafety` has no deletions).
* When no receipt carries a source key the receipt match is skipped, and a wager row
  without a receipt merges.
* `settle-wagers.yml` rebuilds its branch in every run, so a held destination's checks
  restart every four hours. The settlement staleness threshold is published and not used.
* A close whose row names its `cutoff_source` is refused by the vendored ledger. A
  `TRUE_CLOSE` resolved before the start is never corrected, and a `LINKED` row stays
  after a second recommendation appears (the new row says `AMBIGUOUS`).
* A failed restore of the capture branch starts from zero, and the next push publishes
  it: `PublishedTotalsNeverDrop` speaks of links that restored. An empty state file after
  a failed `git show` stops the collector.
* A manual dry run can show HEALTHY; a dispatch that races the schedule can queue a
  second run. `app/latest` is not whole after a crash in the middle of a replacement:
  the property is about readers that find no problem.
* Client: a failed probe leaves the floor usable; `iter_markets` stops after
  `max_pages` and says nothing; a row archived between two walks is read twice
  (deduplicated downstream); the retry counter also counts the last failed attempt.
* Bankroll: `verify_landed` allows five minutes of clock skew, so it can take a write of
  the run before for its own; the late write of a cancelled run can replace a newer
  reading; the thirty-minute guard cannot fire in a ten-minute job. `verify_landed`
  passes when GitHub states no `updated_at` it can parse; in the model it always does.
* Backfill: a second order on a market and side is `EXACT_EXISTING` or `CONFLICT` once
  the first is on file, and is then never written; a run that finds nothing missing ends
  before it looks at its branch, so a stale proposal stays; a row recorded by hand between
  the ledger read and the merge is duplicated (the property speaks of the ledger the run
  read); an order with one rejected fill is delivered with the quantity of the others.
* `models.py` describes `OutcomeSide` (lines 86-102) otherwise than `_resolve_direction`
  resolves it; `evaluate_window` passes no legs for a combo.

## Proofs

| Theorem | Statement | Module |
|---|---|---|
| `TypeCorrect` | `Spec => []TypeOK` | `Delivery_proofs` |
| `LedgerHoldsEachOrderOnce` | `Spec => []OneRowPerKey`, unless the importer doubles | `Delivery_proofs` |
| `DeliveryImplementsLedger` | `Spec => RefinesCanonicalLedger`, unless the importer doubles | `Delivery_proofs` |
| `OnlyTheJudgedIsMerged` | `Spec => MergesOnlyWhatItVerified` | `Delivery_proofs` |
| `ReportedIsProposed` | `Spec => []ProposedMeansProposed`, while nobody closes or deletes | `Delivery_proofs` |
| `GreenIsAccounted` | `Spec => GreenMeansAccounted`, while nobody closes or deletes | `Delivery_proofs` |
| `UnchangedKeepsItsCommit` | `Spec => UnchangedProposalIsNeverRepushed`, unless the importer doubles | `Delivery_proofs` |
| `NothingIsOrphaned` | `Spec => []NoOrphan` | `Settlement_proofs` |
| `NothingIsTakenBack` | `Spec => LedgerOnlyGrows` | `Settlement_proofs` |
| `WithheldIsOnTheProposal` | `Spec => WithheldWaitsForItsWager` | `Settlement_proofs` |
| `GreenIsSettled` | `Spec => GreenMeansSettled` | `Settlement_proofs` |
| `ProfitsAreCash` | `Spec => []ProfitIsCash` | `Settlement_proofs` |
| `Typing` | `Spec => []TypeOK` | `Accounting_proofs` |
| `FlatToFlatSpans` | `Spec => []EpisodesAreFlatToFlat` | `Accounting_proofs` |
| `EpisodeKeys` | `Spec => []KeysNameOneEpisode` | `Accounting_proofs` |
| `ShownLiveIsLive` | `Spec => []LiveInventoryIsLive` | `Accounting_proofs` |
| `ClaimedIsHeld` | `Spec => []ClaimHeldAtSomeMoment`, fills parse, ties follow ids | `Accounting_proofs` |
| `ImportedIsReal` | `Spec => []ImportableIsReal`, fills parse, ties follow ids | `Accounting_proofs` |
| `ParsedIsObserved` | `Spec => []EveryFillWasObserved`, fills parse, ties follow ids | `Accounting_proofs` |
| `FeesAreCountedOnce` | `Spec => []FeesCountedOnce` | `AccountingMoney_proofs` |
| `CashIsConserved` | `Spec /\ []AveragesAreExact => []CashConserved` | `AccountingMoney_proofs` |
| `OldOrdersStayOut` | `Spec => []HistoryStaysHistory` | `Pipeline_proofs` |
| `HealthHolds` | `Spec => []HealthIsHonest` | `Pipeline_proofs` |
| `RoutedOnAgreement` | `Spec => []RoutedOnUnanimousEvidence` | `Pipeline_proofs` |
| `StableWagersStand` | `Spec => StableWagerNeverChanges` | `Pipeline_proofs` |
| `PublicationsAreWhole` | `Spec => []PublishedTreeIsWhole` | `Alongside_proofs` |
| `GreenIsUsable` | `Spec => []GreenMeansUsable` | `Alongside_proofs` |
| `EvidenceAssertsOneRecommendation` | `Spec => []OneRecommendationPerWager` | `Alongside_proofs` |
| `ReadsAreWhole` | `Spec => []ClaimedReadsAreWhole` | `Alongside_proofs` |
| `FreshQuotesAreHonest` | `Spec => []EntryQuotesAreHonest` | `Alongside_proofs` |
| `TotalsNeverDrop` | `Spec => PublishedTotalsNeverDrop` | `Alongside_proofs` |
| `OnlyTheMissingIsWritten` | `Spec => []BackfillWritesOnlyTheMissing` | `Alongside_proofs` |
| `GateMergeIsWitnessed`, `GateRefusesAtOnce`, `GateWaitsForChecks` | the three gate invariants, for any facts | `MergeGate_proofs` |
| `LostEvidenceNeverMerges` | `Spec => AbsentEvidenceNeverMerges` | `MergeGate_proofs` |

The delivery theorems hold for any set of orders, any bounds, either layout, and any combination of
what others do. `LedgerHoldsEachOrderOnce` and `DeliveryImplementsLedger` assume
`"double" \notin Faults`: the importer does not write one order twice in one
import. `MCDeliveryUnproved` shows that some such assumption is needed.

The argument for the ledger. `OneRowPerKey` is not inductive: it speaks of main
only, and main's next rows come from the branch. The inductive invariant adds
that *every* commit a run or the destination can hold (branch, fetched branch,
tree, settled head) and every base they sit on has unique keys, that two commits
with one id are the same commit - so that the id in the lease and in the merge
call names content - and that after the settle phase the head a run vouches for is known.
A merge that git accepts is then split as `Conflicts` is: nothing landed since the
base, exactly the commit's own rows landed, only grades landed (then the keys of
main are those of the base), or, with one file per record, orders landed beside
each other. In each case the merged rows have unique keys and the step is an
`Append`, a `Grade` or a stutter. Grades of rows and the rewriting fault are where the
gate enters: the merge goes ahead only with `AppendOnly` passing, which gives
`Removes = {}` for the head; the pinned id carries that to the branch.

The argument for the merge. `OnlyTheJudgedIsMerged` needs no assumption at all: its
invariant (`MergeInv`) says of each phase after the gate that the head the run holds was
judged with the receipts and the payload it still has, and that the branch's verdict from
the destination is the verdict on that very commit; the merge call's pinned id does the
rest, because two commits with one id are the same commit. `ReportedIsProposed` and
`GreenIsAccounted` follow receipts from the importer to the branch (`CarriedInv`): what
was accepted is on the tree the run settles, the branch or the ledger, and a partial
import has failed. They assume `Others \cap {"close", "delete"} = {}`: a person who
closes or deletes the proposal between the receipts and the accounting makes the report
untrue until the next run, and neither the code nor the properties say otherwise - the
runs that check these two leave such a person out as well. `UnchangedKeepsItsCommit`
adds `SpokenInv`: a settled branch says something, and the tree that an import leaves on
a seed of the branch differs from it in content exactly when the import had something to
say. An importer that writes an order twice is the reason for its assumption.

Three gate theorems assume `facts \in MergeFacts` (the facts are well formed) and
are about the operators, so no induction is needed; the reachable facts of
`MCMergeGate` are a subset of those, which `FactsStayFacts` proves by induction and
`LostEvidenceNeverMerges` uses: by `MergeNeedsAll`, a MERGE has twelve passes, and each
kind of lost evidence keeps one condition from passing.

The accounting theorems hold for any set of fills, sizes, prices, fees, subaccounts
and bounds, with and without rejected fills and ties; their assumptions are those of
`Accounting.tla` (sizes are positive, prices lie between 0 and the payout or are
absent, the subaccounts are finitely many). Each kind of replay step has a lemma: from a sound ledger (well typed, flat
to flat, one key per episode) and a fill whose id is no key of it, the step makes
a sound ledger whose keys are the old ones and perhaps that id. A reversal is the
close lemma followed by the opening lemma. What makes this inductive is that a fill is
new to its ledger: `KeysAreReplayed` says that keys are ids of fills already
replayed, that what was read was executed, and that the exchange gives each
execution an id of its own - so a fill still in `todo` has an id no episode was
opened by. The types need the other half: an episode's `remaining`, `opened` and
`closed` are natural numbers only because the open episode owns the whole
position.

The claims of an audit. `ShownLiveIsLive` needs no assumption: `ViewInv` says what each
read may have seen of the settlement and the books, and that authority is only ever given
by what was seen. The other three rest on one fact about the two walks: although the
exchange moves between them, what they serve together is a *prefix* of its executions in
canonical order, because the archive adds to the live walk only executions older than a
cutoff that never goes back (`WalkedAPrefix`; the first execution not served exists by
well-founded induction over sets). The replay follows the prefix one execution at a time
(`ClaimInv`): what is left is a suffix of it, every ledger holds what the books held
there, and every episode is a true one as far as it has come. Two assumptions are needed.
`TiesFollowIds`: the canonical order breaks ties of the exchange's clock by fill id, and
is the order of execution only if fills of one instant got their ids in that order; the
code cannot know better. `~MayReject`: a row that does not parse is left out and the
history still called complete, which breaks `EveryFillWasObserved` in
`MCAccountingRejected`; `ParsedIsObserved` shows that nothing else does.

The settlement theorems hold for any orders, markets, statements of the exchange,
profiles, bounds and combination of what others do. `NoOrphan` speaks of the ledger
branch, whose next rows come from a branch that was imported on an older clone, so the
invariant (`IInv` of `Settlement_proofs`) follows every copy: `EverywhereKept` says that
the settled rows of the ledger, the branch, the clone and the commit under way name each
order once and only orders whose wager *is on the ledger now* - which is inductive
because wagers are only added. `ReadsAreOld` says that what was read is still there.
`HeadIsTheBranch` carries the gate's append-only answer from the commit it looked at to
the branch the merge call takes. A clean merge of a commit that only adds leaves one of
its two sides (`MergeOfAddition`), and `Conflict` is used for nothing else.
`SeenIsTheProposal` says that a commit id names one content, which is why the check of
the pull request's head makes an older read of its rows good. `Answered` follows a row of
the payload from the importer's receipt to where the accounting looks for it.

`ProfitsAreCash` is about rows that different runs filed. A run subtracts the exchange's
fee only of the orders in its own payload, and the exchange's fee is of the whole market, so
the invariant (`EveryNetIsExplained`) gives the net-bearing rows of a market one batch of
admitted orders that explains all of them: orders are only ever admitted, never taken
back, so of the batches the rows were priced with one contains the others, and a row
bears a net only where its batch's entry fees are what the exchange charged. When the rows
cover the market, the batch is all of its orders, and the sums of what was paid, staked
and netted meet. The set of orders is assumed finite.

`FeesAreCountedOnce` needs only the assumptions of `Accounting.tla`. Its invariant
(`FeesInv`) says that the episodes of a ledger are made of replayed executions and that
their fees are the known fees of those executions which exactly one episode owns, plus the
settlement's. A fill's id is fresh to its ledger, so an opening adds an episode with its
fee, an increase or a reduction swaps the open episode for one with the fee added, and a
reversal does both without charging it; a settlement adds its fee to the one open episode;
marks of authority and coverage rename the episodes and leave their number and their fees.

`CashIsConserved` has two halves. The replay (`CashInv`): until it is settled, a ledger
whose costs are all known is backed by the executions it was replayed from - what its
episodes realized is what those paid and received, less the open position at its average -
and its position is what they add up to. Each kind of execution keeps that (`AppliedBacked`),
an increase because the new average times the new size is the old cost plus the new one. The
exchange (`BookInv`): the last book is the sum of the executions, its long and short totals
are the sums over the subaccounts, the settlement's counts and revenue are made of those
totals, the row the audit read is that settlement, and fills as many as there were
executions are all of them. A row that is taken then has the replayed size, or the replay
has every execution; either way the ledger held what the exchange paid for, and where no
other subaccount held anything that payout is its own, long or short (`PayoutOfHeld`).
The assumption `[]AveragesAreExact` is the model's choice of unit: money is a whole number
of a unit small enough for every average, so an increase must divide without a rest. The
code divides decimals, whose last digit is the only thing left out; with the prices and
sizes of `MCAccounting` (multiples of 60, an increase from 2 contracts to 3 and from 1 to 3)
TLC finds the assumption true in every state. The set of subaccounts is assumed finite
(`SubaccountsAreFinite`), as everything a sum is taken over must be.

The sums are folds of the community modules, which choose an element at a time.
`Sums_proofs` derives their laws - adding, removing or swapping an element, sums of sums, the sum
over an image - from the definition, by the smallest subset of a finite set that would
break the law: no induction theorem with an operator parameter is needed.

The production filter. The four theorems of `Pipeline_proofs` hold for any orders,
markets, tables, catalogues, window and bounds, whatever calls fail. The tables and
catalogues are assumed to be what `Classification` and `Pipeline` say of theirs.

`RoutedOnAgreement` is first about the operators: what each level says when it decides,
and what it implies when it is silent. A claimant of a competition is set aside only
when its name leaves no league possible (`IrrelevantIsImpossible`); a competition that
decides for a league has nobody against it (`CompetitionSays`); texts that decide name one
league (`SeriesSays`); so a market that classifies into a league has nothing against it
(`MarketClassified`), and a combo only when each of its legs does (`ComboJudged`). A combo's
date needs its legs stated and of one date (`DatedCombo`). The invariant adds that the
payload of a finished run is what its gates passed, that every market they looked at was
resolved, and that a cached context is what the catalogue says less what failed
(`DataInv`, `EvaluatedInv`). `HealthHolds` uses the same facts.

`OldOrdersStayOut` and `StableWagersStand` are about the order of the reads. `ReadInv`
says what may be missing at each point: after the live route, a fill of an order is seen,
or is older than the archive's limit *now*, or came at or after the time the run took;
after the archive, only the last remains. The limit may move between the two reads,
which is why the archive must come second; and the first fill of an order of which
anything was seen is seen. Then a run that read both routes and finds the last fill it saw
a window old has seen the order whole (`StableIsWhole`): between an order's first fill and
its last no window is empty (`InOrderOfTime`), so had it filled since the run began, a fill
within the window before that moment would have been seen. From then on the order
is over (`Stable`): no fill comes a window after the last, its league and date are those of
the catalogue without failures, and every later run that was answered each call and could
group its fills finds exactly that. `StableWagerNeverChanges` therefore speaks of
such runs: one order with contradictory fills leaves a run without any candidate (`Replayed`).

Beside the ledgers. The theorems of `Alongside_proofs` are of the specification that
`MCAlongside` checks, with its fairness and its `focus`; each component has an invariant of
its own, kept by its steps and by everyone else's, which leave its variables alone.
`Alongside` and `Bankroll` name what is assumed of the constants, and TLC evaluates it.

*The tree* (`TreeInv`, no assumption). An attempt passes its checks with at most one payload
an area, so a path and an attempt say which document it is. The naming file moves last and
what it names is pruned never, so what is on disk under a name is of the naming file's
attempt or a later one, and what is on disk only gets newer. A reader of `v1` takes each
digest from what it reads; a reader of the explorer reads every file a second time for it. The
digests must be those of the naming file it began with; what it read first lies in age
between that naming file and what it read again, so where the digests fit it is of that
attempt too.

*The bankroll* (`BankrollInv`) assumes that two jobs, the tolerated skew and one tick fit
into the usable age (`JobsFitTheWindow`); with the workflow's numbers (10, 10, 5 and 5 of 30
minutes) they do exactly, so a longer `timeout-minutes` would break it. A write carries a
reading of its own job (`WritesAreFresh`), so what is on file is at most a job and a tick older
than its stamp, and a run accepts a stamp only from its own start on, less the skew: that
is at most another job ago.

*The evidence* (`EvidenceInv`). The execution row on file never changes, so every link is made
from the same first fill, while the decisions around it only grow in number. A link is
`LINKED` only when all of them bear one recommendation; a later one therefore bears that of
an earlier one.

*The client* (`ClientInv`). Rows are numbered by age and the archive holds the oldest. A page
and its cursor split what the route serves (`WalkInv`): what there was when the read began
has been yielded or is behind the cursor, so a walk that ends without a cursor has
it all. A fill that leaves the live route is met in the archive, which is
walked after it; the other order would lose it. The floor is a yielded row, and a probe that
was heeded and answered empty leaves nothing older.

*The collector* (`CaptureInv`). The book of a response is from before its stamp, so a ring never
has a book of a later moment than the time it is filed under, and the snapshot that an order
is joined to, stamped before the order was placed, shows a book from before it. Each
order is in one cohort of every state in memory, on disk, copied or published. For the
totals, what the branch publishes counts no more than the copy, the copy no more than the
public file, that no more than the state file, which is saved first, and that no more
than the memory; the branch's state is never behind its statistics, and the next link starts
from it. The cohort that is retired at a start is assumed finite (`LegacyIsFinite`).

*The backfill* (`BackfillInv`). What is on the ledger under a key of the router's, on the
proposal or in a payload was rebuilt from the fills (`Writable`); a payload and a proposal are
new, by market and side, to the ledger their run read, and a proposal is new by its keys to
the ledger as it is now, because the importer ran on the clone that the branch was rebuilt
on. What a row says of its trade is a matter of the operators (`RebuiltTells`): where every
fill of an order was read, the fills read are the fills traded, each once (`OneReadPerFill`);
each has the contract its words agree on and, unless it is unknown, the price of its YES leg;
so the notional is a sum over the trades, and for a NO order what it leaves of the
whole is what was paid. Assumed of the trades: there are finitely many and an id names one
(`TradesAreTrades`). Assumed of the exchange (`ServedAreTraded`): an object describes a traded
fill and an id is served once. An object may leave out words, a leg or the fee, be in
either unit, or contradict itself; what the theorem excludes is an exchange that is wrong
without a contradiction.

Only model-checked: the liveness properties (`NothingIsDeferredForever`,
`EligibleReachesLedger`, `ProposalSettles`, `SettledIsFiledOrReported`, `ScheduleNeverStops`,
`FailureIsNeverHidden`), since liveness under fairness and `ENABLED` are outside what the
proof system does. Every other property of a passing run is stated by a theorem. The runs
that expect a violation have, of course, none; `ParsedIsObserved` proves the property of
`MCAccountingRejected` where fills parse, `LedgerHoldsEachOrderOnce` that of
`MCDeliveryUnproved` where the importer does not double.

## Not modelled

* The loop over destinations: they share only a failure count.
* The shadow wagers of `wager.py` (counted, never sent) and the contract
  reconciliation and comparison reports, which change nothing.
* Signing, rate limiting and the parsing of times in the client.
* The text scans of classification beyond the marks they find, and the tables of
  competitions beyond extracts; milestones, which enter only reports.
* The documents of the edge-finder contract, their schemas and builders, the packets
  made from a tree (one file read at a time, like the reader of `AppTree`), the
  synchronisation of vendored copies.
* Price statistics and coverage reports of entry capture and closes.
* The fields of the health documents other than the overall status.
* Probes of credentials and routes, argument parsing, configuration, output safety.
* The receipt shapes of the destinations before they are normalised.
* The conductor's off switch (`vars.ROUTER_CONDUCTOR`), the dry runs of the settlement
  job and its own refusals of a second import, the `health.json` test of
  `verify_published`, and the date fields of a market and the lookup of its series,
  which fail with the event's lookup in the model.
* A destination that must be up to date while its other files move without end, and a
  branch deleted between a push and a POST, as liveness: the divergences above.

## Plan

1. `Settlement`, `Pipeline`: type theorems, with money as any number.
2. Liveness as far as safety carries it: which action a waiting state leaves open, as an
   invariant (the delivery run always has a step; a deferred order keeps its reason).
