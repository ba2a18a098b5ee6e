------------------------------ MODULE Delivery ------------------------------
(***************************************************************************)
(* The delivery of one destination's wagers, run after run: the workflow   *)
(* deliver-wagers.yml with scripts/deliver_branch.py (which commit to      *)
(* import on, and adopt / push / nothing), scripts/merge_delivery_pr.py    *)
(* (the gate and the merge call) and scripts/reconcile_delivery.py (the    *)
(* accounting that ends a run), against a destination repository whose     *)
(* ledger branch, pull request and check suite other actors also move.     *)
(*                                                                         *)
(* A commit is its ledger rows, the ledger it sits on, and whether it      *)
(* touches anything else.  A row is its source key, its economics, the     *)
(* clock reading the importer stamped on it, who wrote it, and whether the *)
(* destination has graded it.  Steps of a run that read and write nothing  *)
(* outside its own clone are taken together with the shared read that      *)
(* precedes them.                                                          *)
(***************************************************************************)
EXTENDS Integers, FiniteSets

CONSTANTS
    Keys,              \* source keys of the account's orders
    NoKey,             \* "no source key", for the gate's receipts
    MaxEcon,           \* how many times an order's economics are read anew
    MaxStamp,          \* bound: distinct clock readings kept apart
    MaxIds,            \* bound: commit ids alive at once
    MaxCommits,        \* bound: commits others make to the ledger branch
    MaxGlitches,       \* bound: transient failures and killed jobs
    Unrecordable,      \* orders the destination's importer refuses
    Layout,            \* "jsonl", or "json_per_file" (one record per file)
    StampsRows,        \* the importer stamps new rows with the wall clock
    RunsCI,            \* pull-request CI, or else the ledger's validator
    ChecksKeys,        \* that verdict rejects two rows with one key
    CIMayFail,         \* CI may also fail for reasons of its own
    Holds,             \* is it held for observation: the values that occur
    RequireUpToDate,   \* its branch protection reports `behind`
    DryRuns,           \* the values of inputs.dry_run that occur
    Others,            \* what other actors do to the destination
    Faults             \* what its importer may do against its contract

ASSUME NoKeyIsNoKey == NoKey \notin Keys
ASSUME BoundsAreNumbers ==
    /\ MaxEcon \in Nat \ {0} /\ MaxStamp \in Nat /\ MaxIds \in Nat
    /\ MaxCommits \in Nat /\ MaxGlitches \in Nat
ASSUME FlagsAreBooleans ==
    /\ {StampsRows, RunsCI, ChecksKeys, CIMayFail, RequireUpToDate} \subseteq BOOLEAN
    /\ DryRuns \subseteq BOOLEAN /\ Holds \subseteq BOOLEAN
ASSUME LayoutIsKnown == Layout \in {"jsonl", "json_per_file"}
ASSUME OthersAreKnown ==
    Others \subseteq {"noise", "grade", "recovery", "merge", "close", "draft", "amend", "delete"}
ASSUME FaultsAreKnown == Faults \subseteq {"rewrite", "side", "stray", "double", "mute"}

VARIABLES
    main,       \* the destination's ledger branch: version and rows
    branch,     \* kalshi-router/<sport>: one commit, or NoCommit
    pull,       \* the pull request from branch to main
    ci,         \* the check suite of branch's head
    elig,       \* economics of each eligible order, 0 when not placed
    glitches,   \* transient failures still to come
    pc,         \* where the current run is
    run,        \* the current run's own state
    outcome     \* how the last run ended

vars == <<main, branch, pull, ci, elig, glitches, pc, run, outcome>>

---------------------------------------------------------------------------
(* Rows, commits and runs.                                                 *)

Row == [key : Keys, econ : 1..MaxEcon, stamp : 0..MaxStamp,
        by : {"router", "person"}, graded : BOOLEAN]

KeysOf(rows) == {r.key : r \in rows}
UniqueKeys(rows) == \A r, s \in rows : r.key = s.key => r = s

Commit == [id : 0..MaxIds, n : Nat, base : SUBSET Row, rows : SUBSET Row,
           files : {"ledger", "side", "stray"}]

NoCommit == [id |-> 0, n |-> 0, base |-> {}, rows |-> {}, files |-> "ledger"]
Exists(commit) == commit.id # 0

\* The rows a commit adds to the ledger it sits on, and those it takes away.
Adds(commit) == commit.rows \ commit.base
Removes(commit) == commit.base \ commit.rows

\* CORRECTED, which the accounting accepts too, is left out: the importer
\* modelled here never gives it for a wager (routed_ledger.import_wagers).
ACCEPTED == {"NEW", "DUPLICATE_NOOP"}
Receipts == [Keys -> ACCEPTED \cup {"CONFLICT", "REFUSED", "none"}]
NoReceipts == [k \in Keys |-> "none"]

\* clone: main as cloned; remote: the branch as fetched; tree: what the
\* importer left; head: the commit this run vouches for; held: the profile
\* this run's gate reads says auto_merge = False.
Run == [dry : BOOLEAN, held : BOOLEAN, payload : [Keys -> 0..MaxEcon],
        clone : [n : Nat, rows : SUBSET Row], remote : Commit, seeded : BOOLEAN,
        tree : Commit, receipts : Receipts, rerunMoved : BOOLEAN,
        head : Commit, failed : BOOLEAN]

NoRun == [dry |-> FALSE, held |-> FALSE, payload |-> [k \in Keys |-> 0],
          clone |-> [n |-> 0, rows |-> {}], remote |-> NoCommit, seeded |-> FALSE, tree |-> NoCommit,
          receipts |-> NoReceipts, rerunMoved |-> FALSE, head |-> NoCommit, failed |-> FALSE]

Phases == {"idle", "clone", "seed", "settle", "pull", "gate", "merge", "reconcile"}

TypeOK ==
    /\ main \in [n : Nat, rows : SUBSET Row]
    /\ branch \in Commit
    /\ pull \in {"none", "open", "draft"}
    /\ ci \in {"none", "running", "green", "red"}
    /\ elig \in [Keys -> 0..MaxEcon]
    /\ glitches \in 0..MaxGlitches
    /\ pc \in Phases
    /\ run \in Run
    /\ outcome \in {"none", "green", "red"}

Init ==
    /\ main = [n |-> 0, rows |-> {}]
    /\ branch = NoCommit
    /\ pull = "none"
    /\ ci = "none"
    /\ elig = [k \in Keys |-> 0]
    /\ glitches = MaxGlitches
    /\ pc = "idle"
    /\ run = NoRun
    /\ outcome = "none"

---------------------------------------------------------------------------
(* Fresh values: the smallest commit id nobody holds and, when the         *)
(* importer stamps rows, per order the smallest reading no row of it has.  *)

LiveIds == {branch.id, run.remote.id, run.head.id}
FreshIds == {i \in 1..MaxIds : i \notin LiveIds /\ \A j \in 1..(i - 1) : j \in LiveIds}

LiveRows == UNION {main.rows, branch.rows, run.clone.rows, run.remote.rows,
                   run.tree.rows, run.head.rows}
Stamped(k) == {r.stamp : r \in {row \in LiveRows : row.key = k}}
FreshStamps(k) ==
    IF StampsRows
    THEN {s \in 1..MaxStamp : s \notin Stamped(k) /\ \A t \in 1..(s - 1) : t \in Stamped(k)}
    ELSE {0}

FreshRows(k, econ, who) ==
    {[key |-> k, econ |-> econ, stamp |-> s, by |-> who, graded |-> FALSE] : s \in FreshStamps(k)}

Glitch == glitches > 0 /\ glitches' = glitches - 1

EndRun(failed) ==
    /\ outcome' = IF failed THEN "red" ELSE "green"
    /\ run' = NoRun
    /\ pc' = "idle"

---------------------------------------------------------------------------
(* The account and the destination, outside the run.                       *)

unchangedRun == UNCHANGED <<glitches, pc, run, outcome>>

\* The production filter declares an order final, or reads it anew.
PlaceWager(k) ==
    /\ elig[k] < MaxEcon
    /\ elig' = [elig EXCEPT ![k] = @ + 1]
    /\ UNCHANGED <<main, branch, pull, ci>> /\ unchangedRun

OthersCommit(rows) ==
    /\ main.n < MaxCommits
    /\ main' = [n |-> main.n + 1, rows |-> rows]
    /\ UNCHANGED <<branch, pull, ci, elig>> /\ unchangedRun

\* The destination commits its own pipeline output.
NoiseCommit == "noise" \in Others /\ OthersCommit(main.rows)

\* The destination grades a row of its ledger.
GradeCommit(row) ==
    /\ "grade" \in Others /\ ~row.graded
    /\ OthersCommit((main.rows \ {row}) \cup {[row EXCEPT !.graded = TRUE]})

\* Another router branch lands an order first: recover-wagers
\* re-delivers the same orders on a branch that a person merges at any time.
RecoveryCommit(k) ==
    /\ "recovery" \in Others /\ elig[k] # 0 /\ k \notin KeysOf(main.rows)
    /\ \E row \in FreshRows(k, elig[k], "router") : OthersCommit(main.rows \cup {row})

\* Pull-request CI starts once per head and reports once.
CIStart ==
    /\ RunsCI /\ pull # "none" /\ ci = "none"
    /\ ci' = "running"
    /\ UNCHANGED <<main, branch, pull, elig>> /\ unchangedRun

\* A verdict that never looks for a second row of an order.
Sound_AnyKeys(rows) == TRUE

\* What the destination's own verdict, CI or validator, says of a ledger.
Sound(rows) == ChecksKeys => UniqueKeys(rows)

CIFinish ==
    /\ ci = "running"
    /\ ci' = IF Sound(branch.rows) THEN "green" ELSE "red"
    /\ UNCHANGED <<main, branch, pull, elig>> /\ unchangedRun

CIFail ==
    /\ CIMayFail /\ ci = "running"
    /\ ci' = "red"
    /\ UNCHANGED <<main, branch, pull, elig>> /\ unchangedRun

---------------------------------------------------------------------------
(* What git and GitHub answer about merging a commit into main.            *)

Behind(commit) == RequireUpToDate /\ commit.n # main.n

\* TRUE is a conflict.  Nothing moved the ledger, or it holds exactly what
\* the commit adds: clean.  Grades only: lines may or may not be adjacent.
\* Rows appended on both sides: one JSONL file conflicts, and one file per
\* record conflicts when both sides wrote the same record differently.
Conflicts(commit) ==
    LET landed == main.rows \ commit.base
    IN  CASE main.rows = commit.base \/ landed = Adds(commit) -> {FALSE}
          [] KeysOf(main.rows) = KeysOf(commit.base) -> BOOLEAN
          [] OTHER -> IF Layout = "jsonl"
                         \/ \E r \in landed, s \in Adds(commit) : r.key = s.key /\ r # s
                      THEN {TRUE} ELSE {FALSE}

\* A merge that takes the branch's side of the file.
MergedRows_Theirs(commit) == commit.rows

MergedRows(commit) == (main.rows \ Removes(commit)) \cup Adds(commit)

\* Squash-merge the pull request.
MergeInto(commit) ==
    /\ main' = [n |-> main.n + 1, rows |-> MergedRows(commit)]
    /\ pull' = "none"
    /\ UNCHANGED <<branch, ci, elig>>

---------------------------------------------------------------------------
(* The run: payload and clone.                                             *)

unchangedWorld == UNCHANGED <<main, branch, pull, ci, elig>>

\* Every scheduled run rebuilds the payload from every eligible order; with
\* none it stops before it touches a destination.
StartRun ==
    /\ pc = "idle"
    /\ \E k \in Keys : elig[k] # 0
    /\ \E dry \in DryRuns : run' = [NoRun EXCEPT !.dry = dry, !.payload = elig]
    /\ pc' = "clone"
    /\ UNCHANGED <<glitches, outcome>> /\ unchangedWorld

Clone ==
    /\ pc = "clone"
    /\ run' = [run EXCEPT !.clone = main]
    /\ pc' = "seed"
    /\ UNCHANGED <<glitches, outcome>> /\ unchangedWorld

\* A clone that fails after its retries, a pull request that cannot be
\* opened, a ledger that cannot be fetched, a killed job: the run ends red
\* with whatever it had done so far.
RunDies ==
    /\ pc # "idle"
    /\ Glitch
    /\ EndRun(TRUE)
    /\ unchangedWorld

---------------------------------------------------------------------------
(* deliver_branch.py seed, the two imports, and the validator.             *)

LedgerMoved(remote, clone) == remote.base # clone.rows

\* The first version of choose_seed: always rebuild on main.
ChooseSeed_AlwaysMain(remote, clone) == FALSE

\* TRUE: import on top of the router's own branch; FALSE: on top of main.
ChooseSeed(remote, clone) == Exists(remote) /\ ~LedgerMoved(remote, clone)

\* An importer that recognises an order by its key AND its economics.
OnFile_ByEconomics(rows, k, econ) == {r \in rows : r.key = k /\ r.econ = econ}

\* The row the importer finds for an order: by source key alone.
OnFile(rows, k, econ) == {r \in rows : r.key = k}

\* An importer that amends a row instead of refusing to rewrite it.
ReceiptFor_Corrects(rows, k, econ) ==
    IF econ = 0 THEN "none" ELSE IF OnFile(rows, k, econ) = {} THEN "NEW" ELSE "CORRECTED"

ReceiptFor(rows, k, econ) ==
    CASE econ = 0 -> "none"
      [] k \in Unrecordable -> "REFUSED"
      [] econ # 0 /\ k \notin Unrecordable /\ OnFile(rows, k, econ) = {} -> "NEW"
      [] OTHER -> IF \E r \in OnFile(rows, k, econ) : r.econ # econ
                  THEN "CONFLICT" ELSE "DUPLICATE_NOOP"

\* What an import of the payload on top of seed may leave: the tree, the
\* receipts, and whether the second, identical import moved the tree.  The
\* first member is the importer's contract; the others are importers that
\* rewrite a row, touch a file outside the mergeable paths (or outside the
\* committable ones), write a row again on the second import, or drop a row
\* without a receipt and exit 0.
ImportResults(seed, payload, new) ==
    LET result == [tree |-> [seed EXCEPT !.rows = @ \cup new],
                   receipts |-> [k \in Keys |-> ReceiptFor(seed.rows, k, payload[k])],
                   rerunMoved |-> FALSE]
        faulty(fault, results) == IF fault \in Faults THEN results ELSE {}
    IN  {result}
        \cup faulty("rewrite", {[result EXCEPT !.tree.rows =
                 (@ \ {r}) \cup {[r EXCEPT !.graded = ~@]}] : r \in seed.rows})
        \cup faulty("side", {[result EXCEPT !.tree.files = "side"]})
        \cup faulty("stray", {[result EXCEPT !.tree.files = "stray"]})
        \cup faulty("double", {[result EXCEPT !.tree.rows = @ \cup {[r EXCEPT !.stamp = 0]},
                                              !.rerunMoved = TRUE] : r \in new})
        \cup faulty("mute", {[result EXCEPT !.tree.rows = @ \ {r},
                                            !.receipts[r.key] = "none"] : r \in new})

\* New rows of a payload, one per order it has that the seed lacks.
NewRows(seed, payload) ==
    LET fresh == {k \in Keys : ReceiptFor(seed.rows, k, payload[k]) = "NEW"}
    IN  {{rowOf[k] : k \in fresh} : rowOf \in
            {f \in [fresh -> UNION {FreshRows(k, payload[k], "router") : k \in fresh}] :
                \A k \in fresh : f[k] \in FreshRows(k, payload[k], "router")}}

\* The tree to import on, with the base its proposal sits on.
SeedTree(remote, clone) ==
    IF ChooseSeed(remote, clone)
    THEN [remote EXCEPT !.id = 0]
    ELSE [id |-> 0, n |-> clone.n, base |-> clone.rows, rows |-> clone.rows, files |-> "ledger"]

SeedAndImport(remote) ==
    LET seed == SeedTree(remote, run.clone)
    IN  /\ pc = "seed"
        /\ \E new \in NewRows(seed, run.payload) :
             \E result \in ImportResults(seed, run.payload, new) :
                run' = [run EXCEPT !.remote = remote, !.seeded = ChooseSeed(remote, run.clone),
                                   !.tree = result.tree, !.receipts = result.receipts,
                                   !.rerunMoved = result.rerunMoved]
        /\ pc' = "settle"
        /\ UNCHANGED outcome /\ unchangedWorld

Fetch == SeedAndImport(branch) /\ UNCHANGED glitches

\* The fetch of the branch is not checked: without it there is no remote ref.
FetchFails == Exists(branch) /\ Glitch /\ SeedAndImport(NoCommit)

Accepted(receipt) == receipt \in ACCEPTED
Offered(r) == {k \in Keys : r.receipts[k] # "none"}

\* The importer exits non-zero when it refused a row; the failure is counted
\* and whatever it did write is still delivered.
Partial(r) == \E k \in Offered(r) : ~Accepted(r.receipts[k])

---------------------------------------------------------------------------
(* deliver_branch.py settle.                                               *)

\* The test it replaced: "did the importer change the working tree?"
NothingToDeliver_CleanTree(r) ==
    r.tree.rows = (IF r.seeded THEN r.remote.rows ELSE r.clone.rows)

NothingToDeliver(r) == r.tree.rows = r.tree.base /\ r.tree.files = "ledger"

Adopts(r) == r.seeded /\ [r.tree EXCEPT !.id = r.remote.id] = r.remote

\* A destination without CI answers with its own validator, on the tree.
ValidatorRefuses(tree) == ~RunsCI /\ ~Sound(tree.rows)

FailedSoFar(r) == Partial(r) \/ ValidatorRefuses(r.tree)

\* What the run keeps once its clone is no longer needed.
Deliver(head) ==
    run' = [run EXCEPT !.clone = NoRun.clone, !.remote = NoCommit, !.seeded = FALSE,
                       !.tree = NoCommit, !.head = head, !.failed = FailedSoFar(run)]

\* Containment: files outside the committable prefixes are never committed.
SettleStray ==
    /\ pc = "settle" /\ run.tree.files = "stray"
    /\ EndRun(TRUE)
    /\ UNCHANGED glitches /\ unchangedWorld

Settles == pc = "settle" /\ run.tree.files # "stray"

SettleNothing ==
    /\ Settles /\ NothingToDeliver(run)
    /\ IF run.dry THEN EndRun(FailedSoFar(run))
       ELSE Deliver(NoCommit) /\ pc' = "reconcile" /\ UNCHANGED outcome
    /\ UNCHANGED glitches /\ unchangedWorld

SettleDry ==
    /\ Settles /\ ~NothingToDeliver(run) /\ run.dry
    /\ EndRun(FailedSoFar(run))
    /\ UNCHANGED glitches /\ unchangedWorld

SettleAdopt ==
    /\ Settles /\ ~NothingToDeliver(run) /\ ~run.dry /\ Adopts(run)
    /\ Deliver(run.remote) /\ pc' = "pull"
    /\ UNCHANGED <<outcome, glitches>> /\ unchangedWorld

NeedsPush == Settles /\ ~NothingToDeliver(run) /\ ~run.dry /\ ~Adopts(run)

\* --force-with-lease with no expectation at all.
LeaseHolds_Forced(remote) == TRUE

\* The branch is still where this run fetched it.
LeaseHolds(remote) == branch.id = remote.id

SettlePush ==
    /\ NeedsPush /\ LeaseHolds(run.remote)
    /\ \E id \in FreshIds :
          LET head == [run.tree EXCEPT !.id = id]
          IN  Deliver(head) /\ branch' = head
    /\ ci' = "none"
    /\ pc' = "pull"
    /\ UNCHANGED <<main, pull, elig, glitches, outcome>>

\* A step that ignores what `git push` answered.
SettleRefused_Ignored ==
    /\ NeedsPush /\ ~LeaseHolds(run.remote)
    /\ Deliver(run.remote) /\ pc' = "pull"
    /\ UNCHANGED <<outcome, glitches>> /\ unchangedWorld

SettleRefused ==
    /\ NeedsPush /\ ~LeaseHolds(run.remote)
    /\ EndRun(TRUE)
    /\ UNCHANGED glitches /\ unchangedWorld

---------------------------------------------------------------------------
(* The pull request.                                                       *)

\* 201 opens it; 422 is read as "already open", and is also what GitHub
\* answers when the branch is gone.  The gate that follows reads the profile
\* of this run's checkout: a release of the router holds a destination for
\* observation, or stops holding it.
OpenPull ==
    /\ pc = "pull"
    /\ pull' = IF pull = "none" /\ Exists(branch) THEN "open" ELSE pull
    /\ \E held \in Holds : run' = [run EXCEPT !.held = held]
    /\ pc' = "gate"
    /\ UNCHANGED <<main, branch, ci, elig, glitches, outcome>>

---------------------------------------------------------------------------
(* merge_delivery_pr.py: the facts, the gate, the merge call.              *)

Gate == INSTANCE MergeGate WITH Rows <- Keys, SourceKeys <- Keys, NoKey <- NoKey

GateReceipt(k, verdict) ==
    [key |-> k, identity |-> IF verdict = "REFUSED" THEN "none" ELSE "id",
     verdict |-> verdict, success |-> Accepted(verdict), conflicting |-> verdict = "CONFLICT"]

GateRows(commit) ==
    {[key |-> r.key, named |-> TRUE, batch |-> IF r.by = "router" THEN "router" ELSE "absent"] :
        r \in Adds(commit)}

CheckRuns ==
    CASE ci = "none" -> {} [] ci = "running" -> {"pending"}
      [] ci = "green" -> {"passing"} [] ci = "red" -> {"failing"}

\* mergeable_state as GitHub computes it; a draft is not clean either.
MergeState(conflict) ==
    IF conflict THEN "dirty"
    ELSE IF pull = "draft" THEN "blocked"
    ELSE IF Behind(branch) THEN "behind"
    ELSE IF RunsCI /\ ci # "green" THEN "unstable" ELSE "clean"

\* The facts of a run about the head it vouches for.  No open pull request
\* for the branch leaves every field about it unread.  known: GitHub has
\* computed mergeability.
FactsOf(r, known, conflict) ==
    LET found == pull # "none"
        told == found /\ known
    IN  [numbered |-> found,
         state |-> IF found THEN "open" ELSE "unknown",
         draft |-> pull = "draft",
         ours |-> found,
         head |-> IF ~found THEN "unknown" ELSE IF branch.id = r.head.id THEN "verified" ELSE "other",
         receipts |-> [k \in Offered(r) |-> GateReceipt(k, r.receipts[k])],
         partial |-> Partial(r),
         rerun |-> [k \in Offered(r) |->
                       GateReceipt(k, IF Accepted(r.receipts[k]) /\ ~r.rerunMoved
                                      THEN "DUPLICATE_NOOP" ELSE r.receipts[k])],
         rerunTree |-> IF r.rerunMoved THEN "changed" ELSE "same",
         files |-> (IF r.head.rows # r.head.base THEN {"ledger"} ELSE {}) \cup
                   (IF r.head.files # "ledger" THEN {"other"} ELSE {}),
         removes |-> Removes(r.head) # {},
         added |-> GateRows(r.head),
         kind |-> "wagers",
         runsCI |-> RunsCI,
         validator |-> IF RunsCI THEN "unknown"
                       ELSE IF Sound(r.head.rows) THEN "accepted" ELSE "refused",
         checks |-> IF found THEN CheckRuns ELSE {},
         mergeable |-> IF ~told THEN "unknown" ELSE IF conflict THEN "no" ELSE "yes",
         mergeState |-> IF told THEN MergeState(conflict) ELSE "unknown"]

\* REFUSE fails the run; WAIT, and a MERGE of a destination held for
\* observation, leave everything as it is; MERGE goes on to the merge call.
Evaluate(known, conflict) ==
    /\ pc = "gate"
    /\ \E facts \in {FactsOf(run, known, conflict)} : \E verdict \in {Gate!Evaluate(facts)} :
         LET merges == verdict = "MERGE" /\ ~run.held
         IN  /\ run' = [run EXCEPT !.failed = @ \/ verdict = "REFUSE",
                                   !.head = IF merges THEN @ ELSE NoCommit]
             /\ pc' = IF merges THEN "merge" ELSE "reconcile"
    /\ UNCHANGED outcome /\ unchangedWorld

EvaluateGate == \E conflict \in Conflicts(branch) : Evaluate(TRUE, conflict) /\ UNCHANGED glitches

\* mergeable stays null through every attempt to read it.
EvaluateUnknown == pull # "none" /\ Glitch /\ Evaluate(FALSE, FALSE)

\* The gate or the merge call could not reach the API: counted, and the run
\* goes on to the accounting.
CallFails ==
    /\ pc \in {"gate", "merge"}
    /\ Glitch
    /\ run' = [run EXCEPT !.failed = TRUE, !.head = NoCommit]
    /\ pc' = "reconcile"
    /\ UNCHANGED outcome /\ unchangedWorld

\* A merge call that does not name the commit the gate judged.
MergeAllowed_Unpinned(head) == Exists(branch)

\* GitHub merges only if the head is still the sha the call names.
MergeAllowed(head) == branch.id = head.id

\* The call landed; its reply may still be lost, and then it reads as failed.
MergeLands ==
    /\ pc = "merge" /\ pull = "open" /\ MergeAllowed(run.head) /\ ~Behind(branch)
    /\ FALSE \in Conflicts(branch)
    /\ MergeInto(branch)
    /\ \/ UNCHANGED glitches /\ run' = [run EXCEPT !.head = NoCommit]
       \/ Glitch /\ run' = [run EXCEPT !.head = NoCommit, !.failed = TRUE]
    /\ pc' = "reconcile"
    /\ UNCHANGED outcome

\* 409, the head moved: nothing merged and nothing wrong.  Any other refusal
\* fails the run.
MergeRefused ==
    /\ pc = "merge"
    /\ \/ pull # "open" \/ ~MergeAllowed(run.head) \/ Behind(branch) \/ TRUE \in Conflicts(branch)
    /\ run' = [run EXCEPT !.head = NoCommit,
                          !.failed = @ \/ pull # "open" \/ MergeAllowed(run.head)]
    /\ pc' = "reconcile"
    /\ UNCHANGED <<outcome, glitches>> /\ unchangedWorld

---------------------------------------------------------------------------
(* reconcile_delivery.py, on a fresh fetch of the ledger branch.           *)

\* An accounting that takes "nobody refused it" for "it was proposed".
Proposed_UnlessRefused(r, k) == r.receipts[k] \notin {"CONFLICT", "REFUSED"}

\* PROPOSED_NOT_MERGED, for a key that is not on the ledger.
Proposed(r, k) == Accepted(r.receipts[k])

Refused(r, k) == r.receipts[k] \in {"CONFLICT", "REFUSED"}

Unaccounted(r) ==
    {k \in Keys : r.payload[k] # 0 /\ ~Refused(r, k) /\ k \notin KeysOf(main.rows) /\ ~Proposed(r, k)}

Reconcile ==
    /\ pc = "reconcile"
    /\ EndRun(run.failed \/ Unaccounted(run) # {})
    /\ UNCHANGED glitches /\ unchangedWorld

---------------------------------------------------------------------------
(* People on the router's pull request.                                    *)

\* A person merges what reads as a plain batch of new orders.
PersonMerges ==
    /\ "merge" \in Others /\ pull = "open" /\ FALSE \in Conflicts(branch) /\ ~Behind(branch)
    /\ Removes(branch) = {} /\ UniqueKeys(branch.rows) /\ branch.files = "ledger"
    /\ MergeInto(branch) /\ unchangedRun

PersonCloses ==
    /\ "close" \in Others /\ pull # "none"
    /\ pull' = "none"
    /\ UNCHANGED <<main, branch, ci, elig>> /\ unchangedRun

PersonDrafts ==
    /\ "draft" \in Others /\ pull # "none"
    /\ pull' = IF pull = "open" THEN "draft" ELSE "open"
    /\ UNCHANGED <<main, branch, ci, elig>> /\ unchangedRun

\* A person amends the router's commit with a row of their own.
PersonAmends(k) ==
    /\ "amend" \in Others /\ Exists(branch) /\ k \notin KeysOf(branch.rows)
    /\ \E id \in FreshIds, row \in FreshRows(k, 1, "person") :
          branch' = [branch EXCEPT !.id = id, !.rows = @ \cup {row}]
    /\ ci' = "none"
    /\ UNCHANGED <<main, pull, elig>> /\ unchangedRun

\* A person deletes the branch, which closes its pull request.
PersonDeletes ==
    /\ "delete" \in Others /\ Exists(branch)
    /\ branch' = NoCommit /\ pull' = "none" /\ ci' = "none"
    /\ UNCHANGED <<main, elig>> /\ unchangedRun

---------------------------------------------------------------------------

RunStep ==
    \/ StartRun \/ Clone \/ Fetch
    \/ SettleStray \/ SettleNothing \/ SettleDry \/ SettleAdopt \/ SettlePush \/ SettleRefused
    \/ OpenPull \/ EvaluateGate \/ MergeLands \/ MergeRefused \/ Reconcile

Trouble == FetchFails \/ EvaluateUnknown \/ CallFails \/ RunDies

People == PersonMerges \/ PersonCloses \/ PersonDrafts \/ PersonDeletes \/ \E k \in Keys : PersonAmends(k)

World ==
    \/ NoiseCommit \/ CIStart \/ CIFinish \/ CIFail
    \/ \E k \in Keys : PlaceWager(k) \/ RecoveryCommit(k)
    \/ \E row \in main.rows : GradeCommit(row)

Next == RunStep \/ Trouble \/ People \/ World

Spec == Init /\ [][Next]_vars

\* A schedule that keeps running (deliver-wagers.yml, every 15 minutes), each
\* run going on until it ends, and a check suite that starts and reports.
Fairness == WF_vars(RunStep) /\ WF_vars(CIStart) /\ WF_vars(CIFinish)

FairSpec == Spec /\ Fairness

---------------------------------------------------------------------------
(* Safety.                                                                 *)

\* An order is on the canonical ledger at most once, whatever mix of runs,
\* rebuilds, recoveries and people put rows there (routed_ledger.py keys the
\* ledger by source_bet_key; docs/OPERATIONS.md promises no duplicates).
OneRowPerKey == UniqueKeys(main.rows)

\* The ledger as an abstract append-and-grade store: no run, person or race
\* removes or rewrites a row that was on it (automerge.py's append-only
\* condition, and git's own refusal of conflicting merges).
Canonical == INSTANCE CanonicalLedger WITH ledger <- main.rows
RefinesCanonicalLedger == Canonical!Spec

\* What a run's merge call may land: the very commit this run settled, of
\* router rows only, each receipted by this run's import at the economics of
\* this run's payload, with the destination's verdict on that commit in.
\* merge_delivery_pr.py pins the sha the twelve conditions were checked on.
MergesOnlyWhatItVerified ==
    [][(pc = "merge" /\ pc' = "reconcile" /\ main' # main) =>
         /\ branch = run.head
         /\ Removes(branch) = {} /\ branch.files = "ledger"
         /\ \A r \in Adds(branch) :
               /\ r.by = "router"
               /\ Accepted(run.receipts[r.key])
               /\ r.econ = run.payload[r.key]
         /\ ~Partial(run) /\ ~run.rerunMoved
         /\ IF RunsCI THEN ci = "green" ELSE Sound(branch.rows)]_vars

\* What a proposal says, its clock readings aside.
Content(commit) == <<commit.base, {[r EXCEPT !.stamp = 0] : r \in commit.rows}, commit.files>>

\* The head of the router's branch moves only when what it proposes, or the
\* ledger it proposes it against, has moved: re-delivering an unchanged batch
\* keeps the commit, so its check suite can finish (delivery_branch.py).
UnchangedProposalIsNeverRepushed ==
    [][(pc = "settle" /\ branch' # branch) => Content(branch') # Content(branch)]_vars

\* When a run takes stock, every order it would report PROPOSED_NOT_MERGED is
\* on the ledger or on the router's branch with a pull request open: receipts
\* stand for a proposal that exists (reconcile_delivery.py).
ProposedMeansProposed ==
    pc = "reconcile" =>
        \A k \in Keys : Proposed(run, k) =>
            \/ k \in KeysOf(main.rows)
            \/ k \in KeysOf(branch.rows) /\ pull # "none"

\* A delivering run that ends green leaves every order of its payload on the
\* ledger or on an open proposal; no importer that drops a row, refused push
\* or lost reply is reported as a clean run.
GreenMeansAccounted ==
    [][(pc # "idle" /\ pc' = "idle" /\ outcome' = "green" /\ ~run.dry) =>
         \A k \in Keys : run.payload[k] # 0 =>
            \/ k \in KeysOf(main.rows)
            \/ k \in KeysOf(branch.rows) /\ pull # "none"]_vars

---------------------------------------------------------------------------
(* Liveness.                                                               *)

\* A row on the ledger or on the router's branch says something else than the
\* order's fills now do.  Its receipts are CONFLICT and wait for a person.
Contradicted == \E row \in main.rows \cup branch.rows : row.econ # elig[row.key]

\* Unless runs are held for observation for ever, or some order is left
\* contradicted, every order the router declares eligible is on the canonical
\* ledger in the end, without a person: pushed once, adopted until its checks
\* finish, then merged (docs/OPERATIONS.md, "one cycle").  Orders stay
\* eligible and rows stay on the ledger, so "again and again all of them" is
\* "each of them in the end".
EligibleReachesLedger ==
    <>[][pc = "gate" => ~run.held]_vars =>
        []<>(Contradicted \/ \A k \in Keys : elig[k] # 0 => k \in KeysOf(main.rows))

\* The router's branch comes to rest: once the account and the destination
\* are quiet no run moves its head any more, even when nothing merges it
\* (a destination held for observation, an order the ledger or the branch
\* itself contradicts), although every run imports the whole payload again
\* with new clock readings (delivery_branch.py, the restart it prevents).
ProposalSettles == <>[][branch' = branch]_vars
=============================================================================
