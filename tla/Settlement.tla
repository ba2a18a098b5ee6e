----------------------------- MODULE Settlement -----------------------------
(***************************************************************************)
(* The settlement of one destination's wagers, run after run: the payload  *)
(* of `settle-live` (kalshi_router.settlement over what the exchange       *)
(* states), settle-wagers.yml with settlement_parents.py and               *)
(* settlement_season.py, the shared importer's import_settlements, the     *)
(* merge gate and the accounting, beside a wager delivery that rebuilds    *)
(* and merges a proposal of its own on the same ledger branch.             *)
(*                                                                         *)
(* A wager row is its order's key and whether its market and side are the  *)
(* order's.  Money is in cents; a figure the router refuses to state is    *)
(* the empty set, a stated one a singleton.  Every order is one contract.  *)
(***************************************************************************)
EXTENDS Integers, FiniteSets, FiniteSetsExt, Sums

CONSTANTS
    Keys,        \* source keys of the account's executed orders
    NoKey,       \* "no source key", for the gate's receipts
    Markets,     \* the markets they were executed on
    MarketOf,    \* [Keys -> Markets]
    Side,        \* [Keys -> {"YES", "NO"}]
    Principal,   \* [Keys -> Nat] what the contract cost
    EntryFee,    \* [Keys -> Nat] what its fills charged
    SeasonOf,    \* [Keys -> Nat] the season file that holds its wager
    Statements,  \* [Markets -> SUBSET Statement] what the exchange may state
    Profiles,    \* [seasons, autoMerge]: the destinations considered
    MaxIds,      \* bound: commit ids alive at once
    MaxGlitches, \* bound: failed calls, lost replies and killed jobs
    Others       \* what other actors do: "merge", "withdraw", "amend"

ASSUME NoKeyIsNoKey == NoKey \notin Keys
ASSUME OrdersAreOrders ==
    /\ IsFiniteSet(Keys) /\ MarketOf \in [Keys -> Markets] /\ Side \in [Keys -> {"YES", "NO"}]
    /\ Principal \in [Keys -> Nat] /\ EntryFee \in [Keys -> Nat] /\ SeasonOf \in [Keys -> Nat]
ASSUME BoundsAreNumbers == MaxIds \in Nat /\ MaxGlitches \in Nat
ASSUME ProfilesAreProfiles == Profiles \subseteq [seasons : BOOLEAN, autoMerge : BOOLEAN]
ASSUME OthersAreKnown == Others \subseteq {"merge", "withdraw", "amend"}

VARIABLES
    profile,    \* the destination: seasons filed apart? held for observation?
    market,     \* what the exchange states about each market
    admitted,   \* the orders the production filter admits
    canonical,  \* the ledger branch: its wagers and its settlements
    proposal,   \* the router's wager proposal: head, rows, pull request
    branch,     \* kalshi-router/settle-<sport>
    pull,       \* the pull request from branch
    glitches, pc, run, outcome

vars == <<profile, market, admitted, canonical, proposal, branch, pull, glitches, pc, run, outcome>>

---------------------------------------------------------------------------
(* The exchange's word and the router's arithmetic.                        *)

Absent == {}
Unsettled == [settled |-> FALSE, price |-> Absent, extra |-> Absent]

\* A figure that was refused, or one.
Stated(values) == {Absent} \cup {{x} : x \in values}

\* price: what a YES contract paid; extra: what the market's fee_cost holds
\* beyond the entry fees of every order executed on it.
Statement == [settled : {TRUE}, price : Stated(0..100), extra : Stated(0..100)]
ASSUME StatementsAreStatements == \A m \in Markets : Statements[m] \subseteq Statement

OrdersOn(m) == {k \in Keys : MarketOf[k] = m}

\* The exchange's fee_cost: the market position's cumulative trading fee.
FeeCost(m) == {x + SumOver(EntryFee, OrdersOn(m)) : x \in market[m].extra}

MarketEntryFees(batch, m) == SumOver(EntryFee, OrdersOn(m) \cap batch)

Stake(k) == Principal[k] + EntryFee[k]

Gross(k) == {IF Side[k] = "YES" THEN p ELSE 100 - p : p \in market[MarketOf[k]].price}

\* The fee the exchange states is the entry fees of this batch's own orders.
FeeReconciled(batch, m) ==
    IF FeeCost(m) = Absent THEN MarketEntryFees(batch, m) = 0
    ELSE FeeCost(m) = {MarketEntryFees(batch, m)}

\* The first contract: the settlement's fee is subtracted on top of a stake
\* that already carries it.
Net_V1(batch, k) ==
    {g - Stake(k) - f : g \in Gross(k), f \in IF FeeCost(MarketOf[k]) = Absent THEN {0} ELSE FeeCost(MarketOf[k])}

\* net = gross - stake, or FEE_NOT_RECONCILED.
Net(batch, k) == IF FeeReconciled(batch, MarketOf[k]) THEN {g - Stake(k) : g \in Gross(k)} ELSE Absent

SettledRow(batch, k) == [key |-> k, gross |-> Gross(k), net |-> Net(batch, k)]

\* Only settled rows cross, whether or not their money is established.
Payload(batch) == {SettledRow(batch, k) : k \in {x \in batch : market[MarketOf[x]] # Unsettled}}

---------------------------------------------------------------------------
(* Ledgers, commits, runs.                                                 *)

WagerRow == [key : Keys, same : BOOLEAN]
KeysOf(rows) == {r.key : r \in rows}

Ledger(wagers, settled) == [wagers |-> wagers, settled |-> settled]
NoLedger == Ledger({}, {})

NoCommit == [id |-> 0, base |-> NoLedger, tree |-> NoLedger]

NoProposal == [id |-> 0, rows |-> {}, pull |-> "none"]

NoRun == [payload |-> {}, clone |-> NoLedger, tip |-> NoLedger, seen |-> [id |-> 0, rows |-> {}],
          waiting |-> {}, receipts |-> [k \in Keys |-> "none"], head |-> NoCommit, failed |-> FALSE]

IsMoney(x) == x \subseteq -1000..1000 /\ Cardinality(x) <= 1
IsLedger(l) ==
    /\ l.wagers \subseteq WagerRow
    /\ \A r \in l.settled : r.key \in Keys /\ IsMoney(r.gross) /\ IsMoney(r.net)
IsCommit(c) == c.id \in 0..MaxIds /\ IsLedger(c.base) /\ IsLedger(c.tree)

TypeOK ==
    /\ profile \in Profiles
    /\ \A m \in Markets : market[m] = Unsettled \/ market[m] \in Statements[m]
    /\ admitted \subseteq Keys
    /\ IsLedger(canonical) /\ IsCommit(branch)
    /\ proposal.id \in 0..MaxIds /\ proposal.rows \subseteq WagerRow
    /\ {proposal.pull, pull} \subseteq {"none", "open"}
    /\ glitches \in 0..MaxGlitches
    /\ pc \in {"idle", "clone", "tip", "proposal", "parents", "push", "pull", "gate", "merge", "reconcile"}
    /\ run.waiting \subseteq Keys /\ IsLedger(run.clone) /\ IsLedger(run.tip) /\ IsCommit(run.head)
    /\ outcome \in {"none", "green", "red"}

Init ==
    /\ profile \in Profiles
    /\ market = [m \in Markets |-> Unsettled]
    /\ admitted = {}
    /\ canonical = NoLedger
    /\ proposal = NoProposal
    /\ branch = NoCommit /\ pull = "none"
    /\ glitches = MaxGlitches
    /\ pc = "idle" /\ run = NoRun /\ outcome = "none"

Glitch == glitches > 0 /\ glitches' = glitches - 1

\* The smallest id nobody holds.
FreshId(held) == {i \in 1..MaxIds : i \notin held /\ \A j \in 1..(i - 1) : j \in held}

EndRun(failed) ==
    /\ outcome' = IF failed THEN "red" ELSE "green"
    /\ run' = NoRun /\ pc' = "idle"

unchangedRun == UNCHANGED <<glitches, pc, run, outcome>>
unchangedExchange == UNCHANGED <<profile, market, admitted>>
unchangedWorld == unchangedExchange /\ UNCHANGED <<canonical, proposal, branch, pull>>

---------------------------------------------------------------------------
(* The account, the exchange and the wager delivery.                       *)

AdmitOrder(k) ==
    /\ k \notin admitted
    /\ admitted' = admitted \cup {k}
    /\ UNCHANGED <<profile, market, canonical, proposal, branch, pull>> /\ unchangedRun

SettleMarket(m) ==
    /\ market[m] = Unsettled
    /\ \E s \in Statements[m] : market' = [market EXCEPT ![m] = s]
    /\ UNCHANGED <<profile, admitted, canonical, proposal, branch, pull>> /\ unchangedRun

\* A wager run rebuilds its proposal on the ledger with one more order.
ProposeWager(k) ==
    /\ k \in admitted \ KeysOf(canonical.wagers \cup proposal.rows)
    /\ \E id \in FreshId({proposal.id, run.seen.id}) :
          proposal' = [id |-> id,
                       rows |-> {r \in proposal.rows : r.key \notin KeysOf(canonical.wagers)}
                                    \cup {[key |-> k, same |-> TRUE]},
                       pull |-> "open"]
    /\ unchangedExchange /\ UNCHANGED <<canonical, branch, pull>> /\ unchangedRun

\* The wager gate, or a person, merges it.  The branch stays, but without a
\* pull request it reads as no branch at all.
MergeProposal ==
    /\ proposal.pull = "open" /\ \A r, s \in proposal.rows : r.key = s.key => r = s
    /\ canonical' = [canonical EXCEPT !.wagers =
                        @ \cup {r \in proposal.rows : r.key \notin KeysOf(canonical.wagers)}]
    /\ proposal' = NoProposal
    /\ unchangedExchange /\ UNCHANGED <<branch, pull>> /\ unchangedRun

\* A person closes it or marks it a draft: no proposal a settlement may wait
\* for, until a wager run or a person opens it again.
PersonWithdrawsProposal ==
    /\ "withdraw" \in Others /\ proposal.pull # "none"
    /\ proposal' = NoProposal
    /\ unchangedExchange /\ UNCHANGED <<canonical, branch, pull>> /\ unchangedRun

\* A person puts a row of their own under a proposed order's key.
PersonAmendsProposal(k) ==
    /\ "amend" \in Others /\ proposal.pull # "none" /\ [key |-> k, same |-> TRUE] \in proposal.rows
    /\ \E id \in FreshId({proposal.id, run.seen.id}), keep \in SUBSET {[key |-> k, same |-> TRUE]} :
          proposal' = [proposal EXCEPT !.id = id,
                          !.rows = (@ \ {[key |-> k, same |-> TRUE]}) \cup keep \cup {[key |-> k, same |-> FALSE]}]
    /\ unchangedExchange /\ UNCHANGED <<canonical, branch, pull>> /\ unchangedRun

---------------------------------------------------------------------------
(* A run reads: payload, clone, ledger branch, proposal, pull request.     *)

\* Every run rebuilds the payload from the exchange; nothing settled, no run.
StartRun ==
    /\ pc = "idle" /\ Payload(admitted) # {}
    /\ run' = [NoRun EXCEPT !.payload = Payload(admitted)]
    /\ pc' = "clone" /\ UNCHANGED <<glitches, outcome>> /\ unchangedWorld

Clone ==
    /\ pc = "clone"
    /\ run' = [run EXCEPT !.clone = canonical]
    /\ pc' = "tip" /\ UNCHANGED <<glitches, outcome>> /\ unchangedWorld

\* The clone is single-branch, so the ledger branch is fetched once more; the
\* commit will sit on what this fetch found, the import runs on the clone.
FetchTip ==
    /\ pc = "tip"
    /\ run' = [run EXCEPT !.tip = canonical]
    /\ pc' = "proposal" /\ UNCHANGED <<glitches, outcome>> /\ unchangedWorld

ReadProposal(found) ==
    /\ pc = "proposal"
    /\ run' = [run EXCEPT !.seen = found]
    /\ pc' = "parents" /\ UNCHANGED outcome /\ unchangedWorld

FetchProposal == ReadProposal([id |-> proposal.id, rows |-> proposal.rows]) /\ UNCHANGED glitches

FetchProposalFails == Glitch /\ ReadProposal(NoRun.seen)

---------------------------------------------------------------------------
(* settlement_parents.py: what is withheld from the importer this run.     *)

\* A check that the pull request is open, but not that it is at the commit
\* whose rows were read.
ProposalIsValid_AnyHead(seen, known) == seen.id # 0 /\ known /\ proposal.pull = "open"

ProposalIsValid(seen, known) ==
    seen.id # 0 /\ known /\ proposal.pull = "open" /\ proposal.id = seen.id

\* WAITING_FOR_PARENT_WAGER: on no ledger, and once, with the settlement's
\* own market and side, on a valid proposal.
Waits(k, known) ==
    /\ k \notin KeysOf(run.tip.wagers)
    /\ ProposalIsValid(run.seen, known)
    /\ {r \in run.seen.rows : r.key = k} = {[key |-> k, same |-> TRUE]}

---------------------------------------------------------------------------
(* settlement_season.py and the importer, on the clone.                    *)

MatchedSeasons(rows) == {SeasonOf[k] : k \in KeysOf(rows) \cap KeysOf(run.clone.wagers)}

\* The batch names its season file: the wagers it matches are all in one.
SeasonKnown(rows) == Cardinality(MatchedSeasons(rows)) = 1

\* An importer that looks its wager up by key and asks nothing more.
Settles_AnySide(wagers, k) == k \in KeysOf(wagers)

\* The wager on the ledger that a settlement of k may be filed against.
Settles(wagers, k) == [key |-> k, same |-> TRUE] \in wagers

\* An importer that files a changed settlement of an order beside the first.
OnFile_ByContent(row) == {r \in run.clone.settled : r = row}

OnFile(row) == {r \in run.clone.settled : r.key = row.key}

ReceiptFor(row) ==
    CASE ~Settles(run.clone.wagers, row.key) -> "REFUSED"
      [] Settles(run.clone.wagers, row.key) /\ OnFile(row) = {} -> "NEW"
      [] OTHER -> IF OnFile(row) = {row} THEN "DUPLICATE_NOOP" ELSE "CONFLICT"

Receipts(rows) ==
    [k \in Keys |-> IF \E row \in rows : row.key = k
                    THEN ReceiptFor(CHOOSE row \in rows : row.key = k) ELSE "none"]

ACCEPTED == {"NEW", "DUPLICATE_NOOP"}

\* A step that does not look at the importer's exit status.
RefusedSome_Ignored(receipts) == FALSE

\* The importer exits non-zero: counted, and what it did write goes on.
RefusedSome(receipts) == \E k \in Keys : receipts[k] \in {"REFUSED", "CONFLICT"}

\* The destination's validator looks for keys used twice and for settlements
\* whose key names no wager; it does not compare market and side.
Sound(tree) ==
    /\ \A r, s \in tree.settled : r.key = s.key => r = s
    /\ KeysOf(tree.settled) \subseteq KeysOf(tree.wagers)

\* The import, the validator and the commit.  A second import that moves the
\* tree, or a file outside the committable prefixes, ends the run red before
\* anything is pushed, as RunDies does; dry runs, which push nothing, are left out.
Import(ready) ==
    LET receipts == Receipts(ready)
        new  == {row \in ready : receipts[row.key] = "NEW"}
        tree == Ledger(run.clone.wagers, run.clone.settled \cup new)
        next(phase, head, failed) ==
            /\ run' = [run EXCEPT !.receipts = receipts, !.head = head, !.failed = failed,
                                  !.clone = NoLedger, !.tip = NoLedger, !.seen = NoRun.seen,
                                  !.waiting = KeysOf(run.payload \ ready)]
            /\ pc' = phase /\ UNCHANGED outcome
    IN  IF new = {} THEN next("reconcile", NoCommit, RefusedSome(receipts))
        ELSE IF tree = run.tip THEN EndRun(TRUE)          \* git commit: nothing to commit
        ELSE next("push", [id |-> 0, base |-> run.tip, tree |-> tree],
                  RefusedSome(receipts) \/ ~Sound(tree))

\* Withhold what waits; with every row waiting nothing is imported, and in a
\* destination filed by season a batch that does not match exactly one season
\* ends there.
CheckParents(known) ==
    LET ready == {row \in run.payload : ~Waits(row.key, known)}
    IN  /\ pc = "parents"
        /\ IF profile.seasons /\ ready # {} /\ ~SeasonKnown(ready)
           THEN EndRun(TRUE) ELSE Import(ready)
        /\ unchangedWorld

ReadPull == CheckParents(TRUE) /\ UNCHANGED glitches
ReadPullFails == Glitch /\ CheckParents(FALSE)

---------------------------------------------------------------------------
(* Push, pull request, gate, merge call.                                   *)

\* One commit on the ledger branch, always a new one, over whatever the
\* branch held: the lease is read just before the push.
Push ==
    /\ pc = "push"
    /\ \E id \in FreshId({branch.id}) :
          /\ branch' = [run.head EXCEPT !.id = id]
          /\ run' = [run EXCEPT !.head.id = id]
    /\ pc' = "pull" /\ unchangedExchange /\ UNCHANGED <<canonical, proposal, pull, glitches, outcome>>

OpenPull ==
    /\ pc = "pull"
    /\ pull' = "open"
    /\ pc' = "gate" /\ unchangedExchange /\ UNCHANGED <<canonical, proposal, branch, glitches, run, outcome>>

\* A diff taken against the clone the import ran on, not the commit's parent.
Removes_FromClone(commit) == FALSE

Removes(commit) == ~(commit.base.wagers \subseteq commit.tree.wagers /\ commit.base.settled \subseteq commit.tree.settled)

Added(commit) == commit.tree.settled \ commit.base.settled

\* Rows appended on both sides of one file do not merge, unless they agree.
Conflict(commit) ==
    LET clash(now, base, side) == now # base /\ side # base /\ now # side
    IN  \/ clash(canonical.settled, commit.base.settled, commit.tree.settled)
        \/ clash(canonical.wagers, commit.base.wagers, commit.tree.wagers)

Merged(commit) ==
    Ledger((canonical.wagers \ (commit.base.wagers \ commit.tree.wagers))
                \cup (commit.tree.wagers \ commit.base.wagers),
           (canonical.settled \ (commit.base.settled \ commit.tree.settled)) \cup Added(commit))

Gate == INSTANCE MergeGate WITH Rows <- Keys, SourceKeys <- Keys, NoKey <- NoKey

GateReceipt(k, verdict) ==
    [key |-> k, identity |-> IF verdict = "REFUSED" THEN "none" ELSE "id", verdict |-> verdict,
     success |-> verdict \in ACCEPTED, conflicting |-> verdict = "CONFLICT"]

\* A gate told the head of the clone instead of the head it pushed.
VerifiedHead_OfClone(r) == 0

VerifiedHead(r) == r.head.id

FactsOf(r, known) ==
    LET offered == {k \in Keys : r.receipts[k] # "none"}
        found == pull # "none"
        told  == found /\ known
    IN  [numbered |-> found, state |-> IF found THEN "open" ELSE "unknown", draft |-> FALSE, ours |-> found,
         head |-> IF ~found THEN "unknown" ELSE IF branch.id = VerifiedHead(r) THEN "verified" ELSE "other",
         receipts |-> [k \in offered |-> GateReceipt(k, r.receipts[k])],
         partial |-> RefusedSome(r.receipts),
         rerun |-> [k \in offered |-> GateReceipt(k, IF r.receipts[k] \in ACCEPTED THEN "DUPLICATE_NOOP" ELSE r.receipts[k])],
         rerunTree |-> "same",
         files |-> {"ledger"}, removes |-> Removes(r.head),
         added |-> {[key |-> k, named |-> TRUE, batch |-> "absent"] : k \in KeysOf(Added(r.head))},
         kind |-> "settlements", runsCI |-> FALSE,
         validator |-> IF Sound(r.head.tree) THEN "accepted" ELSE "refused", checks |-> {},
         mergeable |-> IF ~told THEN "unknown" ELSE IF Conflict(branch) THEN "no" ELSE "yes",
         mergeState |-> IF ~told THEN "unknown" ELSE IF Conflict(branch) THEN "dirty" ELSE "clean"]

Evaluate(known) ==
    LET verdict == Gate!Evaluate(FactsOf(run, known))
    IN  /\ pc = "gate"
        /\ run' = [run EXCEPT !.failed = @ \/ verdict = "REFUSE", !.head.base = NoLedger,
                              !.head.tree = NoLedger]
        /\ pc' = IF verdict = "MERGE" /\ profile.autoMerge THEN "merge" ELSE "reconcile"
        /\ UNCHANGED outcome /\ unchangedWorld

EvaluateGate == Evaluate(TRUE) /\ UNCHANGED glitches
EvaluateUnknown == Glitch /\ Evaluate(FALSE)

MergeInto(commit) ==
    /\ canonical' = Merged(commit) /\ pull' = "none" /\ branch' = NoCommit
    /\ unchangedExchange /\ UNCHANGED proposal

MergeLands ==
    /\ pc = "merge" /\ pull = "open" /\ ~Conflict(branch)
    /\ MergeInto(branch)
    /\ \/ UNCHANGED <<glitches, run>>
       \/ Glitch /\ run' = [run EXCEPT !.failed = TRUE]
    /\ pc' = "reconcile" /\ UNCHANGED outcome

MergeRefused ==
    /\ pc = "merge" /\ (pull # "open" \/ Conflict(branch))
    /\ run' = [run EXCEPT !.failed = TRUE]
    /\ pc' = "reconcile" /\ UNCHANGED <<glitches, outcome>> /\ unchangedWorld

\* A person merges what reads as a plain batch of settlements: every one they
\* have not merged waits for them where the destination is held.
PersonMerges ==
    /\ "merge" \in Others /\ pull = "open" /\ ~Conflict(branch)
    /\ branch.base.wagers \subseteq branch.tree.wagers /\ branch.base.settled \subseteq branch.tree.settled
    /\ KeysOf(branch.tree.settled) \subseteq KeysOf(branch.tree.wagers)
    /\ MergeInto(branch) /\ unchangedRun

---------------------------------------------------------------------------
(* reconcile_delivery.py --kind settlements.                               *)

Waiting(r, k) == r.receipts[k] = "none" /\ k \in r.waiting

Unaccounted(r) ==
    {k \in KeysOf(r.payload) :
        r.receipts[k] = "none" /\ k \notin KeysOf(canonical.settled) /\ ~Waiting(r, k)}

Reconcile ==
    /\ pc = "reconcile"
    /\ EndRun(run.failed \/ Unaccounted(run) # {})
    /\ UNCHANGED glitches /\ unchangedWorld

RunDies ==
    /\ pc # "idle" /\ Glitch
    /\ EndRun(TRUE) /\ unchangedWorld

RunStep ==
    \/ StartRun \/ Clone \/ FetchTip \/ FetchProposal \/ ReadPull \/ Push \/ OpenPull
    \/ EvaluateGate \/ MergeLands \/ MergeRefused \/ Reconcile

Trouble == FetchProposalFails \/ ReadPullFails \/ EvaluateUnknown \/ RunDies

World ==
    \/ MergeProposal \/ PersonWithdrawsProposal \/ PersonMerges
    \/ \E m \in Markets : SettleMarket(m)
    \/ \E k \in Keys : AdmitOrder(k) \/ ProposeWager(k) \/ PersonAmendsProposal(k)

Next == RunStep \/ Trouble \/ World

Spec == Init /\ [][Next]_vars

\* The schedule, every four hours, keeps starting runs and each goes on to its end.
FairSpec == Spec /\ WF_vars(RunStep)

---------------------------------------------------------------------------
(* Safety.                                                                 *)

\* A settlement is on the ledger once, beside the wager it settles, at that
\* wager's own market and side: whatever was withheld, misfiled, amended,
\* merged early or late, no payout counts without its bet
\* (routed_ledger.import_settlements; the validator would not see a wrong side).
NoOrphan ==
    \A row \in canonical.settled :
        /\ [key |-> row.key, same |-> TRUE] \in canonical.wagers
        /\ \A other \in canonical.settled : other.key = row.key => other = row

\* No settlement run, which imports on one read of the ledger branch and
\* commits on a later one, takes away a wager or a settlement that landed in
\* between (the gate's append-only condition).
LedgerOnlyGrows ==
    [][/\ canonical.wagers \subseteq canonical'.wagers
       /\ canonical.settled \subseteq canonical'.settled]_vars

\* Once every order executed on a market has an established settlement, the
\* profits on the ledger add up to the account's cash: what the market paid,
\* less what the contracts cost, less the fee the exchange states, once, or
\* no fee where it states none (settlement.py: v1 charged that fee twice).
ProfitIsCash ==
    \A m \in Markets :
        LET rows == {r \in canonical.settled : MarketOf[r.key] = m /\ r.net # Absent}
            paid == [k \in OrdersOn(m) |-> Min(Gross(k))]
            net == [k \in OrdersOn(m) |-> Min(UNION {r.net : r \in {x \in rows : x.key = k}})]
            fee == SumOver(paid, OrdersOn(m)) - SumOver(Principal, OrdersOn(m)) - SumOver(net, OrdersOn(m))
        IN  rows # {} /\ KeysOf(rows) = OrdersOn(m) =>
               FeeCost(m) = {fee} \/ (FeeCost(m) = Absent /\ fee = 0)

\* A settlement is withheld only while its wager really is on the router's
\* open proposal, as that proposal now is: a head rebuilt or amended between
\* the two reads quiets nothing (settlement_parents.py, "fail closed").
WithheldWaitsForItsWager ==
    [][(pc = "parents" /\ pc' # pc) =>
         \A k \in run'.waiting :
            proposal.pull = "open" /\ [key |-> k, same |-> TRUE] \in proposal.rows]_vars

\* A run that ends green leaves every settled order of its payload filed as
\* the payload states it, proposed, or withheld for its wager; a refusal, a
\* conflict with what is on file or a batch nobody filed ends red.
GreenMeansSettled ==
    [][(pc = "reconcile" /\ pc' = "idle" /\ outcome' = "green") =>
         \A row \in run.payload :
            \/ row \in canonical.settled
            \/ row \in branch.tree.settled /\ pull # "none"
            \/ row.key \in run.waiting]_vars

---------------------------------------------------------------------------
(* Liveness.                                                               *)

\* A settled order whose wager is canonical does not wait in silence: it is
\* filed, or on a pull request where the destination is held for a person,
\* or some run has said no in red.
SettledIsFiledOrReported ==
    \A k \in Keys :
        (/\ k \in admitted /\ market[MarketOf[k]] # Unsettled
         /\ [key |-> k, same |-> TRUE] \in canonical.wagers)
            ~> \/ k \in KeysOf(canonical.settled)
               \/ ~profile.autoMerge /\ pull # "none" /\ k \in KeysOf(branch.tree.settled)
               \/ outcome = "red"
=============================================================================
