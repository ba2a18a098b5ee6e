----------------------------- MODULE MCMergeGate -----------------------------
(***************************************************************************)
(* The gate over every set of facts at most MaxDeviations changes away     *)
(* from a delivery in perfect order, of each kind and each transport of    *)
(* the destination's verdict.  A change is one fact gone wrong, or one     *)
(* piece of evidence not there (Forget).                                   *)
(***************************************************************************)
EXTENDS MergeGate, Naturals

CONSTANTS p1, p2, a, b, MaxDeviations

VARIABLES
    facts,  \* what merge_delivery_pr.py hands the gate
    left    \* changes still to come

vars == <<facts, left>>

KeyAt == [p \in Rows |-> IF p = p1 THEN a ELSE b]

GoodReceipts(verdict) ==
    [p \in Rows |-> [key |-> KeyAt[p], identity |-> "id", verdict |-> verdict,
                     success |-> TRUE, conflicting |-> FALSE]]

InOrder(kind, runsCI) ==
    [numbered |-> TRUE, state |-> "open", draft |-> FALSE, ours |-> TRUE, head |-> "verified",
     receipts |-> GoodReceipts("NEW"), partial |-> FALSE,
     rerun |-> GoodReceipts("DUPLICATE_NOOP"), rerunTree |-> "same",
     files |-> {"ledger"}, removes |-> FALSE,
     added |-> {[key |-> k, named |-> TRUE,
                 batch |-> IF kind = "wagers" THEN "router" ELSE "absent"] : k \in {a, b}},
     kind |-> kind, runsCI |-> runsCI,
     validator |-> IF runsCI THEN "unknown" ELSE "accepted",
     checks |-> IF runsCI THEN {"passing"} ELSE {},
     mergeable |-> "yes", mergeState |-> "clean"]

Init ==
    /\ \E kind \in {"wagers", "settlements"}, runsCI \in BOOLEAN : facts = InOrder(kind, runsCI)
    /\ left = MaxDeviations

\* An importer whose receipts do not echo the router's source key.
Keyless(receipts) == [p \in DOMAIN receipts |-> [receipts[p] EXCEPT !.key = NoKey]]

Deviate(new) == left > 0 /\ left' = left - 1 /\ facts' = new

PullRequestDiffers ==
    \/ \E s \in {"unknown", "closed"} : Deviate([facts EXCEPT !.state = s])
    \/ Deviate([facts EXCEPT !.draft = TRUE])
    \/ Deviate([facts EXCEPT !.ours = FALSE])
    \/ Deviate([facts EXCEPT !.head = "other"])

ReceiptDiffers ==
    \E p \in DOMAIN facts.receipts :
        \/ \E k \in SourceKeys \cup {NoKey} : Deviate([facts EXCEPT !.receipts[p].key = k])
        \/ \E i \in {"none", "otherId"} : Deviate([facts EXCEPT !.receipts[p].identity = i])
        \/ \E v \in Verdicts : Deviate([facts EXCEPT !.receipts[p].verdict = v])
        \/ Deviate([facts EXCEPT !.receipts[p].success = FALSE])
        \/ Deviate([facts EXCEPT !.receipts[p].conflicting = TRUE])
        \/ Deviate([facts EXCEPT !.partial = TRUE])
        \/ Deviate([facts EXCEPT !.receipts = Keyless(@), !.rerun = Keyless(@)])

RerunDiffers ==
    \/ Deviate([facts EXCEPT !.rerunTree = "changed"])
    \/ \E p \in DOMAIN facts.rerun :
        \/ \E k \in SourceKeys \cup {NoKey} : Deviate([facts EXCEPT !.rerun[p].key = k])
        \/ \E i \in {"none", "otherId"} : Deviate([facts EXCEPT !.rerun[p].identity = i])
        \/ \E v \in Verdicts : Deviate([facts EXCEPT !.rerun[p].verdict = v])
        \/ Deviate([facts EXCEPT !.rerun = [q \in DOMAIN @ \ {p} |-> @[q]]])

DiffDiffers ==
    \/ \E row \in AddedRow : Deviate([facts EXCEPT !.added = @ \cup {row}])
    \/ \E row \in facts.added : Deviate([facts EXCEPT !.added = @ \ {row}])
    \/ Deviate([facts EXCEPT !.removes = TRUE])
    \/ Deviate([facts EXCEPT !.files = @ \cup {"other"}])

VerdictDiffers ==
    \/ facts.runsCI /\ \E c \in SUBSET {"pending", "passing", "failing"} :
            Deviate([facts EXCEPT !.checks = c])
    \/ ~facts.runsCI /\ Deviate([facts EXCEPT !.validator = "refused"])
    \/ Deviate([facts EXCEPT !.mergeable = "no"])
    \/ \E s \in MergeStates : Deviate([facts EXCEPT !.mergeState = s])

Forget ==
    \/ Deviate([facts EXCEPT !.numbered = FALSE])
    \/ Deviate([facts EXCEPT !.state = "unknown"])
    \/ Deviate([facts EXCEPT !.head = "unknown"])
    \/ Deviate([facts EXCEPT !.receipts = [p \in {} |-> @[p]]])
    \/ Deviate([facts EXCEPT !.rerun = [p \in {} |-> @[p]]])
    \/ Deviate([facts EXCEPT !.rerunTree = "unknown"])
    \/ Deviate([facts EXCEPT !.files = {}])
    \/ Deviate([facts EXCEPT !.added = {}])
    \/ facts.runsCI /\ Deviate([facts EXCEPT !.checks = {}])
    \/ ~facts.runsCI /\ Deviate([facts EXCEPT !.validator = "unknown"])
    \/ Deviate([facts EXCEPT !.mergeable = "unknown"])
    \/ Deviate([facts EXCEPT !.mergeState = "unknown"])

Next ==
    \/ PullRequestDiffers \/ ReceiptDiffers \/ RerunDiffers \/ DiffDiffers \/ VerdictDiffers
    \/ Forget

Spec == Init /\ [][Next]_vars

\* A MERGE of automerge.evaluate is always witnessed by the facts.
MergeIsWitnessed == Evaluate(facts) = "MERGE" => Witnessed(facts)

\* Facts, as the name says, not absences, merge: whatever else is true, a
\* piece of evidence that is not there keeps the gate from MERGE.
AbsentEvidenceNeverMerges == [][Forget => Evaluate(facts)' # "MERGE"]_vars

\* One fact, one reading (the incident of 2026-09-19): while no check has
\* failed and some are still running, `unstable`, which restates the checks,
\* never refuses a delivery that is otherwise in order.
RunningChecksOnlyWait ==
    (/\ facts.runsCI /\ "failing" \notin facts.checks
     /\ facts.checks = {} \/ "pending" \in facts.checks
     /\ Evaluate([facts EXCEPT !.checks = {"passing"}, !.mergeState = "clean"]) = "MERGE"
     /\ facts.mergeState \in {"clean", "unstable", "behind", "dirty", "unknown"})
        => Evaluate(facts) = "WAIT"

\* A refusal is reported even while something else is pending: facts that
\* would be refused in a finished pull request are refused in a running one,
\* so a broken batch goes red at once and not when its suite is done.
RefusalIsNotDelayed ==
    Evaluate([facts EXCEPT !.checks = IF facts.runsCI THEN {"passing"} ELSE {},
                           !.mergeable = "yes", !.mergeState = "clean"]) = "REFUSE"
        => Evaluate(facts) = "REFUSE"
=============================================================================
