----------------------------- MODULE MergeGate -----------------------------
(***************************************************************************)
(* The deterministic gate that decides whether a router pull request may   *)
(* be merged without a person: kalshi_router.automerge.evaluate, a pure    *)
(* function of the facts that scripts/merge_delivery_pr.py gathers.        *)
(*                                                                         *)
(* Names, paths and row texts are abstracted to what the twelve conditions *)
(* tell apart.  A receipt list is a function from the row's position to    *)
(* the receipt, so two lists have the same length iff they have the same   *)
(* domain.                                                                 *)
(***************************************************************************)
EXTENDS FiniteSets

CONSTANTS
    Rows,       \* row positions of a payload
    SourceKeys, \* the router's own identity of a wager
    NoKey       \* a receipt or a row that carries no source key

ASSUME NoKeyAssumption == NoKey \notin SourceKeys

---------------------------------------------------------------------------
(* Receipts, in the one shape kalshi_router.receipts.normalise gives.      *)

Verdicts == {"NEW", "DUPLICATE_NOOP", "CORRECTED", "CONFLICT", "REFUSED"}
NO_JUDGEMENT_VERDICTS == {"NEW", "DUPLICATE_NOOP", "CORRECTED"}
IDEMPOTENT_RERUN_VERDICTS == {"DUPLICATE_NOOP"}

\* identity: which canonical id the destination minted ("none" when it did
\* not name the row); conflicting: the receipt lists conflicting fields.
Receipt == [key : SourceKeys \cup {NoKey}, identity : {"none", "id", "otherId"},
            verdict : Verdicts, success : BOOLEAN, conflicting : BOOLEAN]

NeedsJudgement(r) == r.verdict \notin NO_JUDGEMENT_VERDICTS

Range(f) == {f[x] : x \in DOMAIN f}

---------------------------------------------------------------------------
(* What the pull request adds: one record per added ledger row.            *)

AddedRow == [key : SourceKeys \cup {NoKey}, named : BOOLEAN,
             batch : {"router", "absent", "foreign"}]

MergeStates == {"unknown", "behind", "dirty", "unstable", "blocked", "clean"}
TRANSIENT_MERGE_STATES == {"unknown", "behind", "dirty"}
CHECK_DERIVED_MERGE_STATES == {"unstable"}

Receipts == UNION {[positions -> Receipt] : positions \in SUBSET Rows}

\* The facts merge_delivery_pr.py hands the gate.
MergeFacts ==
    [numbered : BOOLEAN, state : {"unknown", "open", "closed"}, draft : BOOLEAN, ours : BOOLEAN,
     head : {"unknown", "verified", "other"},
     receipts : Receipts, partial : BOOLEAN,
     rerun : Receipts, rerunTree : {"unknown", "same", "changed"},
     files : SUBSET {"ledger", "other"}, removes : BOOLEAN, added : SUBSET AddedRow,
     kind : {"wagers", "settlements"}, runsCI : BOOLEAN,
     validator : {"unknown", "accepted", "refused"},
     checks : SUBSET {"pending", "passing", "failing"},
     mergeable : {"unknown", "yes", "no"}, mergeState : MergeStates]

---------------------------------------------------------------------------
(* The conditions.  Each one is "pass", "wait" or "refuse"; none of them   *)
(* reads the answer of another.                                            *)

Decide3(refuse, wait) == IF refuse THEN "refuse" ELSE IF wait THEN "wait" ELSE "pass"

PullRequestExists(f) == Decide3(FALSE, ~f.numbered)

\* A draft refuses only while the pull request is open: a closed one waits.
OpenAndNotADraft(f) == Decide3(f.state = "open" /\ f.draft, f.state # "open")

OriginatedFromTheRouter(f) == Decide3(~f.ours, FALSE)

HeadIsTheVerifiedCommit(f) == Decide3(FALSE, f.head # "verified")

NoReceipts(f) == DOMAIN f.receipts = {}

ImporterRefusedNothing(f) ==
    Decide3(/\ ~NoReceipts(f)
            /\ f.partial \/ \E r \in Range(f.receipts) : ~r.success,
            NoReceipts(f))

NeededNoJudgement(f) ==
    Decide3(\E r \in Range(f.receipts) :
                NeedsJudgement(r) \/ r.conflicting \/ r.identity = "none",
            NoReceipts(f))

\* The identities the FIRST import gave a key; of a key it did not name the
\* lookup answers None, which a second receipt without an identity equals.
\* Receipts that share a key leave the choice open (the code keeps the last).
FirstIdentities(f, key) ==
    LET named == {x \in DOMAIN f.receipts : f.receipts[x].key = key}
    IN  IF named = {} THEN {"none"} ELSE {f.receipts[x].identity : x \in named}

Idempotent(f) ==
    LET unproved == f.rerunTree = "unknown" \/ DOMAIN f.rerun = {}
    IN  Decide3(/\ ~unproved
                /\ \/ f.rerunTree = "changed"
                   \/ \E r \in Range(f.rerun) : r.verdict \notin IDEMPOTENT_RERUN_VERDICTS
                   \/ DOMAIN f.rerun # DOMAIN f.receipts
                   \/ \E r \in Range(f.rerun) : r.identity \notin FirstIdentities(f, r.key),
                unproved)

OnlyCanonicalFilesChanged(f) == Decide3("other" \in f.files, f.files = {})

\* A gate that lets a batch rewrite rows as long as it also adds some.
AppendOnly_AddsSomething(f) == Decide3(f.removes /\ f.added = {}, FALSE)

AppendOnly(f) == Decide3(f.removes, FALSE)

ReceiptKeys(f) == {r.key : r \in Range(f.receipts)} \ {NoKey}

\* A gate that skips the receipt match for settlements as it does for wagers.
AddedRowsAreOurs_OptionalReceipts(f) ==
    Decide3(\E row \in f.added :
                \/ IF f.kind = "settlements" THEN row.batch = "foreign"
                                             ELSE row.batch # "router"
                \/ ~row.named \/ row.key = NoKey
                \/ ReceiptKeys(f) # {} /\ row.key \notin ReceiptKeys(f),
            f.added = {})

\* A settlement need not carry a batch id, so its receipt is the answer to
\* "is this ours" and a missing one refuses.  A wager is matched against the
\* receipts only when they name keys at all.
AddedRowsAreOurs(f) ==
    Decide3(/\ f.added # {}
            /\ \/ \E row \in f.added :
                    \/ IF f.kind = "settlements" THEN row.batch = "foreign"
                                                 ELSE row.batch # "router"
                    \/ ~row.named \/ row.key = NoKey
                    \/ ReceiptKeys(f) # {} /\ row.key \notin ReceiptKeys(f)
               \/ f.kind = "settlements" /\ ReceiptKeys(f) = {},
            f.added = {})

\* A gate for which a suite that never reported has nothing against it.
ChecksAreGreen_SilenceIsGreen(f) ==
    IF f.runsCI
    THEN Decide3("failing" \in f.checks, "pending" \in f.checks)
    ELSE Decide3(f.validator = "refused", f.validator = "unknown")

\* The destination's own verdict: pull-request checks, or, on a ledger branch
\* without CI, its validator.  A failure outranks a check still running.
ChecksAreGreen(f) ==
    IF f.runsCI
    THEN Decide3("failing" \in f.checks, f.checks = {} \/ "pending" \in f.checks)
    ELSE Decide3(f.validator = "refused", f.validator = "unknown")

\* The gate of 2026-09-19: `unstable` is "something else withholds the merge".
CleanlyMergeable_UnstableRefuses(f) ==
    LET transient == \/ f.mergeable # "yes"
                     \/ f.mergeState \in TRANSIENT_MERGE_STATES
    IN  Decide3(~transient /\ f.mergeState # "clean", transient)

\* `unstable` restates the check rollup, so the checks decide it: all of them
\* green and still not clean means something the gate cannot see.
CleanlyMergeable(f) ==
    LET transient == \/ f.mergeable # "yes"
                     \/ f.mergeState \in TRANSIENT_MERGE_STATES
        derived   == f.mergeState \in CHECK_DERIVED_MERGE_STATES
        running   == "failing" \notin f.checks /\ ("pending" \in f.checks \/ f.checks = {})
    IN  Decide3(~transient /\ f.mergeState # "clean" /\ ~(derived /\ running),
                transient \/ (derived /\ running))

---------------------------------------------------------------------------

Answers(f) ==
    {PullRequestExists(f), OpenAndNotADraft(f), OriginatedFromTheRouter(f),
     HeadIsTheVerifiedCommit(f), ImporterRefusedNothing(f), NeededNoJudgement(f),
     Idempotent(f), OnlyCanonicalFilesChanged(f), AppendOnly(f),
     AddedRowsAreOurs(f), ChecksAreGreen(f), CleanlyMergeable(f)}

\* A gate that waits for what is pending before it reports what failed.
Evaluate_WaitFirst(f) ==
    IF "wait" \in Answers(f) THEN "WAIT"
    ELSE IF "refuse" \in Answers(f) THEN "REFUSE" ELSE "MERGE"

\* A failed condition outranks a pending one; MERGE needs all twelve.
Evaluate(f) ==
    IF "refuse" \in Answers(f) THEN "REFUSE"
    ELSE IF "wait" \in Answers(f) THEN "WAIT" ELSE "MERGE"

---------------------------------------------------------------------------
(* What the gate promises, stated without its conditions.                  *)

\* A MERGE is witnessed from outside the gate: a verified, open router
\* proposal that only adds rows; each added row names its order and comes
\* from the router, a settlement by a receipt of this run; each order was
\* accepted and came back from the second import with nothing written and
\* under no other identity; the destination said yes.
Witnessed(f) ==
    /\ f.state = "open" /\ ~f.draft /\ f.ours /\ f.head = "verified"
    /\ f.files = {"ledger"} /\ ~f.removes /\ f.added # {}
    /\ \A row \in f.added :
          /\ row.named /\ row.key \in SourceKeys /\ row.batch # "foreign"
          /\ row.batch = "router" \/ \E x \in DOMAIN f.receipts : f.receipts[x].key = row.key
    /\ DOMAIN f.receipts # {} /\ ~f.partial /\ f.rerunTree = "same"
    /\ \A x \in DOMAIN f.receipts :
          /\ f.receipts[x].success /\ f.receipts[x].verdict \in NO_JUDGEMENT_VERDICTS
          /\ x \in DOMAIN f.rerun /\ f.rerun[x].verdict = "DUPLICATE_NOOP"
          /\ f.rerun[x].identity \in FirstIdentities(f, f.rerun[x].key)
    /\ IF f.runsCI THEN f.checks = {"passing"} ELSE f.validator = "accepted"
    /\ f.mergeable = "yes" /\ f.mergeState = "clean"
=============================================================================
