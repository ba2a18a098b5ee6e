-------------------------- MODULE MergeGate_proofs --------------------------
(***************************************************************************)
(* What MCMergeGate's runs check near a delivery in perfect order, proved  *)
(* of every set of facts, any number of rows and keys: the variable facts  *)
(* is only assumed to be a member of MergeFacts.                           *)
(***************************************************************************)
EXTENDS MCMergeGate, TLAPS

\* MERGE needs every condition to pass.
LEMMA MergeNeedsAll ==
    ASSUME NEW f, Evaluate(f) = "MERGE"
    PROVE  Answers(f) \subseteq {"pass"}
  <1>1. "refuse" \notin Answers(f) /\ "wait" \notin Answers(f)
    BY DEF Evaluate
  <1>2. Answers(f) \subseteq {"pass", "wait", "refuse"}
    BY DEF Answers, Decide3, PullRequestExists, OpenAndNotADraft, OriginatedFromTheRouter,
       HeadIsTheVerifiedCommit, ImporterRefusedNothing, NeededNoJudgement, Idempotent,
       OnlyCanonicalFilesChanged, AppendOnly, AddedRowsAreOurs, ChecksAreGreen, CleanlyMergeable
  <1> QED
    BY <1>1, <1>2

\* A MERGE of automerge.evaluate is witnessed, whatever the facts: a verified
\* open router proposal that only adds rows, every row the router's, every
\* order imported without a judgement and again without effect, and a yes of
\* the destination.
THEOREM GateMergeIsWitnessed ==
    ASSUME facts \in MergeFacts
    PROVE  MergeIsWitnessed
  <1> SUFFICES ASSUME Evaluate(facts) = "MERGE"
               PROVE  Witnessed(facts)
    BY DEF MergeIsWitnessed
  <1> DEFINE f == facts
  <1>a. Answers(f) \subseteq {"pass"}
    BY MergeNeedsAll
  <1>t. /\ f.state \in {"unknown", "open", "closed"} /\ f.files \subseteq {"ledger", "other"}
        /\ f.head \in {"unknown", "verified", "other"}
        /\ f.checks \subseteq {"pending", "passing", "failing"}
        /\ f.validator \in {"unknown", "accepted", "refused"}
        /\ f.rerunTree \in {"unknown", "same", "changed"} /\ f.added \subseteq AddedRow
        /\ f.mergeState \in MergeStates /\ f.kind \in {"wagers", "settlements"}
    BY DEF MergeFacts
  <1>1. f.state = "open" /\ ~f.draft /\ f.ours /\ f.head = "verified"
    <2>1. /\ OpenAndNotADraft(f) = "pass" /\ OriginatedFromTheRouter(f) = "pass"
          /\ HeadIsTheVerifiedCommit(f) = "pass"
      BY <1>a DEF Answers
    <2> QED
      BY <2>1 DEF OpenAndNotADraft, OriginatedFromTheRouter, HeadIsTheVerifiedCommit, Decide3
  <1>2. f.files = {"ledger"} /\ ~f.removes
    <2>1. OnlyCanonicalFilesChanged(f) = "pass" /\ AppendOnly(f) = "pass"
      BY <1>a DEF Answers
    <2> QED
      BY <2>1, <1>t DEF OnlyCanonicalFilesChanged, AppendOnly, Decide3
  <1>3. /\ DOMAIN f.receipts # {} /\ ~f.partial
        /\ \A x \in DOMAIN f.receipts :
              f.receipts[x].success /\ f.receipts[x].verdict \in NO_JUDGEMENT_VERDICTS
    <2>1. ImporterRefusedNothing(f) = "pass" /\ NeededNoJudgement(f) = "pass"
      BY <1>a DEF Answers
    <2>2. DOMAIN f.receipts # {} /\ ~f.partial /\ \A r \in Range(f.receipts) : r.success
      BY <2>1 DEF ImporterRefusedNothing, NoReceipts, Decide3
    <2>3. \A r \in Range(f.receipts) : ~NeedsJudgement(r)
      BY <2>1 DEF NeededNoJudgement, NoReceipts, Decide3
    <2> QED
      BY <2>2, <2>3 DEF Range, NeedsJudgement
  <1>4. /\ f.rerunTree = "same"
        /\ \A x \in DOMAIN f.receipts :
              /\ x \in DOMAIN f.rerun /\ f.rerun[x].verdict = "DUPLICATE_NOOP"
              /\ f.rerun[x].identity \in FirstIdentities(f, f.rerun[x].key)
    <2>1. Idempotent(f) = "pass"
      BY <1>a DEF Answers
    <2>2. /\ f.rerunTree # "unknown" /\ f.rerunTree # "changed"
          /\ \A r \in Range(f.rerun) : r.verdict \in IDEMPOTENT_RERUN_VERDICTS
          /\ DOMAIN f.rerun = DOMAIN f.receipts
          /\ \A r \in Range(f.rerun) : r.identity \in FirstIdentities(f, r.key)
      BY <2>1 DEF Idempotent, Decide3
    <2> QED
      BY <2>2, <1>t DEF Range, IDEMPOTENT_RERUN_VERDICTS
  <1>5. /\ f.added # {}
        /\ \A row \in f.added :
              /\ row.named /\ row.key \in SourceKeys /\ row.batch # "foreign"
              /\ row.batch = "router" \/ \E x \in DOMAIN f.receipts : f.receipts[x].key = row.key
    <2>1. AddedRowsAreOurs(f) = "pass"
      BY <1>a DEF Answers
    <2>2. f.added # {} /\ (f.kind = "settlements" => ReceiptKeys(f) # {})
      BY <2>1 DEF AddedRowsAreOurs, Decide3
    <2>3. ASSUME NEW row \in f.added
          PROVE  /\ row.named /\ row.key # NoKey
                 /\ IF f.kind = "settlements" THEN row.batch # "foreign" ELSE row.batch = "router"
                 /\ ReceiptKeys(f) # {} => row.key \in ReceiptKeys(f)
      BY <2>1 DEF AddedRowsAreOurs, Decide3
    <2>4. ASSUME NEW row \in f.added
          PROVE  row.key \in SourceKeys \cup {NoKey}
      BY <1>t DEF AddedRow
    <2>5. ASSUME NEW row \in f.added, f.kind = "settlements"
          PROVE  \E x \in DOMAIN f.receipts : f.receipts[x].key = row.key
      BY <2>2, <2>3, <2>5 DEF ReceiptKeys, Range
    <2> QED
      BY <2>2, <2>3, <2>4, <2>5
  <1>6. IF f.runsCI THEN f.checks = {"passing"} ELSE f.validator = "accepted"
    <2>1. ChecksAreGreen(f) = "pass"
      BY <1>a DEF Answers
    <2>2. CASE f.runsCI
      <3>1. "failing" \notin f.checks /\ f.checks # {} /\ "pending" \notin f.checks
        BY <2>1, <2>2 DEF ChecksAreGreen, Decide3
      <3> QED
        BY <3>1, <2>2, <1>t
    <2>3. CASE ~f.runsCI
      BY <2>1, <2>3, <1>t DEF ChecksAreGreen, Decide3
    <2> QED
      BY <2>2, <2>3
  <1>7. f.mergeable = "yes" /\ f.mergeState = "clean"
    <2>1. CleanlyMergeable(f) = "pass"
      BY <1>a DEF Answers
    <2> QED
      BY <2>1 DEF CleanlyMergeable, Decide3
  <1> QED
    BY <1>1, <1>2, <1>3, <1>4, <1>5, <1>6, <1>7 DEF Witnessed

---------------------------------------------------------------------------

\* Ten of the twelve conditions read neither the checks nor mergeability.
TenAnswers(f) ==
    {PullRequestExists(f), OpenAndNotADraft(f), OriginatedFromTheRouter(f),
     HeadIsTheVerifiedCommit(f), ImporterRefusedNothing(f), NeededNoJudgement(f),
     Idempotent(f), OnlyCanonicalFilesChanged(f), AppendOnly(f), AddedRowsAreOurs(f)}

LEMMA AnswersAreTheTenAndTwo ==
    ASSUME NEW f
    PROVE  Answers(f) = TenAnswers(f) \cup {ChecksAreGreen(f), CleanlyMergeable(f)}
  BY DEF Answers, TenAnswers

LEMMA TenConditionsIgnoreProgress ==
    ASSUME NEW f \in MergeFacts, NEW g \in MergeFacts,
           \E c, m, s : g = [f EXCEPT !.checks = c, !.mergeable = m, !.mergeState = s]
    PROVE  TenAnswers(g) = TenAnswers(f) /\ g.runsCI = f.runsCI /\ g.validator = f.validator
  <1>1. PICK c, m, s : g = [f EXCEPT !.checks = c, !.mergeable = m, !.mergeState = s]
    OBVIOUS
  <1>2. /\ g.numbered = f.numbered /\ g.state = f.state /\ g.draft = f.draft /\ g.ours = f.ours
        /\ g.head = f.head /\ g.receipts = f.receipts /\ g.partial = f.partial
        /\ g.rerun = f.rerun /\ g.rerunTree = f.rerunTree /\ g.files = f.files
        /\ g.removes = f.removes /\ g.added = f.added /\ g.kind = f.kind
        /\ g.runsCI = f.runsCI /\ g.validator = f.validator
    BY <1>1 DEF MergeFacts
  <1>3. /\ PullRequestExists(g) = PullRequestExists(f)
        /\ OpenAndNotADraft(g) = OpenAndNotADraft(f)
        /\ OriginatedFromTheRouter(g) = OriginatedFromTheRouter(f)
        /\ HeadIsTheVerifiedCommit(g) = HeadIsTheVerifiedCommit(f)
        /\ OnlyCanonicalFilesChanged(g) = OnlyCanonicalFilesChanged(f)
        /\ AppendOnly(g) = AppendOnly(f)
    BY <1>2 DEF PullRequestExists, OpenAndNotADraft, OriginatedFromTheRouter,
       HeadIsTheVerifiedCommit, OnlyCanonicalFilesChanged, AppendOnly
  <1>4. /\ ImporterRefusedNothing(g) = ImporterRefusedNothing(f)
        /\ NeededNoJudgement(g) = NeededNoJudgement(f)
        /\ Idempotent(g) = Idempotent(f)
        /\ AddedRowsAreOurs(g) = AddedRowsAreOurs(f)
    BY <1>2 DEF ImporterRefusedNothing, NeededNoJudgement, NoReceipts, Idempotent,
       FirstIdentities, AddedRowsAreOurs, ReceiptKeys
  <1> QED
    BY <1>2, <1>3, <1>4 DEF TenAnswers

\* The facts of a delivery whose suite, mergeability and base moved on are facts.
Progressed(f, c, m, s) ==
    [f EXCEPT !.checks = c, !.mergeable = m, !.mergeState = s]

LEMMA ProgressIsFacts ==
    ASSUME NEW f \in MergeFacts, NEW c \in SUBSET {"pending", "passing", "failing"},
           NEW m \in {"unknown", "yes", "no"}, NEW s \in MergeStates, NEW g,
           g = Progressed(f, c, m, s)
    PROVE  g \in MergeFacts /\ g.checks = c /\ g.mergeable = m /\ g.mergeState = s
  <1>1. g \in MergeFacts
    BY Zenon DEF MergeFacts, Progressed
  <1>2. g.checks = c /\ g.mergeable = m /\ g.mergeState = s
    BY Zenon DEF MergeFacts, Progressed
  <1> QED
    BY <1>1, <1>2

\* A batch that would be refused once its suite is done is refused while the
\* suite runs, while GitHub computes mergeability, and while the base moves.
THEOREM GateRefusesAtOnce ==
    ASSUME facts \in MergeFacts
    PROVE  RefusalIsNotDelayed
  <1> DEFINE green == IF facts.runsCI THEN {"passing"} ELSE {}
             g == [facts EXCEPT !.checks = green, !.mergeable = "yes", !.mergeState = "clean"]
  <1>a. green \in SUBSET {"pending", "passing", "failing"} /\ "clean" \in MergeStates
    BY DEF MergeStates
  <1>1. g \in MergeFacts /\ g.checks = (IF facts.runsCI THEN {"passing"} ELSE {})
        /\ g.mergeable = "yes" /\ g.mergeState = "clean"
    <2>0. g = Progressed(facts, green, "yes", "clean")
      BY DEF Progressed
    <2> HIDE DEF green, g
    <2>1. g \in MergeFacts /\ g.checks = green /\ g.mergeable = "yes" /\ g.mergeState = "clean"
      BY <1>a, <2>0, ProgressIsFacts
    <2> QED
      BY <2>1 DEF green
  <1>2. \E c, m, s : g = [facts EXCEPT !.checks = c, !.mergeable = m, !.mergeState = s]
    OBVIOUS
  <1> SUFFICES ASSUME Evaluate(g) = "REFUSE"
               PROVE  "refuse" \in Answers(facts)
    BY DEF RefusalIsNotDelayed, Evaluate
  <1> HIDE DEF g
  <1>3. g.runsCI = facts.runsCI /\ g.validator = facts.validator
    BY <1>1, <1>2, TenConditionsIgnoreProgress
  <1>4. "refuse" \in Answers(g)
    BY DEF Evaluate
  <1>5. CleanlyMergeable(g) # "refuse"
    BY <1>1 DEF CleanlyMergeable, Decide3, TRANSIENT_MERGE_STATES
  <1>6. CASE ChecksAreGreen(g) = "refuse"
    <2>1. ~facts.runsCI /\ facts.validator = "refused"
      BY <1>1, <1>3, <1>6 DEF ChecksAreGreen, Decide3
    <2>2. ChecksAreGreen(facts) = "refuse"
      BY <2>1 DEF ChecksAreGreen, Decide3
    <2> QED
      BY <2>2 DEF Answers
  <1>7. CASE ChecksAreGreen(g) # "refuse"
    <2>1. "refuse" \in TenAnswers(g)
      BY <1>4, <1>5, <1>7, AnswersAreTheTenAndTwo
    <2>2. "refuse" \in TenAnswers(facts)
      BY <1>1, <1>2, <2>1, TenConditionsIgnoreProgress
    <2> QED
      BY <2>2, AnswersAreTheTenAndTwo
  <1> QED
    BY <1>6, <1>7

\* A running suite never refuses a delivery that would merge once it is green.
THEOREM GateWaitsForChecks ==
    ASSUME facts \in MergeFacts
    PROVE  RunningChecksOnlyWait
  <1> DEFINE g == [facts EXCEPT !.checks = {"passing"}, !.mergeState = "clean"]
  <1>a. g = [facts EXCEPT !.checks = {"passing"}, !.mergeable = facts.mergeable,
                          !.mergeState = "clean"]
    BY Zenon DEF MergeFacts
  <1>b. facts.mergeable \in {"unknown", "yes", "no"} /\ "clean" \in MergeStates
    BY Zenon DEF MergeFacts, MergeStates
  <1>1. g \in MergeFacts /\ g.mergeable = facts.mergeable
    <2> DEFINE c == {"passing"}
    <2>1. c \in SUBSET {"pending", "passing", "failing"}
      OBVIOUS
    <2>2. g = Progressed(facts, c, facts.mergeable, "clean")
      BY <1>a DEF Progressed
    <2> HIDE DEF g, c
    <2> QED
      BY <1>b, <2>1, <2>2, ProgressIsFacts
  <1>2. \E c, m, s : g = [facts EXCEPT !.checks = c, !.mergeable = m, !.mergeState = s]
    BY <1>a
  <1> SUFFICES ASSUME facts.runsCI, "failing" \notin facts.checks,
                      facts.checks = {} \/ "pending" \in facts.checks,
                      Evaluate(g) = "MERGE",
                      facts.mergeState \in {"clean", "unstable", "behind", "dirty", "unknown"}
               PROVE  Evaluate(facts) = "WAIT"
    BY DEF RunningChecksOnlyWait
  <1> HIDE DEF g
  <1>3. Answers(g) \subseteq {"pass"}
    BY MergeNeedsAll
  <1>4. TenAnswers(facts) \subseteq {"pass"}
    <2>1. TenAnswers(g) \subseteq {"pass"}
      BY <1>3, AnswersAreTheTenAndTwo
    <2> QED
      BY <1>1, <1>2, <2>1, TenConditionsIgnoreProgress
  <1>5. ChecksAreGreen(facts) = "wait"
    BY DEF ChecksAreGreen, Decide3
  <1>6. CleanlyMergeable(facts) # "refuse"
    BY DEF CleanlyMergeable, Decide3, TRANSIENT_MERGE_STATES, CHECK_DERIVED_MERGE_STATES
  <1>7. "refuse" \notin Answers(facts) /\ "wait" \in Answers(facts)
    BY <1>4, <1>5, <1>6, AnswersAreTheTenAndTwo
  <1> QED
    BY <1>7 DEF Evaluate

---------------------------------------------------------------------------
(* The facts of a delivery stay facts, whatever goes wrong with it.        *)

LEMMA ReceiptsAreFunctions ==
    ASSUME NEW f
    PROVE  f \in Receipts <=> DOMAIN f \subseteq Rows /\ f \in [DOMAIN f -> Receipt]
  BY DEF Receipts

LEMMA KeylessReceipts == ASSUME NEW f \in Receipts PROVE Keyless(f) \in Receipts
  <1>1. ASSUME NEW p \in DOMAIN f PROVE [f[p] EXCEPT !.key = NoKey] \in Receipt
    <2>1. f[p] \in Receipt
      BY ReceiptsAreFunctions
    <2> QED
      BY <2>1 DEF Receipt
  <1>2. Keyless(f) \in [DOMAIN f -> Receipt] /\ DOMAIN Keyless(f) = DOMAIN f
    BY <1>1 DEF Keyless
  <1> QED
    BY <1>2, ReceiptsAreFunctions

\* One field of one receipt changed, to a value the field can have.
LEMMA ChangedReceipt ==
    ASSUME NEW f \in Receipts, NEW p \in DOMAIN f
    PROVE  /\ \A k \in SourceKeys \cup {NoKey} : [f EXCEPT ![p].key = k] \in Receipts
           /\ \A i \in {"none", "otherId"} : [f EXCEPT ![p].identity = i] \in Receipts
           /\ \A v \in Verdicts : [f EXCEPT ![p].verdict = v] \in Receipts
           /\ [f EXCEPT ![p].success = FALSE] \in Receipts
           /\ [f EXCEPT ![p].conflicting = TRUE] \in Receipts
  <1>1. f[p] \in Receipt /\ DOMAIN f \subseteq Rows /\ f \in [DOMAIN f -> Receipt]
    BY ReceiptsAreFunctions
  <1>2. ASSUME NEW r \in Receipt
        PROVE  [f EXCEPT ![p] = r] \in Receipts
    BY <1>1, ReceiptsAreFunctions
  <1>3. /\ \A k \in SourceKeys \cup {NoKey} : [f[p] EXCEPT !.key = k] \in Receipt
        /\ \A i \in {"none", "otherId"} : [f[p] EXCEPT !.identity = i] \in Receipt
        /\ \A v \in Verdicts : [f[p] EXCEPT !.verdict = v] \in Receipt
        /\ [f[p] EXCEPT !.success = FALSE] \in Receipt
        /\ [f[p] EXCEPT !.conflicting = TRUE] \in Receipt
    BY <1>1 DEF Receipt
  <1> QED
    BY <1>2, <1>3

\* What Deviate is given, field by field.
LEMMA ChangedFacts ==
    ASSUME NEW f \in MergeFacts
    PROVE  /\ \A x \in BOOLEAN : /\ [f EXCEPT !.numbered = x] \in MergeFacts
                                 /\ [f EXCEPT !.draft = x] \in MergeFacts
                                 /\ [f EXCEPT !.ours = x] \in MergeFacts
                                 /\ [f EXCEPT !.partial = x] \in MergeFacts
                                 /\ [f EXCEPT !.removes = x] \in MergeFacts
           /\ \A x \in {"unknown", "open", "closed"} : [f EXCEPT !.state = x] \in MergeFacts
           /\ \A x \in {"unknown", "verified", "other"} : [f EXCEPT !.head = x] \in MergeFacts
           /\ \A x \in Receipts : /\ [f EXCEPT !.receipts = x] \in MergeFacts
                                  /\ [f EXCEPT !.rerun = x] \in MergeFacts
           /\ \A x \in {"unknown", "same", "changed"} : [f EXCEPT !.rerunTree = x] \in MergeFacts
           /\ \A x \in SUBSET {"ledger", "other"} : [f EXCEPT !.files = x] \in MergeFacts
           /\ \A x \in SUBSET AddedRow : [f EXCEPT !.added = x] \in MergeFacts
           /\ \A x \in {"unknown", "accepted", "refused"} : [f EXCEPT !.validator = x] \in MergeFacts
           /\ \A x \in SUBSET {"pending", "passing", "failing"} : [f EXCEPT !.checks = x] \in MergeFacts
           /\ \A x \in {"unknown", "yes", "no"} : [f EXCEPT !.mergeable = x] \in MergeFacts
           /\ \A x \in MergeStates : [f EXCEPT !.mergeState = x] \in MergeFacts
  <1>1. \A x \in BOOLEAN : [f EXCEPT !.numbered = x] \in MergeFacts
    BY Zenon DEF MergeFacts
  <1>2. \A x \in BOOLEAN : [f EXCEPT !.draft = x] \in MergeFacts
    BY Zenon DEF MergeFacts
  <1>3. \A x \in BOOLEAN : [f EXCEPT !.ours = x] \in MergeFacts
    BY Zenon DEF MergeFacts
  <1>4. \A x \in BOOLEAN : [f EXCEPT !.partial = x] \in MergeFacts
    BY Zenon DEF MergeFacts
  <1>5. \A x \in BOOLEAN : [f EXCEPT !.removes = x] \in MergeFacts
    BY Zenon DEF MergeFacts
  <1>6. \A x \in {"unknown", "open", "closed"} : [f EXCEPT !.state = x] \in MergeFacts
    BY Zenon DEF MergeFacts
  <1>7. \A x \in {"unknown", "verified", "other"} : [f EXCEPT !.head = x] \in MergeFacts
    BY Zenon DEF MergeFacts
  <1>8. \A x \in Receipts : [f EXCEPT !.receipts = x] \in MergeFacts
    BY Zenon DEF MergeFacts
  <1>9. \A x \in Receipts : [f EXCEPT !.rerun = x] \in MergeFacts
    BY Zenon DEF MergeFacts
  <1>10. \A x \in {"unknown", "same", "changed"} : [f EXCEPT !.rerunTree = x] \in MergeFacts
    BY Zenon DEF MergeFacts
  <1>11. \A x \in SUBSET {"ledger", "other"} : [f EXCEPT !.files = x] \in MergeFacts
    BY Zenon DEF MergeFacts
  <1>12. \A x \in SUBSET AddedRow : [f EXCEPT !.added = x] \in MergeFacts
    BY Zenon DEF MergeFacts
  <1>13. \A x \in {"unknown", "accepted", "refused"} : [f EXCEPT !.validator = x] \in MergeFacts
    BY Zenon DEF MergeFacts
  <1>14. \A x \in SUBSET {"pending", "passing", "failing"} : [f EXCEPT !.checks = x] \in MergeFacts
    BY Zenon DEF MergeFacts
  <1>15. \A x \in {"unknown", "yes", "no"} : [f EXCEPT !.mergeable = x] \in MergeFacts
    BY Zenon DEF MergeFacts
  <1>16. \A x \in MergeStates : [f EXCEPT !.mergeState = x] \in MergeFacts
    BY Zenon DEF MergeFacts
  <1> QED
    BY <1>1, <1>2, <1>3, <1>4, <1>5, <1>6, <1>7, <1>8, <1>9, <1>10, <1>11, <1>12, <1>13, <1>14, <1>15, <1>16

LEMMA FewerReceipts ==
    ASSUME NEW f \in Receipts, NEW S \in SUBSET DOMAIN f
    PROVE  [q \in S |-> f[q]] \in Receipts
  BY ReceiptsAreFunctions

LEMMA DeliveryInOrder ==
    ASSUME {a, b} \subseteq SourceKeys, NEW kind \in {"wagers", "settlements"}, NEW runsCI \in BOOLEAN
    PROVE  InOrder(kind, runsCI) \in MergeFacts
  <1>1. ASSUME NEW v \in Verdicts PROVE GoodReceipts(v) \in Receipts
    <2>1. GoodReceipts(v) \in [Rows -> Receipt]
      BY DEF GoodReceipts, KeyAt, Receipt
    <2> QED
      BY <2>1 DEF Receipts
  <1>2. GoodReceipts("NEW") \in Receipts /\ GoodReceipts("DUPLICATE_NOOP") \in Receipts
    BY <1>1 DEF Verdicts
  <1> DEFINE added == {[key |-> k, named |-> TRUE,
                        batch |-> IF kind = "wagers" THEN "router" ELSE "absent"] : k \in {a, b}}
  <1>3. added \in SUBSET AddedRow
    <2> DEFINE batch == IF kind = "wagers" THEN "router" ELSE "absent"
    <2>1. batch \in {"router", "absent", "foreign"}
      OBVIOUS
    <2> HIDE DEF batch
    <2>2. ASSUME NEW k \in SourceKeys
          PROVE  [key |-> k, named |-> TRUE, batch |-> batch] \in AddedRow
      BY <2>1 DEF AddedRow
    <2>3. added = {[key |-> k, named |-> TRUE, batch |-> batch] : k \in {a, b}}
      BY Zenon DEF batch
    <2> HIDE DEF added
    <2> QED
      BY <2>2, <2>3
  <1> HIDE DEF added
  <1> DEFINE validator == IF runsCI THEN "unknown" ELSE "accepted"
             checks == IF runsCI THEN {"passing"} ELSE {}
  <1>4. /\ validator \in {"unknown", "accepted", "refused"}
        /\ checks \in SUBSET {"pending", "passing", "failing"}
        /\ "clean" \in MergeStates
    BY DEF MergeStates
  <1> HIDE DEF validator, checks
  <1>5. InOrder(kind, runsCI) =
          [numbered |-> TRUE, state |-> "open", draft |-> FALSE, ours |-> TRUE,
           head |-> "verified", receipts |-> GoodReceipts("NEW"), partial |-> FALSE,
           rerun |-> GoodReceipts("DUPLICATE_NOOP"), rerunTree |-> "same",
           files |-> {"ledger"}, removes |-> FALSE, added |-> added, kind |-> kind,
           runsCI |-> runsCI, validator |-> validator, checks |-> checks,
           mergeable |-> "yes", mergeState |-> "clean"]
    BY Zenon DEF InOrder, added, validator, checks
  <1> QED
    BY <1>2, <1>3, <1>4, <1>5 DEF MergeFacts

LEMMA DeviationsAreFacts ==
    ASSUME facts \in MergeFacts, Next
    PROVE  facts' \in MergeFacts
  <1>1. facts.receipts \in Receipts /\ facts.rerun \in Receipts
    BY Zenon DEF MergeFacts
  <1>2. facts.files \in SUBSET {"ledger", "other"} /\ facts.added \in SUBSET AddedRow
    BY Zenon DEF MergeFacts
  <1>3. CASE PullRequestDiffers
    BY <1>3, ChangedFacts DEF PullRequestDiffers, Deviate
  <1>4. CASE ReceiptDiffers
    <2>1. PICK p \in DOMAIN facts.receipts :
            \/ \E k \in SourceKeys \cup {NoKey} : facts' = [facts EXCEPT !.receipts[p].key = k]
            \/ \E i \in {"none", "otherId"} : facts' = [facts EXCEPT !.receipts[p].identity = i]
            \/ \E v \in Verdicts : facts' = [facts EXCEPT !.receipts[p].verdict = v]
            \/ facts' = [facts EXCEPT !.receipts[p].success = FALSE]
            \/ facts' = [facts EXCEPT !.receipts[p].conflicting = TRUE]
            \/ facts' = [facts EXCEPT !.partial = TRUE]
            \/ facts' = [facts EXCEPT !.receipts = Keyless(@), !.rerun = Keyless(@)]
      BY <1>4 DEF ReceiptDiffers, Deviate
    <2> DEFINE rs == facts.receipts
    <2>2. CASE \/ \E k \in SourceKeys \cup {NoKey} : facts' = [facts EXCEPT !.receipts[p].key = k]
               \/ \E i \in {"none", "otherId"} : facts' = [facts EXCEPT !.receipts[p].identity = i]
               \/ \E v \in Verdicts : facts' = [facts EXCEPT !.receipts[p].verdict = v]
               \/ facts' = [facts EXCEPT !.receipts[p].success = FALSE]
               \/ facts' = [facts EXCEPT !.receipts[p].conflicting = TRUE]
      <3>1. \E x \in Receipts : facts' = [facts EXCEPT !.receipts = x]
        BY <2>2, <1>1, ChangedReceipt
      <3> QED
        BY <3>1, ChangedFacts
    <2>3. CASE facts' = [facts EXCEPT !.partial = TRUE]
      BY <2>3, ChangedFacts
    <2>4. CASE facts' = [facts EXCEPT !.receipts = Keyless(@), !.rerun = Keyless(@)]
      <3>1. Keyless(facts.receipts) \in Receipts /\ Keyless(facts.rerun) \in Receipts
        BY <1>1, KeylessReceipts
      <3> DEFINE g == [facts EXCEPT !.receipts = Keyless(facts.receipts)]
      <3>2. g \in MergeFacts
        BY <3>1, ChangedFacts
      <3>3. facts' = [g EXCEPT !.rerun = Keyless(facts.rerun)]
        BY <2>4 DEF MergeFacts
      <3> QED
        BY <3>1, <3>2, <3>3, ChangedFacts
    <2> QED
      BY <2>1, <2>2, <2>3, <2>4
  <1>5. CASE RerunDiffers
    <2>1. CASE facts' = [facts EXCEPT !.rerunTree = "changed"]
      BY <2>1, ChangedFacts
    <2>2. ASSUME NEW p \in DOMAIN facts.rerun,
                 \/ \E k \in SourceKeys \cup {NoKey} : facts' = [facts EXCEPT !.rerun[p].key = k]
                 \/ \E i \in {"none", "otherId"} : facts' = [facts EXCEPT !.rerun[p].identity = i]
                 \/ \E v \in Verdicts : facts' = [facts EXCEPT !.rerun[p].verdict = v]
                 \/ facts' = [facts EXCEPT !.rerun = [q \in DOMAIN @ \ {p} |-> @[q]]]
          PROVE  facts' \in MergeFacts
      <3>1. [q \in DOMAIN facts.rerun \ {p} |-> facts.rerun[q]] \in Receipts
        BY <1>1, FewerReceipts
      <3>2. \E x \in Receipts : facts' = [facts EXCEPT !.rerun = x]
        BY <2>2, <1>1, <3>1, ChangedReceipt
      <3> QED
        BY <3>2, ChangedFacts
    <2> QED
      BY <1>5, <2>1, <2>2 DEF RerunDiffers, Deviate
  <1>6. CASE DiffDiffers
    <2>1. ASSUME NEW row \in AddedRow, \/ facts' = [facts EXCEPT !.added = @ \cup {row}]
                                       \/ facts' = [facts EXCEPT !.added = @ \ {row}]
          PROVE  facts' \in MergeFacts
      <3>1. facts.added \cup {row} \in SUBSET AddedRow /\ facts.added \ {row} \in SUBSET AddedRow
        BY <1>2
      <3>2. \E x \in SUBSET AddedRow : facts' = [facts EXCEPT !.added = x]
        BY <2>1, <3>1
      <3> QED
        BY <3>2, ChangedFacts
    <2>2. CASE facts' = [facts EXCEPT !.removes = TRUE]
      BY <2>2, ChangedFacts
    <2>3. CASE facts' = [facts EXCEPT !.files = @ \cup {"other"}]
      <3>1. facts.files \cup {"other"} \in SUBSET {"ledger", "other"}
        BY <1>2
      <3>2. \E x \in SUBSET {"ledger", "other"} : facts' = [facts EXCEPT !.files = x]
        BY <2>3, <3>1
      <3> QED
        BY <3>2, ChangedFacts
    <2> QED
      BY <1>6, <1>2, <2>1, <2>2, <2>3 DEF DiffDiffers, Deviate
  <1>7. CASE VerdictDiffers
    BY <1>7, ChangedFacts DEF VerdictDiffers, Deviate
  <1>8. CASE Forget
    <2>1. /\ [q \in {} |-> facts.receipts[q]] \in Receipts
          /\ [q \in {} |-> facts.rerun[q]] \in Receipts
      BY <1>1, FewerReceipts
    <2>2. CASE \/ facts' = [facts EXCEPT !.receipts = [p \in {} |-> @[p]]]
               \/ facts' = [facts EXCEPT !.rerun = [p \in {} |-> @[p]]]
      BY <2>1, <2>2, ChangedFacts
    <2>3. CASE facts' = [facts EXCEPT !.files = {}]
      <3>1. {} \in SUBSET {"ledger", "other"}
        OBVIOUS
      <3> QED
        BY <2>3, <3>1, ZenonT(60), ChangedFacts
    <2>7. CASE facts' = [facts EXCEPT !.added = {}]
      <3>1. {} \in SUBSET AddedRow
        OBVIOUS
      <3> QED
        BY <2>7, <3>1, ZenonT(60), ChangedFacts
    <2>6. CASE facts' = [facts EXCEPT !.checks = {}]
      <3>1. {} \in SUBSET {"pending", "passing", "failing"}
        OBVIOUS
      <3> QED
        BY <2>6, <3>1, ZenonT(60), ChangedFacts
    <2>4. CASE \/ facts' = [facts EXCEPT !.numbered = FALSE]
               \/ facts' = [facts EXCEPT !.state = "unknown"]
               \/ facts' = [facts EXCEPT !.head = "unknown"]
               \/ facts' = [facts EXCEPT !.rerunTree = "unknown"]
               \/ facts' = [facts EXCEPT !.validator = "unknown"]
               \/ facts' = [facts EXCEPT !.mergeable = "unknown"]
      BY <2>4, ChangedFacts
    <2>5. CASE facts' = [facts EXCEPT !.mergeState = "unknown"]
      BY <2>5, ChangedFacts DEF MergeStates
    <2> QED
      BY <1>8, <2>2, <2>3, <2>4, <2>5, <2>6, <2>7 DEF Forget, Deviate
  <1> QED
    BY <1>3, <1>4, <1>5, <1>6, <1>7, <1>8 DEF Next

FactsAreFacts == facts \in MergeFacts

LEMMA FactsStayFacts ==
    ASSUME {a, b} \subseteq SourceKeys PROVE Spec => []FactsAreFacts
  <1>1. Init => FactsAreFacts
    BY DeliveryInOrder DEF Init, FactsAreFacts
  <1>2. FactsAreFacts /\ [Next]_vars => FactsAreFacts'
    <2>1. ASSUME FactsAreFacts, Next PROVE FactsAreFacts'
      BY <2>1, DeviationsAreFacts DEF FactsAreFacts
    <2>2. ASSUME FactsAreFacts, UNCHANGED vars PROVE FactsAreFacts'
      BY <2>2 DEF vars, FactsAreFacts
    <2> QED
      BY <2>1, <2>2
  <1> QED
    BY <1>1, <1>2, PTL DEF Spec

\* Whatever has gone wrong before and however a delivery is told of it, the
\* step at which a piece of evidence is lost leaves automerge.evaluate with
\* something other than MERGE: a missing fact is a wait or a refusal.
THEOREM LostEvidenceNeverMerges ==
    ASSUME {a, b} \subseteq SourceKeys
    PROVE  Spec => AbsentEvidenceNeverMerges
  <1>1. ASSUME FactsAreFacts, Forget PROVE Evaluate(facts') # "MERGE"
    <2> DEFINE g == facts'
    <2>1. \/ g.numbered = FALSE
          \/ g.state = "unknown"
          \/ g.head = "unknown"
          \/ DOMAIN g.receipts = {}
          \/ DOMAIN g.rerun = {}
          \/ g.rerunTree = "unknown"
          \/ g.files = {}
          \/ g.added = {}
          \/ g.runsCI /\ g.checks = {}
          \/ ~g.runsCI /\ g.validator = "unknown"
          \/ g.mergeable = "unknown"
          \/ g.mergeState = "unknown"
      BY <1>1 DEF FactsAreFacts, MergeFacts, Forget, Deviate
    <2> SUFFICES ASSUME Evaluate(g) = "MERGE" PROVE FALSE
      OBVIOUS
    <2> HIDE DEF g
    <2>2. Answers(g) \subseteq {"pass"}
      BY MergeNeedsAll
    <2>3. /\ PullRequestExists(g) = "pass" /\ OpenAndNotADraft(g) = "pass"
          /\ HeadIsTheVerifiedCommit(g) = "pass" /\ ImporterRefusedNothing(g) = "pass"
          /\ Idempotent(g) = "pass" /\ OnlyCanonicalFilesChanged(g) = "pass"
          /\ AddedRowsAreOurs(g) = "pass" /\ ChecksAreGreen(g) = "pass"
          /\ CleanlyMergeable(g) = "pass"
      BY <2>2 DEF Answers
    <2>4. ~(g.numbered = FALSE) /\ g.state # "unknown" /\ g.head # "unknown"
      BY <2>3 DEF PullRequestExists, OpenAndNotADraft, HeadIsTheVerifiedCommit, Decide3
    <2>5. /\ DOMAIN g.receipts # {}
          /\ DOMAIN g.rerun # {} /\ g.rerunTree # "unknown"
      BY <2>3 DEF ImporterRefusedNothing, NoReceipts, Idempotent, Decide3
    <2>6. g.files # {} /\ g.added # {}
      BY <2>3 DEF OnlyCanonicalFilesChanged, AddedRowsAreOurs, Decide3
    <2>7. ~(g.runsCI /\ g.checks = {}) /\ ~(~g.runsCI /\ g.validator = "unknown")
      BY <2>3 DEF ChecksAreGreen, Decide3
    <2>8. g.mergeable # "unknown" /\ g.mergeState # "unknown"
      BY <2>3 DEF CleanlyMergeable, Decide3, TRANSIENT_MERGE_STATES
    <2> QED
      BY <2>1, <2>4, <2>5, <2>6, <2>7, <2>8
  <1>2. FactsAreFacts => [Forget => Evaluate(facts)' # "MERGE"]_vars
    BY <1>1
  <1> QED
    BY <1>2, FactsStayFacts, PTL DEF AbsentEvidenceNeverMerges

=============================================================================
