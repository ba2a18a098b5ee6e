------------------------- MODULE Settlement_proofs -------------------------
(***************************************************************************)
(* Proofs about Settlement, for any orders, markets, statements of the     *)
(* exchange, destinations and failures: nothing is filed without its       *)
(* wager, the ledger branch only grows, a withheld settlement has its      *)
(* wager on the open proposal, and a green run has answered its payload.   *)
(*                                                                         *)
(* The import runs on one read of the ledger branch, the commit sits on a  *)
(* second and the merge meets a third; the strengthening therefore follows *)
(* every copy of the ledger a run or a commit holds.                       *)
(***************************************************************************)
EXTENDS Settlement, Sums_proofs, TLAPS

Unique(rows) == \A r, s \in rows : r.key = s.key => r = s
Filed(rows, wagers) == \A r \in rows : [key |-> r.key, same |-> TRUE] \in wagers
Kept(rows) == Unique(rows) /\ Filed(rows, canonical.wagers)

\* What the EXCEPTs of the steps need to know of the records they change, and
\* the importer of the keys it is given.
Shaped ==
    /\ DOMAIN canonical = {"wagers", "settled"}
    /\ DOMAIN proposal = {"id", "rows", "pull"}
    /\ DOMAIN branch = {"id", "base", "tree"} /\ DOMAIN run.head = {"id", "base", "tree"}
    /\ DOMAIN run = {"payload", "clone", "tip", "seen", "waiting", "receipts", "head", "failed"}
    /\ admitted \subseteq Keys /\ KeysOf(run.payload) \subseteq Keys

\* Every set of settlements that may reach the ledger names each order once,
\* and only orders whose wager is there already.
EverywhereKept ==
    /\ Kept(canonical.settled) /\ Kept(branch.tree.settled)
    /\ Kept(run.clone.settled) /\ Kept(run.head.tree.settled)
    /\ Unique(run.payload)

\* What a run or a commit read of the ledger branch is still there.
ReadsAreOld ==
    /\ run.clone.wagers \subseteq canonical.wagers /\ run.clone.settled \subseteq canonical.settled
    /\ run.tip.settled \subseteq canonical.settled
    /\ run.head.base.settled \subseteq canonical.settled
    /\ branch.base.settled \subseteq canonical.settled

\* From its push to the gate's answer the run's commit is the branch, unless
\* a person merged it away; what the gate let pass only adds.
Additive(commit) ==
    commit.base.wagers \subseteq commit.tree.wagers /\ commit.base.settled \subseteq commit.tree.settled

HeadIsTheBranch ==
    /\ pc \in {"pull", "gate"} => run.head.id # 0 /\ (branch = run.head \/ branch.id = 0)
    /\ pc = "merge" /\ pull = "open" => Additive(branch)

\* A commit id names one content.
SeenIsTheProposal ==
    run.seen.id # 0 /\ run.seen.id = proposal.id => run.seen.rows = proposal.rows

\* Where a row of the payload stands while its run has nothing to report.
Answered ==
    pc \in {"push", "pull", "gate", "merge", "reconcile"} /\ ~run.failed =>
        \A row \in run.payload :
            \/ row.key \in run.waiting
            \/ row \in canonical.settled
            \/ pc = "push" /\ row \in run.head.tree.settled
            \/ pc = "pull" /\ row \in branch.tree.settled
            \/ pc \in {"gate", "merge", "reconcile"} /\ pull = "open" /\ row \in branch.tree.settled

IInv == Shaped /\ EverywhereKept /\ ReadsAreOld /\ HeadIsTheBranch /\ SeenIsTheProposal /\ Answered

---------------------------------------------------------------------------
(* The merge, the gate and the importer.                                   *)

\* A clean merge of a commit that only adds leaves one of the two sides.
LEMMA MergeOfAddition ==
    ASSUME NEW c, ~Conflict(c), Additive(c), NEW m, m = Merged(c)
    PROVE  /\ DOMAIN m = {"wagers", "settled"}
           /\ canonical.wagers \subseteq m.wagers /\ canonical.settled \subseteq m.settled
           /\ m.settled = canonical.settled \/ m.settled = c.tree.settled
           /\ c.base.settled \subseteq canonical.settled => c.tree.settled \subseteq m.settled
  <1>1. /\ m.wagers = (canonical.wagers \ (c.base.wagers \ c.tree.wagers))
                         \cup (c.tree.wagers \ c.base.wagers)
        /\ m.settled = (canonical.settled \ (c.base.settled \ c.tree.settled))
                         \cup (c.tree.settled \ c.base.settled)
        /\ DOMAIN m = {"wagers", "settled"}
    BY DEF Merged, Ledger, Added
  <1>2. c.base.wagers \ c.tree.wagers = {} /\ c.base.settled \ c.tree.settled = {}
    BY DEF Additive
  <1>3. /\ canonical.wagers \subseteq m.wagers /\ canonical.settled \subseteq m.settled
        /\ m.settled = canonical.settled \cup (c.tree.settled \ c.base.settled)
    BY <1>1, <1>2
  <1>4. \/ canonical.settled = c.base.settled \/ c.tree.settled = c.base.settled
        \/ canonical.settled = c.tree.settled
    BY DEF Conflict
  <1>5. m.settled = canonical.settled \/ m.settled = c.tree.settled
    BY <1>3, <1>4 DEF Additive
  <1> QED
    BY <1>1, <1>3, <1>5

\* MERGE is said of the commit the run verified, and only if it removes nothing.
LEMMA GateVouches ==
    ASSUME NEW r, NEW known, Gate!Evaluate(FactsOf(r, known)) = "MERGE"
    PROVE  pull # "none" /\ branch.id = r.head.id /\ ~Removes(r.head)
  <1> DEFINE f == FactsOf(r, known)
  <1>1. "refuse" \notin Gate!Answers(f) /\ "wait" \notin Gate!Answers(f)
    BY DEF Gate!Evaluate, f
  <1>2. Gate!AppendOnly(f) # "refuse" /\ Gate!HeadIsTheVerifiedCommit(f) # "wait"
    BY <1>1 DEF Gate!Answers
  <1>3. ~f.removes /\ f.head = "verified"
    BY <1>2 DEF Gate!AppendOnly, Gate!HeadIsTheVerifiedCommit, Gate!Decide3
  <1>4. f.removes = Removes(r.head)
    BY DEF FactsOf
  <1>5. f.head = IF pull = "none" THEN "unknown" ELSE IF branch.id = VerifiedHead(r) THEN "verified" ELSE "other"
    BY DEF FactsOf
  <1> QED
    BY <1>3, <1>4, <1>5 DEF VerifiedHead

LEMMA PayloadNamesEachOrderOnce ==
    ASSUME NEW batch PROVE Unique(Payload(batch))
  BY DEF Unique, Payload, SettledRow

\* One receipt per key: the importer's answer to a row is the answer to the
\* only row of its order.
LEMMA ReceiptOfRow ==
    ASSUME NEW ready, Unique(ready), KeysOf(ready) \subseteq Keys, NEW row \in ready
    PROVE  Receipts(ready)[row.key] = ReceiptFor(row)
  <1>1. row.key \in Keys
    BY DEF KeysOf
  <1>2. \A other \in ready : other.key = row.key => other = row
    BY DEF Unique
  <1>3. (CHOOSE other \in ready : other.key = row.key) = row
    BY <1>2
  <1> QED
    BY <1>1, <1>3 DEF Receipts

\* What the import leaves names each order once, beside its wager.
LEMMA ImportKeeps ==
    ASSUME NEW ready, Unique(ready), KeysOf(ready) \subseteq Keys,
           Kept(run.clone.settled), run.clone.wagers \subseteq canonical.wagers,
           NEW new, new = {row \in ready : Receipts(ready)[row.key] = "NEW"}
    PROVE  Kept(run.clone.settled \cup new)
  <1>1. ASSUME NEW row \in new
        PROVE  /\ row \in ready /\ [key |-> row.key, same |-> TRUE] \in run.clone.wagers
               /\ \A r \in run.clone.settled : r.key # row.key
    <2>1. row \in ready /\ ReceiptFor(row) = "NEW"
      BY ReceiptOfRow
    <2>2. Settles(run.clone.wagers, row.key) /\ OnFile(row) = {}
      BY <2>1 DEF ReceiptFor
    <2> QED
      BY <2>1, <2>2 DEF Settles, OnFile
  <1>2. Unique(run.clone.settled \cup new)
    BY <1>1 DEF Kept, Unique
  <1>3. Filed(run.clone.settled \cup new, canonical.wagers)
    BY <1>1 DEF Kept, Filed
  <1> QED
    BY <1>2, <1>3 DEF Kept

\* An import that refused nothing has every row it was given on its ledger.
LEMMA ImportAnswers ==
    ASSUME NEW ready, Unique(ready), KeysOf(ready) \subseteq Keys,
           ~RefusedSome(Receipts(ready)), NEW row \in ready
    PROVE  row \in run.clone.settled \/ Receipts(ready)[row.key] = "NEW"
  <1>1. Receipts(ready)[row.key] = ReceiptFor(row) /\ row.key \in Keys
    BY ReceiptOfRow DEF KeysOf
  <1>2. ReceiptFor(row) \notin {"REFUSED", "CONFLICT"}
    BY <1>1 DEF RefusedSome
  <1>3. ReceiptFor(row) = "NEW" \/ OnFile(row) = {row}
    BY <1>2 DEF ReceiptFor
  <1> QED
    BY <1>1, <1>3 DEF OnFile

---------------------------------------------------------------------------
(* The steps, in groups that disturb the same parts.                       *)

Grows == canonical.wagers \subseteq canonical'.wagers /\ canonical.settled \subseteq canonical'.settled

LEMMA InitIsInductive ==
    ASSUME Init PROVE IInv
  <1>1. Shaped
    BY DEF Init, Shaped, NoLedger, Ledger, NoCommit, NoRun, NoProposal, KeysOf
  <1>2. EverywhereKept
    BY DEF Init, EverywhereKept, Kept, Unique, Filed, NoLedger, Ledger, NoCommit, NoRun
  <1>3. ReadsAreOld
    BY DEF Init, ReadsAreOld, NoLedger, Ledger, NoCommit, NoRun
  <1>4. HeadIsTheBranch /\ SeenIsTheProposal /\ Answered
    BY DEF Init, HeadIsTheBranch, SeenIsTheProposal, Answered, NoRun
  <1> QED
    BY <1>1, <1>2, <1>3, <1>4 DEF IInv

\* The exchange, the account and the wager proposal: no copy of the ledger.
LEMMA QuietStep ==
    ASSUME IInv, SeenIsTheProposal', DOMAIN proposal' = DOMAIN proposal, admitted' \subseteq Keys,
           UNCHANGED <<canonical, branch, pull, pc, run>>
    PROVE  IInv'
  <1>1. Shaped' /\ EverywhereKept' /\ ReadsAreOld'
    BY DEF IInv, Shaped, EverywhereKept, ReadsAreOld, Kept
  <1>2. HeadIsTheBranch' /\ Answered'
    BY DEF IInv, HeadIsTheBranch, Answered, Additive
  <1> QED
    BY <1>1, <1>2 DEF IInv

LEMMA RunEnds ==
    ASSUME IInv, NEW failed, EndRun(failed), unchangedWorld
    PROVE  IInv'
  <1>1. run' = NoRun /\ pc' = "idle" /\ UNCHANGED <<canonical, branch, pull, admitted, proposal>>
    BY DEF EndRun, unchangedWorld, unchangedExchange
  <1>2. Shaped'
    BY <1>1 DEF IInv, Shaped, NoRun, NoCommit, KeysOf
  <1>3. EverywhereKept'
    BY <1>1 DEF IInv, EverywhereKept, Kept, Unique, Filed, NoLedger, Ledger, NoCommit, NoRun
  <1>4. ReadsAreOld'
    BY <1>1 DEF IInv, ReadsAreOld, NoLedger, Ledger, NoCommit, NoRun
  <1>5. HeadIsTheBranch' /\ SeenIsTheProposal' /\ Answered'
    BY <1>1 DEF HeadIsTheBranch, SeenIsTheProposal, Answered, NoRun
  <1> QED
    BY <1>2, <1>3, <1>4, <1>5 DEF IInv

\* The four reads before the import.
LEMMA ReadStep ==
    ASSUME IInv, StartRun \/ Clone \/ FetchTip \/ (\E found : ReadProposal(found)),
           SeenIsTheProposal'
    PROVE  IInv'
  <1>1. UNCHANGED <<canonical, branch, pull, admitted, proposal>> /\ pc' \notin {"push", "pull", "gate", "merge", "reconcile"}
    BY DEF StartRun, Clone, FetchTip, ReadProposal, unchangedWorld, unchangedExchange
  <1>2. /\ DOMAIN run' = DOMAIN run /\ run'.head \in {run.head, NoCommit}
        /\ run'.payload = run.payload \/ run'.payload = Payload(admitted)
        /\ run'.clone \in {run.clone, canonical, NoLedger}
        /\ run'.tip \in {run.tip, canonical, NoLedger}
    <2>1. CASE StartRun
      BY <2>1 DEF StartRun, NoRun, IInv, Shaped
    <2>2. CASE Clone
      BY <2>2 DEF Clone, IInv, Shaped
    <2>3. CASE FetchTip
      BY <2>3 DEF FetchTip, IInv, Shaped
    <2>4. CASE \E found : ReadProposal(found)
      BY <2>4 DEF ReadProposal, IInv, Shaped
    <2> QED
      BY <2>1, <2>2, <2>3, <2>4
  <1>3. Unique(Payload(admitted)) /\ KeysOf(Payload(admitted)) \subseteq admitted
    BY PayloadNamesEachOrderOnce DEF KeysOf, Payload, SettledRow
  <1>4. Shaped'
    BY <1>1, <1>2, <1>3 DEF IInv, Shaped, NoCommit
  <1>5. EverywhereKept'
    BY <1>1, <1>2, <1>3 DEF IInv, EverywhereKept, Kept, Unique, Filed, NoLedger, Ledger, NoCommit
  <1>6. ReadsAreOld'
    BY <1>1, <1>2 DEF IInv, ReadsAreOld, NoLedger, Ledger, NoCommit
  <1>7. HeadIsTheBranch' /\ Answered'
    BY <1>1 DEF HeadIsTheBranch, Answered
  <1> QED
    BY <1>4, <1>5, <1>6, <1>7 DEF IInv

\* The import, whatever it leaves the run to do next.
LEMMA ImportStep ==
    ASSUME IInv, NEW ready, ready \subseteq run.payload, Import(ready), unchangedWorld
    PROVE  IInv'
  <1> DEFINE receipts == Receipts(ready)
             new == {row \in ready : receipts[row.key] = "NEW"}
             tree == Ledger(run.clone.wagers, run.clone.settled \cup new)
             commit == [id |-> 0, base |-> run.tip, tree |-> tree]
             next(phase, head, failed) ==
                 /\ run' = [run EXCEPT !.receipts = receipts, !.head = head, !.failed = failed,
                                       !.clone = NoLedger, !.tip = NoLedger, !.seen = NoRun.seen,
                                       !.waiting = KeysOf(run.payload \ ready)]
                 /\ pc' = phase /\ UNCHANGED outcome
  <1>1. UNCHANGED <<canonical, branch, pull, admitted, proposal>>
    BY DEF unchangedWorld, unchangedExchange
  <1>2. Unique(ready) /\ KeysOf(ready) \subseteq Keys
    BY DEF IInv, EverywhereKept, Shaped, Unique, KeysOf
  <1>3. Kept(run.clone.settled \cup new)
    BY <1>2, ImportKeeps DEF IInv, EverywhereKept, ReadsAreOld
  <1>4. ASSUME NEW row \in run.payload, ~RefusedSome(receipts)
        PROVE  row.key \in KeysOf(run.payload \ ready) \/ row \in run.clone.settled \cup new
    <2>1. CASE row \in ready
      BY <1>2, <1>4, <2>1, ImportAnswers
    <2>2. CASE row \notin ready
      BY <2>2 DEF KeysOf
    <2> QED
      BY <2>1, <2>2
  <1>5. \/ next("reconcile", NoCommit, RefusedSome(receipts)) /\ new = {}
        \/ EndRun(TRUE)
        \/ next("push", commit, RefusedSome(receipts) \/ ~Sound(tree))
    BY DEF Import
  <1>6. tree.settled = run.clone.settled \cup new
    BY DEF Ledger
  <1> HIDE DEF receipts, new, tree
  <1>7. CASE EndRun(TRUE)
    BY <1>7, RunEnds
  <1>8. ASSUME NEW phase \in {"reconcile", "push"}, NEW head \in {NoCommit, commit}, NEW failed,
               next(phase, head, failed), ~failed => ~RefusedSome(receipts),
               phase = "reconcile" => new = {}, phase = "push" => head = commit
        PROVE  IInv'
    <2>1. /\ run'.payload = run.payload /\ run'.clone = NoLedger /\ run'.tip = NoLedger
          /\ run'.seen = NoRun.seen /\ run'.head = head /\ run'.failed = failed
          /\ run'.waiting = KeysOf(run.payload \ ready)
          /\ DOMAIN run' = DOMAIN run /\ pc' = phase
      BY <1>8 DEF IInv, Shaped
    <2> HIDE DEF next
    <2>2. Shaped'
      BY <1>1, <1>8, <2>1 DEF IInv, Shaped, NoCommit
    <2>3. EverywhereKept'
      <3>1. Kept(head.tree.settled)
        BY <1>3, <1>6, <1>8 DEF Kept, Unique, Filed, NoCommit, NoLedger, Ledger
      <3>2. Kept({})
        BY DEF Kept, Unique, Filed
      <3> QED
        BY <1>1, <2>1, <3>1, <3>2 DEF IInv, EverywhereKept, Kept, NoLedger, Ledger
    <2>4. ReadsAreOld'
      BY <1>1, <1>8, <2>1 DEF IInv, ReadsAreOld, NoLedger, Ledger, NoCommit
    <2>5. HeadIsTheBranch' /\ SeenIsTheProposal'
      BY <1>8, <2>1 DEF HeadIsTheBranch, SeenIsTheProposal, NoRun
    <2>6. Answered'
      <3> SUFFICES ASSUME ~failed, NEW row \in run.payload
                   PROVE  \/ row.key \in run'.waiting \/ row \in canonical'.settled
                          \/ phase = "push" /\ row \in head.tree.settled
        BY <2>1, <1>8 DEF Answered
      <3>1. row.key \in run'.waiting \/ row \in run.clone.settled \cup new
        BY <1>4, <1>8, <2>1
      <3>2. CASE row \in run.clone.settled
        BY <1>1, <3>2 DEF IInv, ReadsAreOld
      <3>3. CASE row \in new
        BY <1>6, <1>8, <3>3
      <3> QED
        BY <3>1, <3>2, <3>3
    <2> QED
      BY <2>2, <2>3, <2>4, <2>5, <2>6 DEF IInv
  <1> HIDE DEF next, commit
  <1>9. CASE next("reconcile", NoCommit, RefusedSome(receipts)) /\ new = {}
    BY <1>8, <1>9
  <1>10. CASE next("push", commit, RefusedSome(receipts) \/ ~Sound(tree))
    BY <1>8, <1>10
  <1> QED
    BY <1>5, <1>7, <1>9, <1>10

LEMMA PushStep ==
    ASSUME IInv, Push PROVE IInv'
  <1>1. PICK id \in FreshId({branch.id}) :
              branch' = [run.head EXCEPT !.id = id] /\ run' = [run EXCEPT !.head.id = id]
    BY DEF Push
  <1>2. id # 0
    BY BoundsAreNumbers DEF FreshId
  <1>3. UNCHANGED <<canonical, pull, admitted, proposal>> /\ pc = "push" /\ pc' = "pull"
    BY DEF Push, unchangedExchange
  <1>4. /\ DOMAIN branch' = {"id", "base", "tree"} /\ DOMAIN run' = DOMAIN run
        /\ branch'.id = id /\ branch'.base = run.head.base /\ branch'.tree = run.head.tree
        /\ run'.head = branch' /\ run'.payload = run.payload /\ run'.clone = run.clone
        /\ run'.tip = run.tip /\ run'.seen = run.seen /\ run'.waiting = run.waiting
        /\ run'.failed = run.failed
    BY <1>1 DEF IInv, Shaped
  <1>5. Shaped' /\ EverywhereKept' /\ ReadsAreOld'
    BY <1>3, <1>4 DEF IInv, Shaped, EverywhereKept, ReadsAreOld, Kept
  <1>6. HeadIsTheBranch' /\ SeenIsTheProposal' /\ Answered'
    BY <1>2, <1>3, <1>4 DEF IInv, HeadIsTheBranch, SeenIsTheProposal, Answered
  <1> QED
    BY <1>5, <1>6 DEF IInv

LEMMA OpenPullStep ==
    ASSUME IInv, OpenPull PROVE IInv'
  <1>1. UNCHANGED <<canonical, branch, admitted, proposal, run>> /\ pc = "pull" /\ pc' = "gate" /\ pull' = "open"
    BY DEF OpenPull, unchangedExchange
  <1>2. Shaped' /\ EverywhereKept' /\ ReadsAreOld' /\ SeenIsTheProposal'
    BY <1>1 DEF IInv, Shaped, EverywhereKept, ReadsAreOld, Kept, SeenIsTheProposal
  <1>3. HeadIsTheBranch' /\ Answered'
    BY <1>1 DEF IInv, HeadIsTheBranch, Answered
  <1> QED
    BY <1>2, <1>3 DEF IInv

LEMMA EvaluateStep ==
    ASSUME IInv, NEW known, Evaluate(known) PROVE IInv'
  <1> DEFINE verdict == Gate!Evaluate(FactsOf(run, known))
  <1>1. /\ run' = [run EXCEPT !.failed = @ \/ verdict = "REFUSE", !.head.base = NoLedger, !.head.tree = NoLedger]
        /\ pc' = IF verdict = "MERGE" /\ profile.autoMerge THEN "merge" ELSE "reconcile"
    BY DEF Evaluate
  <1>2. UNCHANGED <<canonical, branch, pull, admitted, proposal>> /\ pc = "gate"
    BY DEF Evaluate, unchangedWorld, unchangedExchange
  <1>3. pc' = "merge" => pull # "none" /\ branch.id = run.head.id /\ ~Removes(run.head)
    BY <1>1, GateVouches
  <1>4. pc' = "merge" => Additive(branch)
    BY <1>2, <1>3 DEF IInv, HeadIsTheBranch, Removes, Additive
  <1>5. /\ DOMAIN run' = DOMAIN run /\ DOMAIN run'.head = DOMAIN run.head
        /\ run'.head.base = NoLedger /\ run'.head.tree = NoLedger
        /\ run'.payload = run.payload /\ run'.clone = run.clone /\ run'.tip = run.tip
        /\ run'.seen = run.seen /\ run'.waiting = run.waiting
        /\ ~run'.failed => ~run.failed
    BY <1>1 DEF IInv, Shaped
  <1>6. pc' \in {"merge", "reconcile"}
    BY <1>1
  <1> HIDE DEF verdict
  <1>7. Shaped'
    BY <1>2, <1>5 DEF IInv, Shaped
  <1>8. EverywhereKept' /\ ReadsAreOld'
    BY <1>2, <1>5 DEF IInv, EverywhereKept, ReadsAreOld, Kept, Unique, Filed, NoLedger, Ledger
  <1>9. HeadIsTheBranch' /\ SeenIsTheProposal'
    BY <1>2, <1>4, <1>5, <1>6 DEF IInv, HeadIsTheBranch, SeenIsTheProposal, Additive
  <1>10. Answered'
    BY <1>2, <1>5, <1>6 DEF IInv, Answered
  <1> QED
    BY <1>7, <1>8, <1>9, <1>10 DEF IInv

\* The branch is merged: by the run, which has checked it, or by a person.
LEMMA MergeStep ==
    ASSUME IInv, MergeInto(branch), ~Conflict(branch), Additive(branch), pull = "open",
           DOMAIN run' = DOMAIN run, run'.payload = run.payload, run'.clone = run.clone,
           run'.tip = run.tip, run'.seen = run.seen, run'.head = run.head,
           run'.waiting = run.waiting, ~run'.failed => ~run.failed,
           pc' = pc \/ (pc = "merge" /\ pc' = "reconcile")
    PROVE  IInv' /\ Grows
  <1>1. canonical' = Merged(branch) /\ pull' = "none" /\ branch' = NoCommit /\ UNCHANGED <<admitted, proposal>>
    BY DEF MergeInto, unchangedExchange
  <1>2. /\ DOMAIN canonical' = {"wagers", "settled"}
        /\ canonical.wagers \subseteq canonical'.wagers /\ canonical.settled \subseteq canonical'.settled
        /\ canonical'.settled = canonical.settled \/ canonical'.settled = branch.tree.settled
        /\ branch.tree.settled \subseteq canonical'.settled
    BY <1>1, MergeOfAddition DEF IInv, ReadsAreOld
  <1>3. Shaped'
    BY <1>1, <1>2 DEF IInv, Shaped, NoCommit
  <1>4. EverywhereKept'
    BY <1>1, <1>2 DEF IInv, EverywhereKept, Kept, Unique, Filed, NoCommit, NoLedger, Ledger
  <1>5. ReadsAreOld'
    BY <1>1, <1>2 DEF IInv, ReadsAreOld, NoCommit, NoLedger, Ledger
  <1>6. HeadIsTheBranch' /\ SeenIsTheProposal'
    BY <1>1 DEF IInv, HeadIsTheBranch, SeenIsTheProposal, NoCommit
  <1>7. Answered'
    BY <1>1, <1>2 DEF IInv, Answered
  <1> QED
    BY <1>2, <1>3, <1>4, <1>5, <1>6, <1>7 DEF IInv, Grows

LEMMA ProposalMerges ==
    ASSUME IInv, MergeProposal PROVE IInv' /\ Grows
  <1>1. /\ canonical' = [canonical EXCEPT !.wagers =
                            @ \cup {r \in proposal.rows : r.key \notin KeysOf(canonical.wagers)}]
        /\ proposal' = NoProposal /\ UNCHANGED <<branch, pull, admitted, pc, run>>
    BY DEF MergeProposal, unchangedExchange, unchangedRun
  <1>2. /\ DOMAIN canonical' = DOMAIN canonical /\ canonical'.settled = canonical.settled
        /\ canonical.wagers \subseteq canonical'.wagers
    BY <1>1 DEF IInv, Shaped
  <1>3. Shaped' /\ ReadsAreOld'
    BY <1>1, <1>2 DEF IInv, Shaped, ReadsAreOld, NoProposal
  <1>4. EverywhereKept'
    BY <1>1, <1>2 DEF IInv, EverywhereKept, Kept, Unique, Filed
  <1>5. HeadIsTheBranch' /\ SeenIsTheProposal'
    BY <1>1 DEF IInv, HeadIsTheBranch, SeenIsTheProposal, NoProposal, Additive
  <1>6. Answered'
    BY <1>1, <1>2 DEF IInv, Answered
  <1> QED
    BY <1>2, <1>3, <1>4, <1>5, <1>6 DEF IInv, Grows

LEMMA InductiveStep ==
    ASSUME IInv, [Next]_vars PROVE IInv' /\ Grows
  <1>1. CASE MergeProposal
    BY <1>1, ProposalMerges
  <1>2. CASE PersonMerges
    <2>1. /\ pc' = pc /\ run' = run /\ Additive(branch) /\ pull = "open"
          /\ ~Conflict(branch) /\ MergeInto(branch)
      BY <1>2 DEF PersonMerges, unchangedRun, Additive
    <2> QED
      BY <2>1, MergeStep
  <1>3. CASE MergeLands
    <2>1. /\ Additive(branch) /\ pc = "merge" /\ pc' = "reconcile" /\ pull = "open"
          /\ ~Conflict(branch) /\ MergeInto(branch)
      BY <1>3 DEF MergeLands, IInv, HeadIsTheBranch
    <2>2. run' = run \/ run' = [run EXCEPT !.failed = TRUE]
      BY <1>3 DEF MergeLands
    <2>3. /\ DOMAIN run' = DOMAIN run /\ run'.payload = run.payload /\ run'.clone = run.clone
          /\ run'.tip = run.tip /\ run'.seen = run.seen /\ run'.head = run.head
          /\ run'.waiting = run.waiting
          /\ ~run'.failed => ~run.failed
      BY <2>2 DEF IInv, Shaped
    <2> QED
      BY <2>1, <2>3, MergeStep
  <1>4. CASE ~(MergeProposal \/ PersonMerges \/ MergeLands)
    <2>1. UNCHANGED canonical /\ Grows
      BY <1>4 DEF Next, RunStep, Trouble, World, vars, Grows, StartRun, Clone, FetchTip, FetchProposal,
         FetchProposalFails, ReadProposal, ReadPull, ReadPullFails, CheckParents, Push, OpenPull,
         EvaluateGate, EvaluateUnknown, Evaluate, MergeRefused, Reconcile, RunDies, SettleMarket,
         AdmitOrder, ProposeWager, PersonWithdrawsProposal, PersonAmendsProposal, unchangedWorld
    <2>2. CASE UNCHANGED vars
      <3>1. UNCHANGED <<canonical, branch, pull, pc, run, admitted, proposal>>
        BY <2>2 DEF vars
      <3> QED
        BY <2>1, <3>1, QuietStep DEF IInv, Shaped, SeenIsTheProposal
    <2>3. CASE World
      <3>1. UNCHANGED <<canonical, branch, pull, pc, run>>
        BY <1>4, <2>3 DEF World, SettleMarket, AdmitOrder, ProposeWager, PersonWithdrawsProposal,
           PersonAmendsProposal, unchangedExchange, unchangedRun
      <3>2. admitted' \subseteq Keys
        BY <1>4, <2>3 DEF World, SettleMarket, AdmitOrder, ProposeWager, PersonWithdrawsProposal,
           PersonAmendsProposal, unchangedExchange, IInv, Shaped
      <3>3. \/ UNCHANGED proposal \/ proposal' = NoProposal
            \/ DOMAIN proposal' = DOMAIN proposal /\ proposal'.id # run.seen.id
        <4>1. ASSUME NEW k \in Keys, ProposeWager(k) \/ PersonAmendsProposal(k)
              PROVE  DOMAIN proposal' = DOMAIN proposal /\ proposal'.id # run.seen.id
          <5>1. CASE ProposeWager(k)
            <6>1. PICK id, rows :
                        id \in FreshId({proposal.id, run.seen.id}) /\ proposal' = [id |-> id, rows |-> rows, pull |-> "open"]
              BY <5>1 DEF ProposeWager
            <6> QED
              BY <6>1 DEF FreshId, IInv, Shaped
          <5>2. CASE PersonAmendsProposal(k)
            <6>1. PICK id, rows :
                        id \in FreshId({proposal.id, run.seen.id}) /\ proposal' = [proposal EXCEPT !.id = id, !.rows = rows]
              BY <5>2 DEF PersonAmendsProposal
            <6> QED
              BY <6>1 DEF FreshId, IInv, Shaped
          <5> QED
            BY <4>1, <5>1, <5>2
        <4> QED
          BY <1>4, <2>3, <4>1 DEF World, SettleMarket, AdmitOrder, PersonWithdrawsProposal, unchangedExchange
      <3>4. SeenIsTheProposal' /\ DOMAIN proposal' = DOMAIN proposal
        BY <3>1, <3>3 DEF IInv, SeenIsTheProposal, Shaped, NoProposal
      <3> QED
        BY <2>1, <3>1, <3>2, <3>4, QuietStep
    <2>4. CASE RunStep \/ Trouble
      <3>1. CASE StartRun \/ Clone \/ FetchTip
        <4>1. SeenIsTheProposal'
          BY <3>1 DEF StartRun, Clone, FetchTip, NoRun, SeenIsTheProposal, unchangedWorld, IInv, Shaped
        <4> QED
          BY <2>1, <3>1, <4>1, ReadStep
      <3>2. CASE FetchProposal \/ FetchProposalFails
        <4>1. PICK found : ReadProposal(found) /\ (found.id # 0 => found.id = proposal.id /\ found.rows = proposal.rows)
          <5>1. CASE FetchProposal
            BY <5>1 DEF FetchProposal
          <5>2. CASE FetchProposalFails
            BY <5>2 DEF FetchProposalFails, NoRun
          <5> QED
            BY <3>2, <5>1, <5>2
        <4>2. SeenIsTheProposal'
          BY <4>1 DEF ReadProposal, SeenIsTheProposal, unchangedWorld, IInv, Shaped
        <4> QED
          BY <2>1, <4>1, <4>2, ReadStep
      <3>3. CASE ReadPull \/ ReadPullFails
        <4>1. PICK known : CheckParents(known)
          BY <3>3 DEF ReadPull, ReadPullFails
        <4> DEFINE ready == {row \in run.payload : ~Waits(row.key, known)}
        <4>2. (EndRun(TRUE) \/ Import(ready)) /\ unchangedWorld /\ ready \subseteq run.payload
          BY <4>1 DEF CheckParents
        <4> HIDE DEF ready
        <4> QED
          BY <2>1, <4>2, RunEnds, ImportStep
      <3>4. CASE Push
        BY <2>1, <3>4, PushStep
      <3>5. CASE OpenPull
        BY <2>1, <3>5, OpenPullStep
      <3>6. CASE EvaluateGate \/ EvaluateUnknown
        BY <2>1, <3>6, EvaluateStep DEF EvaluateGate, EvaluateUnknown
      <3>7. CASE MergeRefused
        <4>1. /\ UNCHANGED <<canonical, branch, pull, admitted, proposal>>
              /\ pc' = "reconcile" /\ run' = [run EXCEPT !.failed = TRUE]
          BY <3>7 DEF MergeRefused, unchangedWorld, unchangedExchange
        <4>2. /\ DOMAIN run' = DOMAIN run /\ run'.payload = run.payload /\ run'.clone = run.clone
              /\ run'.tip = run.tip /\ run'.seen = run.seen /\ run'.head = run.head /\ run'.failed
          BY <4>1 DEF IInv, Shaped
        <4>3. Shaped' /\ EverywhereKept' /\ ReadsAreOld'
          BY <4>1, <4>2 DEF IInv, Shaped, EverywhereKept, ReadsAreOld, Kept
        <4>4. HeadIsTheBranch' /\ SeenIsTheProposal' /\ Answered'
          BY <4>1, <4>2 DEF IInv, HeadIsTheBranch, SeenIsTheProposal, Answered
        <4> QED
          BY <2>1, <4>3, <4>4 DEF IInv
      <3>8. CASE Reconcile \/ RunDies
        <4>1. PICK failed : EndRun(failed) /\ unchangedWorld
          BY <3>8 DEF Reconcile, RunDies
        <4> QED
          BY <2>1, <4>1, RunEnds
      <3> QED
        BY <1>4, <2>4, <3>1, <3>2, <3>3, <3>4, <3>5, <3>6, <3>7, <3>8 DEF RunStep, Trouble
    <2> QED
      BY <2>2, <2>3, <2>4 DEF Next
  <1> QED
    BY <1>1, <1>2, <1>3, <1>4

LEMMA Inductive == Spec => []IInv
  <1>1. Init => IInv
    BY InitIsInductive
  <1>2. IInv /\ [Next]_vars => IInv'
    BY InductiveStep
  <1> QED
    BY <1>1, <1>2, PTL DEF Spec

---------------------------------------------------------------------------
(* What follows.                                                           *)

\* No settlement is on the ledger twice or without its wager, however wager
\* and settlement runs, people and failures interleave.
THEOREM NothingIsOrphaned == Spec => []NoOrphan
  <1>1. IInv => NoOrphan
    BY DEF IInv, EverywhereKept, Kept, Unique, Filed, NoOrphan
  <1> QED
    BY <1>1, Inductive, PTL

\* No step takes a wager or a settlement off the ledger branch: the gate's
\* append-only answer, given before the merge, still holds at the merge.
THEOREM NothingIsTakenBack == Spec => LedgerOnlyGrows
  <1>1. IInv /\ [Next]_vars =>
          [canonical.wagers \subseteq canonical'.wagers /\ canonical.settled \subseteq canonical'.settled]_vars
    BY InductiveStep DEF Grows
  <1> QED
    BY <1>1, Inductive, PTL DEF Spec, LedgerOnlyGrows

\* A settlement a run withholds has its wager on the proposal that is open in
\* that very state, although the rows were read in an earlier one.
THEOREM WithheldIsOnTheProposal == Spec => WithheldWaitsForItsWager
  <1> DEFINE Withheld ==
        (pc = "parents" /\ pc' # pc) =>
           \A k \in run'.waiting :
              proposal.pull = "open" /\ [key |-> k, same |-> TRUE] \in proposal.rows
  <1>1. ASSUME IInv, CheckParents(TRUE) \/ CheckParents(FALSE) PROVE Withheld
    <2>1. PICK known : CheckParents(known)
      BY <1>1
    <2> DEFINE ready == {row \in run.payload : ~Waits(row.key, known)}
    <2>2. EndRun(TRUE) \/ Import(ready)
      BY <2>1 DEF CheckParents
    <2>3. run'.waiting = {} \/ run'.waiting = KeysOf(run.payload \ ready)
      <3>1. CASE EndRun(TRUE)
        BY <3>1 DEF EndRun, NoRun
      <3>2. CASE Import(ready)
        <4> DEFINE receipts == Receipts(ready)
                   new == {row \in ready : receipts[row.key] = "NEW"}
                   tree == Ledger(run.clone.wagers, run.clone.settled \cup new)
                   Goes(head, failed) ==
                     run' = [run EXCEPT !.receipts = receipts, !.head = head, !.failed = failed,
                                        !.clone = NoLedger, !.tip = NoLedger, !.seen = NoRun.seen,
                                        !.waiting = KeysOf(run.payload \ ready)]
        <4>1. \/ Goes(NoCommit, RefusedSome(receipts)) \/ EndRun(TRUE)
              \/ Goes([id |-> 0, base |-> run.tip, tree |-> tree], RefusedSome(receipts) \/ ~Sound(tree))
          BY <3>2 DEF Import
        <4>2. ASSUME NEW head, NEW failed, Goes(head, failed)
              PROVE  run'.waiting = KeysOf(run.payload \ ready)
          BY <1>1, <4>2 DEF IInv, Shaped
        <4> QED
          BY <3>1, <4>1, <4>2
      <3> QED
        BY <2>2, <3>1, <3>2
    <2>4. ASSUME NEW k \in run'.waiting
          PROVE  proposal.pull = "open" /\ [key |-> k, same |-> TRUE] \in proposal.rows
      <3>1. Waits(k, known)
        BY <2>3 DEF KeysOf
      <3>2. /\ run.seen.id # 0 /\ proposal.pull = "open" /\ proposal.id = run.seen.id
            /\ [key |-> k, same |-> TRUE] \in run.seen.rows
        BY <3>1 DEF Waits, ProposalIsValid
      <3> QED
        BY <1>1, <3>2 DEF IInv, SeenIsTheProposal
    <2> QED
      BY <2>4
  <1>2. ASSUME IInv, [Next]_vars, pc = "parents", pc' # pc
        PROVE  CheckParents(TRUE) \/ CheckParents(FALSE) \/ RunDies
    BY <1>2 DEF Next, RunStep, Trouble, World, vars, StartRun, Clone, FetchTip, FetchProposal,
       FetchProposalFails, ReadProposal, ReadPull, ReadPullFails, Push, OpenPull, EvaluateGate,
       EvaluateUnknown, Evaluate, MergeLands, MergeRefused, Reconcile, SettleMarket, AdmitOrder,
       ProposeWager, MergeProposal, PersonMerges, PersonWithdrawsProposal, PersonAmendsProposal, unchangedRun
  <1>3. ASSUME RunDies PROVE Withheld
    BY <1>3 DEF RunDies, EndRun, NoRun
  <1>4. IInv /\ [Next]_vars => [Withheld]_vars
    BY <1>1, <1>2, <1>3
  <1> QED
    BY <1>4, Inductive, PTL DEF Spec, WithheldWaitsForItsWager

\* A run that ends green has answered every settlement of its payload, even
\* when a person merged or a wager landed in the middle of it.
THEOREM GreenIsSettled == Spec => GreenMeansSettled
  <1> DEFINE Green ==
        (pc = "reconcile" /\ pc' = "idle" /\ outcome' = "green") =>
           \A row \in run.payload :
              \/ row \in canonical.settled
              \/ row \in branch.tree.settled /\ pull # "none"
              \/ row.key \in run.waiting
  <1>1. ASSUME IInv, [Next]_vars, pc = "reconcile", pc' = "idle", outcome' = "green"
        PROVE  ~run.failed
    <2>1. Reconcile \/ RunDies
      BY <1>1 DEF Next, RunStep, Trouble, World, vars, StartRun, Clone, FetchTip, FetchProposal,
         FetchProposalFails, ReadProposal, ReadPull, ReadPullFails, CheckParents, Push, OpenPull, EvaluateGate,
         EvaluateUnknown, Evaluate, MergeLands, MergeRefused, SettleMarket, AdmitOrder,
         ProposeWager, MergeProposal, PersonMerges, PersonWithdrawsProposal, PersonAmendsProposal, unchangedRun
    <2> QED
      BY <1>1, <2>1 DEF Reconcile, RunDies, EndRun
  <1>2. IInv /\ [Next]_vars => [Green]_vars
    BY <1>1 DEF IInv, Answered
  <1> QED
    BY <1>2, Inductive, PTL DEF Spec, GreenMeansSettled

---------------------------------------------------------------------------
(* Profit is cash: a settlement with an established net was computed in a  *)
(* batch whose entry fees are the fee the exchange states, and so was      *)
(* every other one on its market, although each came from a run of its     *)
(* own: of their batches, one includes the others.                         *)

\* Every settlement that is on file, proposed or about to be.
Copies ==
    canonical.settled \cup branch.tree.settled \cup run.clone.settled
        \cup run.head.tree.settled \cup run.payload

Established(m) == {r \in Copies : r.key \in OrdersOn(m) /\ r.net # Absent}

\* What an order's contract paid less its stake.
Profit(k) == {g - Stake(k) : g \in Gross(k)}

\* The batch the established settlements on m are explained by.
Explains(batch, m) ==
    /\ market[m] # Unsettled /\ FeeReconciled(batch, m)
    /\ \A r \in Established(m) : r.key \in batch /\ r.net = Profit(r.key)

EveryNetIsExplained ==
    /\ market \in [Markets -> Statement \cup {Unsettled}]
    /\ \A m \in Markets :
          Established(m) = {} \/ \E batch \in SUBSET admitted : Explains(batch, m)

\* A step copies settlements about; only a new run's payload brings new ones.
LEMMA RowsComeFromPayloads ==
    ASSUME IInv, [Next]_vars
    PROVE  Copies' \subseteq Copies \cup Payload(admitted)
  <1>1. CASE PersonMerges \/ MergeLands
    <2>1. /\ canonical' = Merged(branch) /\ branch' = NoCommit
          /\ run'.clone = run.clone /\ run'.head = run.head /\ run'.payload = run.payload
      <3>1. CASE PersonMerges
        BY <3>1 DEF PersonMerges, MergeInto, unchangedRun
      <3>2. CASE MergeLands
        BY <3>2 DEF MergeLands, MergeInto, IInv, Shaped
      <3> QED
        BY <1>1, <3>1, <3>2
    <2>2. canonical'.settled \subseteq canonical.settled \cup branch.tree.settled
      BY <2>1 DEF Merged, Ledger, Added
    <2>3. branch'.tree.settled = {}
      BY <2>1 DEF NoCommit, NoLedger, Ledger
    <2> QED
      BY <2>1, <2>2, <2>3 DEF Copies
  <1>2. CASE UNCHANGED vars \/ (World /\ ~PersonMerges)
    <2>1. canonical'.settled = canonical.settled /\ branch' = branch /\ run' = run
      <3>1. CASE UNCHANGED vars
        BY <3>1 DEF vars
      <3>2. CASE MergeProposal
        BY <3>2 DEF MergeProposal, unchangedRun, IInv, Shaped
      <3>3. CASE World /\ ~PersonMerges /\ ~MergeProposal
        BY <3>3 DEF World, SettleMarket, AdmitOrder, ProposeWager, PersonWithdrawsProposal,
           PersonAmendsProposal, unchangedRun
      <3> QED
        BY <1>2, <3>1, <3>2, <3>3
    <2> QED
      BY <2>1 DEF Copies
  <1>3. CASE Push
    <2>1. PICK id : branch' = [run.head EXCEPT !.id = id] /\ run' = [run EXCEPT !.head.id = id]
      BY <1>3 DEF Push
    <2>2. /\ branch'.tree = run.head.tree /\ run'.head.tree = run.head.tree
          /\ run'.payload = run.payload /\ run'.clone = run.clone /\ canonical' = canonical
      BY <1>3, <2>1 DEF Push, IInv, Shaped
    <2> QED
      BY <2>2 DEF Copies
  <1>4. CASE EvaluateGate \/ EvaluateUnknown
    <2>1. PICK failed : run' = [run EXCEPT !.failed = failed, !.head.base = NoLedger, !.head.tree = NoLedger]
      BY <1>4 DEF EvaluateGate, EvaluateUnknown, Evaluate
    <2>2. /\ run'.head.tree = NoLedger
          /\ run'.payload = run.payload /\ run'.clone = run.clone
      BY <2>1 DEF IInv, Shaped
    <2>3. canonical' = canonical /\ branch' = branch
      BY <1>4 DEF EvaluateGate, EvaluateUnknown, Evaluate, unchangedWorld
    <2> QED
      BY <2>2, <2>3 DEF Copies, NoLedger, Ledger
  <1>5. CASE StartRun \/ Clone \/ FetchTip \/ FetchProposal \/ FetchProposalFails
               \/ OpenPull \/ MergeRefused \/ Reconcile \/ RunDies
    <2>1. canonical' = canonical /\ branch' = branch
      BY <1>5 DEF StartRun, Clone, FetchTip, FetchProposal, FetchProposalFails, ReadProposal,
         OpenPull, MergeRefused, Reconcile, RunDies, unchangedWorld
    <2>2. /\ run'.payload \in {run.payload, Payload(admitted), {}}
          /\ run'.clone \in {run.clone, canonical, NoLedger}
          /\ run'.head \in {run.head, NoCommit}
      <3>1. CASE StartRun
        BY <3>1 DEF StartRun, NoRun
      <3>2. CASE Clone \/ FetchTip \/ MergeRefused
        BY <3>2 DEF Clone, FetchTip, MergeRefused, IInv, Shaped
      <3>3. CASE FetchProposal \/ FetchProposalFails \/ OpenPull
        BY <3>3 DEF FetchProposal, FetchProposalFails, ReadProposal, OpenPull, IInv, Shaped
      <3>4. CASE Reconcile \/ RunDies
        BY <3>4 DEF Reconcile, RunDies, EndRun, NoRun
      <3> QED
        BY <1>5, <3>1, <3>2, <3>3, <3>4
    <2> QED
      BY <2>1, <2>2 DEF Copies, NoCommit, NoLedger, Ledger
  <1>6. CASE ReadPull \/ ReadPullFails
    <2>1. PICK known : CheckParents(known)
      BY <1>6 DEF ReadPull, ReadPullFails
    <2> DEFINE ready == {row \in run.payload : ~Waits(row.key, known)}
               receipts == Receipts(ready)
               new == {row \in ready : receipts[row.key] = "NEW"}
               tree == Ledger(run.clone.wagers, run.clone.settled \cup new)
               Goes(head) ==
                 \E failed :
                   run' = [run EXCEPT !.receipts = receipts, !.head = head, !.failed = failed,
                                      !.clone = NoLedger, !.tip = NoLedger, !.seen = NoRun.seen,
                                      !.waiting = KeysOf(run.payload \ ready)]
    <2>2. canonical' = canonical /\ branch' = branch
      BY <2>1 DEF CheckParents, unchangedWorld
    <2>3. \/ EndRun(TRUE) \/ Goes(NoCommit)
          \/ Goes([id |-> 0, base |-> run.tip, tree |-> tree])
      BY <2>1 DEF CheckParents, Import
    <2>4. tree.settled \subseteq run.clone.settled \cup run.payload
      BY DEF Ledger
    <2> HIDE DEF ready, receipts, new, tree
    <2>5. CASE EndRun(TRUE)
      BY <2>2, <2>5 DEF EndRun, Copies, NoRun, NoCommit, NoLedger, Ledger
    <2>6. ASSUME NEW head, Goes(head)
          PROVE  run'.payload = run.payload /\ run'.clone = NoLedger /\ run'.head = head
      BY <2>6 DEF IInv, Shaped
    <2> HIDE DEF Goes
    <2>7. CASE Goes(NoCommit)
      BY <2>2, <2>6, <2>7 DEF Copies, NoCommit, NoLedger, Ledger
    <2>8. CASE Goes([id |-> 0, base |-> run.tip, tree |-> tree])
      BY <2>2, <2>4, <2>6, <2>8 DEF Copies, NoLedger, Ledger
    <2> QED
      BY <2>3, <2>5, <2>7, <2>8
  <1> QED
    BY <1>1, <1>2, <1>3, <1>4, <1>5, <1>6 DEF Next, RunStep, Trouble, World

\* The exchange states a market's settlement once, and the filter admits more.
LEMMA WorldMoves ==
    ASSUME [Next]_vars, market \in [Markets -> Statement \cup {Unsettled}]
    PROVE  /\ market' \in [Markets -> Statement \cup {Unsettled}]
           /\ \A m \in Markets : market'[m] = market[m] \/ market[m] = Unsettled
           /\ admitted \subseteq admitted'
  <1>1. CASE \E m \in Markets : SettleMarket(m)
    <2>0. PICK m \in Markets : SettleMarket(m)
      BY <1>1
    <2>1. PICK s \in Statements[m] :
              market[m] = Unsettled /\ market' = [market EXCEPT ![m] = s] /\ admitted' = admitted
      BY <2>0 DEF SettleMarket
    <2>2. s \in Statement
      BY StatementsAreStatements
    <2> QED
      BY <2>1, <2>2
  <1>2. CASE \E k \in Keys : AdmitOrder(k)
    BY <1>2 DEF AdmitOrder
  <1>3. CASE ~(\E m \in Markets : SettleMarket(m)) /\ ~(\E k \in Keys : AdmitOrder(k))
    <2>1. market' = market /\ admitted' = admitted
      BY <1>3 DEF Next, RunStep, Trouble, World, vars, StartRun, Clone, FetchTip, FetchProposal,
         FetchProposalFails, ReadProposal, ReadPull, ReadPullFails, CheckParents, Push, OpenPull,
         EvaluateGate, EvaluateUnknown, Evaluate, MergeLands, MergeRefused, MergeInto, Reconcile, RunDies,
         ProposeWager, MergeProposal, PersonMerges, PersonWithdrawsProposal, PersonAmendsProposal,
         unchangedWorld, unchangedExchange
    <2> QED
      BY <2>1
  <1> QED
    BY <1>1, <1>2, <1>3

\* What a payload says is established is what its own batch explains.
LEMMA PayloadIsExplained ==
    ASSUME NEW batch, batch \subseteq Keys, NEW r \in Payload(batch), NEW m, r.key \in OrdersOn(m), r.net # Absent
    PROVE  /\ market[m] # Unsettled /\ FeeReconciled(batch, m) /\ r.key \in batch
           /\ r.net = Profit(r.key)
  <1>1. PICK k \in batch : r = SettledRow(batch, k) /\ market[MarketOf[k]] # Unsettled
    BY DEF Payload
  <1>2. r.key = k /\ r.net = Net(batch, k)
    BY <1>1 DEF SettledRow
  <1>3. MarketOf[k] = m
    BY <1>2 DEF OrdersOn
  <1> QED
    BY <1>1, <1>2, <1>3 DEF Net, Profit

\* The statement of a market is all that its orders' money depends on.
LEMMA MoneyIsTheMarkets ==
    ASSUME NEW m, market'[m] = market[m]
    PROVE  /\ \A batch : FeeReconciled(batch, m)' <=> FeeReconciled(batch, m)
           /\ \A k \in OrdersOn(m) : Profit(k)' = Profit(k)
  <1>1. FeeCost(m)' = FeeCost(m)
    BY DEF FeeCost
  <1>2. ASSUME NEW batch PROVE FeeReconciled(batch, m)' <=> FeeReconciled(batch, m)
    BY <1>1 DEF FeeReconciled, MarketEntryFees
  <1>3. ASSUME NEW k \in OrdersOn(m) PROVE Profit(k)' = Profit(k)
    <2>1. Gross(k)' = Gross(k)
      BY DEF OrdersOn, Gross
    <2> QED
      BY <2>1 DEF Profit, Stake
  <1> QED
    BY <1>2, <1>3

LEMMA NetsStayExplained ==
    ASSUME IInv, EveryNetIsExplained, [Next]_vars
    PROVE  EveryNetIsExplained'
  <1>1. /\ market' \in [Markets -> Statement \cup {Unsettled}]
        /\ \A m \in Markets : market'[m] = market[m] \/ market[m] = Unsettled
        /\ admitted \subseteq admitted' /\ admitted \subseteq Keys
    BY WorldMoves DEF EveryNetIsExplained, IInv, Shaped
  <1>2. ASSUME NEW m \in Markets, Established(m)' # {}
        PROVE  \E batch \in SUBSET admitted' : Explains(batch, m)'
    <2>1. \A r \in Established(m)' :
              r \in Established(m) \/ (r \in Payload(admitted) /\ r.key \in OrdersOn(m) /\ r.net # Absent)
      BY RowsComeFromPayloads DEF Established, OrdersOn
    <2>2. Established(m) = {} \/ \E batch \in SUBSET admitted : Explains(batch, m)
      BY DEF EveryNetIsExplained
    <2>3. market[m] # Unsettled
      BY <1>1, <1>2, <2>1, <2>2, PayloadIsExplained DEF Explains
    <2>4. market'[m] = market[m]
      BY <1>1, <2>3
    <2>5. ASSUME NEW batch \in SUBSET admitted, FeeReconciled(batch, m),
                 \A r \in Established(m)' : r.key \in batch /\ r.net = Profit(r.key)
          PROVE  Explains(batch, m)'
      <3>1. FeeReconciled(batch, m)'
        BY <2>4, <2>5, MoneyIsTheMarkets
      <3>2. ASSUME NEW r \in Established(m)'
            PROVE  r.key \in batch /\ r.net = Profit(r.key)'
        <4>1. r.key \in OrdersOn(m)
          BY <2>1 DEF Established
        <4>2. Profit(r.key)' = Profit(r.key)
          BY <2>4, <4>1, MoneyIsTheMarkets
        <4> QED
          BY <2>5, <4>2
      <3> QED
        BY <2>3, <2>4, <3>1, <3>2 DEF Explains
    <2>6. CASE \E r \in Established(m)' : r \notin Established(m)
      <3>1. FeeReconciled(admitted, m)
        BY <1>1, <2>1, <2>6, PayloadIsExplained
      <3>2. ASSUME NEW r \in Established(m)'
            PROVE  r.key \in admitted /\ r.net = Profit(r.key)
        <4>1. CASE r \in Established(m)
          BY <2>2, <4>1 DEF Explains
        <4>2. CASE r \in Payload(admitted) /\ r.key \in OrdersOn(m) /\ r.net # Absent
          BY <1>1, <4>2, PayloadIsExplained
        <4> QED
          BY <2>1, <4>1, <4>2
      <3>3. PICK all \in SUBSET admitted : all = admitted
        OBVIOUS
      <3>4. Explains(all, m)'
        BY <2>5, <3>1, <3>2, <3>3
      <3> QED
        BY <1>1, <3>4
    <2>7. CASE \A r \in Established(m)' : r \in Established(m)
      <3>1. PICK batch \in SUBSET admitted : Explains(batch, m)
        BY <1>2, <2>2, <2>7
      <3>2. Explains(batch, m)'
        BY <2>5, <2>7, <3>1 DEF Explains
      <3> QED
        BY <1>1, <3>2
    <2> QED
      BY <2>6, <2>7
  <1> QED
    BY <1>1, <1>2 DEF EveryNetIsExplained

LEMMA InitIsExplained ==
    ASSUME Init PROVE EveryNetIsExplained
  <1>1. Copies = {}
    BY DEF Init, Copies, NoLedger, Ledger, NoCommit, NoRun
  <1>2. market \in [Markets -> Statement \cup {Unsettled}]
    BY DEF Init
  <1> QED
    BY <1>1, <1>2 DEF EveryNetIsExplained, Established

LEMMA NetsAreExplained == Spec => [](IInv /\ EveryNetIsExplained)
  <1>1. EveryNetIsExplained /\ IInv /\ [Next]_vars => EveryNetIsExplained'
    BY NetsStayExplained
  <1>2. Init => EveryNetIsExplained
    BY InitIsExplained
  <1> QED
    BY <1>1, <1>2, Inductive, PTL DEF Spec

\* An order with an established net was paid one amount, and its net is that
\* amount less its stake.
LEMMA PaidAndNet ==
    ASSUME EveryNetIsExplained, NEW m \in Markets, NEW k \in OrdersOn(m),
           Profit(k) # Absent
    PROVE  Min(Gross(k)) \in Int /\ Min(Profit(k)) = Min(Gross(k)) - Stake(k)
  <1>1. MarketOf[k] = m
    BY DEF OrdersOn
  <1>2. Gross(k) # {}
    BY DEF Profit, Absent
  <1>3. PICK p \in 0..100 : market[m].price = {p}
    <2>1. market[m].price # {}
      BY <1>1, <1>2 DEF Gross
    <2>2. market[m] \in Statement \cup {Unsettled}
      BY DEF EveryNetIsExplained
    <2>3. market[m].price \in Stated(0..100)
      <3>1. CASE market[m] \in Statement
        BY <3>1 DEF Statement
      <3>2. CASE market[m] = Unsettled
        BY <2>1, <3>2 DEF Unsettled, Absent
      <3> QED
        BY <2>2, <3>1, <3>2
    <2> QED
      BY <2>1, <2>3 DEF Stated, Absent
  <1> DEFINE g == IF Side[k] = "YES" THEN p ELSE 100 - p
  <1>4. Gross(k) = {g} /\ g \in Int
    BY <1>1, <1>3 DEF Gross
  <1>5. Stake(k) \in Int
    BY OrdersAreOrders DEF OrdersOn, Stake
  <1> HIDE DEF g
  <1>6. Profit(k) = {g - Stake(k)} /\ g - Stake(k) \in Int
    BY <1>4, <1>5 DEF Profit
  <1>7. \A n \in Int : Min({n}) = n
    BY DEF Min
  <1> QED
    BY <1>4, <1>6, <1>7

\* The profits on the ledger are the account's cash, for any orders, stakes
\* and fees, although their settlements came from runs that knew of different
\* orders: no fee is charged twice, and none is forgotten.
THEOREM ProfitsAreCash == Spec => []ProfitIsCash
  <1>1. ASSUME EveryNetIsExplained PROVE ProfitIsCash
    <2> SUFFICES ASSUME NEW m \in Markets,
                        NEW rows, rows = {r \in canonical.settled : MarketOf[r.key] = m /\ r.net # Absent},
                        NEW paid, paid = [k \in OrdersOn(m) |-> Min(Gross(k))],
                        NEW net, net = [k \in OrdersOn(m) |-> Min(UNION {r.net : r \in {x \in rows : x.key = k}})],
                        NEW fee, fee = SumOver(paid, OrdersOn(m)) - SumOver(Principal, OrdersOn(m)) - SumOver(net, OrdersOn(m)),
                        rows # {}, KeysOf(rows) = OrdersOn(m)
                 PROVE  FeeCost(m) = {fee} \/ (FeeCost(m) = Absent /\ fee = 0)
      BY DEF ProfitIsCash
    <2>1. \A r \in rows : r \in Established(m)
      BY DEF Established, Copies, KeysOf
    <2>2. PICK batch \in SUBSET admitted : Explains(batch, m)
      BY <1>1, <2>1 DEF EveryNetIsExplained
    <2>3. OrdersOn(m) \subseteq batch
      BY <2>1, <2>2 DEF Explains, KeysOf
    <2>4. MarketEntryFees(batch, m) = SumOver(EntryFee, OrdersOn(m))
      <3>1. OrdersOn(m) \cap batch = OrdersOn(m)
        BY <2>3
      <3> QED
        BY <3>1 DEF MarketEntryFees
    <2>5. OrdersOn(m) \subseteq Keys /\ IsFiniteSet(OrdersOn(m))
      BY OrdersAreOrders, FS_Subset DEF OrdersOn
    <2>6. ASSUME NEW k \in OrdersOn(m)
          PROVE  paid[k] \in Int /\ net[k] = paid[k] - Stake(k)
      <3>1. PICK r \in rows : r.key = k
        BY DEF KeysOf
      <3>2. \A x \in rows : x.key = k => x.net = Profit(k)
        BY <2>1, <2>2 DEF Explains
      <3>3. UNION {x.net : x \in {y \in rows : y.key = k}} = Profit(k)
        BY <3>1, <3>2
      <3>4. Profit(k) # Absent
        BY <3>1, <3>2
      <3>5. Min(Gross(k)) \in Int /\ Min(Profit(k)) = Min(Gross(k)) - Stake(k)
        BY <1>1, <3>4, PaidAndNet
      <3>6. net[k] = Min(Profit(k)) /\ paid[k] = Min(Gross(k))
        BY <3>3
      <3> QED
        BY <3>5, <3>6
    <2> DEFINE stakes == [k \in OrdersOn(m) |-> Stake(k)]
    <2>7. \A k \in OrdersOn(m) : Principal[k] \in Int /\ EntryFee[k] \in Int /\ stakes[k] = Principal[k] + EntryFee[k]
      BY <2>5, OrdersAreOrders DEF Stake
    <2>8. \A k \in OrdersOn(m) : stakes[k] \in Int /\ net[k] \in Int /\ paid[k] = net[k] + stakes[k]
      <3>1. \A k \in OrdersOn(m) : stakes[k] = Stake(k) /\ stakes[k] \in Int
        BY <2>7
      <3> HIDE DEF stakes
      <3> QED
        BY <2>6, <3>1
    <2> HIDE DEF stakes
    <2>9. SumOver(stakes, OrdersOn(m)) = SumOver(Principal, OrdersOn(m)) + SumOver(EntryFee, OrdersOn(m))
      <3>1. \A k \in OrdersOn(m) :
               Principal[k] \in Int /\ EntryFee[k] \in Int /\ stakes[k] = Principal[k] + EntryFee[k]
        BY <2>7
      <3> QED
        BY ONLY <2>5, <3>1, SumOfSums
    <2>10. SumOver(paid, OrdersOn(m)) = SumOver(net, OrdersOn(m)) + SumOver(stakes, OrdersOn(m))
      <3>1. \A k \in OrdersOn(m) :
               net[k] \in Int /\ stakes[k] \in Int /\ paid[k] = net[k] + stakes[k]
        BY <2>8
      <3> QED
        BY ONLY <2>5, <3>1, SumOfSums
    <2>11. /\ SumOver(Principal, OrdersOn(m)) \in Int /\ SumOver(EntryFee, OrdersOn(m)) \in Int
           /\ SumOver(net, OrdersOn(m)) \in Int
      <3>1. SumOver(Principal, OrdersOn(m)) \in Int
        BY <2>5, <2>7, SumIsWhole
      <3>2. SumOver(EntryFee, OrdersOn(m)) \in Int
        BY <2>5, <2>7, SumIsWhole
      <3>3. SumOver(net, OrdersOn(m)) \in Int
        BY <2>5, <2>8, SumIsWhole
      <3> QED
        BY <3>1, <3>2, <3>3
    <2>12. fee = SumOver(EntryFee, OrdersOn(m))
      BY <2>9, <2>10, <2>11
    <2>13. FeeReconciled(batch, m)
      BY <2>2 DEF Explains
    <2> QED
      BY <2>4, <2>12, <2>13 DEF FeeReconciled
  <1> QED
    BY <1>1, NetsAreExplained, PTL
=============================================================================
