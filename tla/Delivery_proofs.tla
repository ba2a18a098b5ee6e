--------------------------- MODULE Delivery_proofs ---------------------------
(***************************************************************************)
(* Proofs about Delivery, for every set of orders, every bound and every   *)
(* kind of destination: the types; then no order is on the ledger twice,   *)
(* and Delivery implements the abstract append-and-grade ledger; then what *)
(* a run may merge, push and report.                                       *)
(***************************************************************************)
EXTENDS Delivery, TLAPS

USE NoKeyIsNoKey, BoundsAreNumbers, FlagsAreBooleans

---------------------------------------------------------------------------
(* Type correctness.                                                       *)

\* The rows a run may read anywhere are rows.
LEMMA FreshRowsAreRows ==
    ASSUME NEW k \in Keys, NEW econ \in 1..MaxEcon, NEW who \in {"router", "person"}
    PROVE  FreshRows(k, econ, who) \subseteq Row
  <1>1. FreshStamps(k) \subseteq 0..MaxStamp
    BY DEF FreshStamps
  <1>2. SUFFICES ASSUME NEW row \in FreshRows(k, econ, who)
                 PROVE  row \in Row
    OBVIOUS
  <1>3. PICK s \in FreshStamps(k) :
           row = [key |-> k, econ |-> econ, stamp |-> s, by |-> who, graded |-> FALSE]
    BY DEF FreshRows
  <1>4. s \in 0..MaxStamp
    BY <1>1
  <1> QED
    BY <1>3, <1>4 DEF Row

LEMMA NoRunIsARun == NoRun \in Run /\ NoCommit \in Commit
  <1>1. NoCommit \in Commit
    BY DEF NoCommit, Commit
  <1>2. [k \in Keys |-> 0] \in [Keys -> 0..MaxEcon]
    OBVIOUS
  <1>3. NoReceipts \in Receipts
    BY DEF NoReceipts, Receipts
  <1> QED
    BY <1>1, <1>2, <1>3 DEF NoRun, Run

\* The new rows of a payload are rows, one for each order the seed lacks.
LEMMA NewRowsAreRows ==
    ASSUME NEW seed \in Commit, NEW payload \in [Keys -> 0..MaxEcon],
           NEW new \in NewRows(seed, payload)
    PROVE  /\ new \subseteq Row
           /\ UniqueKeys(new)
           /\ \A r \in new : OnFile(seed.rows, r.key, r.econ) = {}
  <1> DEFINE fresh == {k \in Keys : ReceiptFor(seed.rows, k, payload[k]) = "NEW"}
             all == UNION {FreshRows(k, payload[k], "router") : k \in fresh}
  <1>1. PICK f \in [fresh -> all] :
              /\ \A k \in fresh : f[k] \in FreshRows(k, payload[k], "router")
              /\ new = {f[k] : k \in fresh}
    BY DEF NewRows
  <1>2. \A k \in fresh : payload[k] \in 1..MaxEcon /\ OnFile(seed.rows, k, payload[k]) = {}
    <2> SUFFICES ASSUME NEW k \in fresh
                 PROVE  payload[k] \in 1..MaxEcon /\ OnFile(seed.rows, k, payload[k]) = {}
      OBVIOUS
    <2>1. ReceiptFor(seed.rows, k, payload[k]) = "NEW"
      OBVIOUS
    <2>2. payload[k] # 0 /\ OnFile(seed.rows, k, payload[k]) = {}
      BY <2>1 DEF ReceiptFor
    <2> QED
      BY <2>2
  <1>3. \A k \in fresh : f[k] \in Row /\ f[k].key = k /\ f[k].econ = payload[k]
    <2> SUFFICES ASSUME NEW k \in fresh
                 PROVE  f[k] \in Row /\ f[k].key = k /\ f[k].econ = payload[k]
      OBVIOUS
    <2>1. f[k] \in FreshRows(k, payload[k], "router")
      BY <1>1
    <2>2. f[k] \in Row
      BY <2>1, <1>2, FreshRowsAreRows
    <2> QED
      BY <2>1, <2>2 DEF FreshRows
  <1> QED
    BY <1>1, <1>2, <1>3 DEF UniqueKeys, OnFile

LEMMA SeedTreeIsACommit ==
    ASSUME NEW remote \in Commit, NEW clone \in [n : Nat, rows : SUBSET Row]
    PROVE  /\ SeedTree(remote, clone) \in Commit
           /\ \/ SeedTree(remote, clone).rows = remote.rows /\ SeedTree(remote, clone).base = remote.base
              \/ SeedTree(remote, clone).rows = clone.rows /\ SeedTree(remote, clone).base = clone.rows
  <1>1. CASE ChooseSeed(remote, clone)
    BY <1>1 DEF SeedTree, Commit
  <1>2. CASE ~ChooseSeed(remote, clone)
    BY <1>2 DEF SeedTree, Commit
  <1> QED
    BY <1>1, <1>2

LEMMA ReceiptsAreReceipts ==
    ASSUME NEW seed \in Commit, NEW payload \in [Keys -> 0..MaxEcon]
    PROVE  [k \in Keys |-> ReceiptFor(seed.rows, k, payload[k])] \in Receipts
  <1>1. \A k \in Keys : ReceiptFor(seed.rows, k, payload[k]) \in
                          ACCEPTED \cup {"CONFLICT", "REFUSED", "none"}
    <2> TAKE k \in Keys
    <2>1. CASE payload[k] = 0
      BY <2>1 DEF ReceiptFor, ACCEPTED
    <2>2. CASE payload[k] # 0 /\ k \in Unrecordable
      BY <2>2 DEF ReceiptFor, ACCEPTED
    <2>3. CASE payload[k] # 0 /\ k \notin Unrecordable /\ OnFile(seed.rows, k, payload[k]) = {}
      BY <2>3 DEF ReceiptFor, ACCEPTED
    <2>4. CASE payload[k] # 0 /\ k \notin Unrecordable /\ OnFile(seed.rows, k, payload[k]) # {}
      BY <2>4 DEF ReceiptFor, ACCEPTED
    <2> QED
      BY <2>1, <2>2, <2>3, <2>4
  <1> QED
    BY <1>1 DEF Receipts

\* Whatever an importer does, it leaves a tree of rows on the seed's base,
\* and, if it never writes an order a second time, one row per order.
LEMMA ImportResultsAreTyped ==
    ASSUME NEW seed \in Commit, NEW payload \in [Keys -> 0..MaxEcon],
           NEW new \in NewRows(seed, payload),
           NEW result \in ImportResults(seed, payload, new)
    PROVE  /\ result.tree \in Commit
           /\ result.receipts \in Receipts
           /\ result.rerunMoved \in BOOLEAN
           /\ result.tree.base = seed.base
           /\ "double" \notin Faults /\ UniqueKeys(seed.rows) => UniqueKeys(result.tree.rows)
  <1> DEFINE clean == [tree |-> [seed EXCEPT !.rows = @ \cup new],
                       receipts |-> [k \in Keys |-> ReceiptFor(seed.rows, k, payload[k])],
                       rerunMoved |-> FALSE]
  <1>1. /\ new \subseteq Row
        /\ UniqueKeys(new)
        /\ \A r \in new : OnFile(seed.rows, r.key, r.econ) = {}
    BY NewRowsAreRows
  <1>2. clean.receipts \in Receipts
    BY ReceiptsAreReceipts
  <1>3. /\ clean.tree \in Commit /\ clean.tree.base = seed.base
        /\ clean.tree.rows = seed.rows \cup new
    BY <1>1 DEF Commit
  <1>4. ASSUME UniqueKeys(seed.rows) PROVE UniqueKeys(seed.rows \cup new)
    BY <1>1, <1>4 DEF UniqueKeys, OnFile
  <1> HIDE DEF clean
  <1>5. CASE result = clean
    BY <1>5, <1>2, <1>3, <1>4 DEF clean
  <1>6. ASSUME NEW r \in seed.rows,
               result = [clean EXCEPT !.tree.rows = (@ \ {r}) \cup {[r EXCEPT !.graded = ~@]}]
        PROVE  /\ result.tree \in Commit /\ result.receipts = clean.receipts
               /\ result.rerunMoved = FALSE /\ result.tree.base = seed.base
               /\ UniqueKeys(seed.rows) => UniqueKeys(result.tree.rows)
    <2> DEFINE r2 == [r EXCEPT !.graded = ~@]
    <2>0. r \in Row
      BY DEF Commit
    <2>1. r \in Row /\ r2 \in Row /\ r2.key = r.key
      BY <2>0 DEF Row
    <2>2. /\ result.tree = [clean.tree EXCEPT !.rows = (@ \ {r}) \cup {r2}]
          /\ result.receipts = clean.receipts /\ result.rerunMoved = FALSE
      BY <1>6 DEF clean
    <2> HIDE DEF r2
    <2>3. result.tree.rows = (clean.tree.rows \ {r}) \cup {r2} /\ result.tree.base = seed.base
      BY <2>2, <1>3 DEF Commit
    <2>4. result.tree \in Commit
      BY <2>1, <2>2, <1>3 DEF Commit
    <2>5. ASSUME UniqueKeys(seed.rows) PROVE UniqueKeys(result.tree.rows)
      BY <2>5, <2>1, <2>3, <1>3, <1>4 DEF UniqueKeys
    <2> QED
      BY <2>2, <2>3, <2>4, <2>5
  <1>7. ASSUME NEW f \in {"side", "stray"}, result = [clean EXCEPT !.tree.files = f]
        PROVE  /\ result.tree \in Commit /\ result.receipts = clean.receipts
               /\ result.rerunMoved = FALSE /\ result.tree.base = seed.base
               /\ UniqueKeys(seed.rows) => UniqueKeys(result.tree.rows)
    <2>1. /\ result.tree = [clean.tree EXCEPT !.files = f]
          /\ result.receipts = clean.receipts /\ result.rerunMoved = FALSE
      BY <1>7 DEF clean
    <2>2. /\ result.tree \in Commit /\ result.tree.base = seed.base
          /\ result.tree.rows = clean.tree.rows
      BY <2>1, <1>3 DEF Commit
    <2> QED
      BY <2>1, <2>2, <1>3, <1>4
  <1>8. ASSUME NEW r \in new,
               result = [clean EXCEPT !.tree.rows = @ \cup {[r EXCEPT !.stamp = 0]},
                                      !.rerunMoved = TRUE]
        PROVE  /\ result.tree \in Commit /\ result.receipts = clean.receipts
               /\ result.rerunMoved = TRUE /\ result.tree.base = seed.base
    <2> DEFINE r2 == [r EXCEPT !.stamp = 0]
    <2>1. r2 \in Row
      BY <1>1 DEF Row
    <2>2. /\ result.tree = [clean.tree EXCEPT !.rows = @ \cup {r2}]
          /\ result.receipts = clean.receipts /\ result.rerunMoved = TRUE
      BY <1>8 DEF clean
    <2> HIDE DEF r2
    <2> QED
      BY <2>1, <2>2, <1>3 DEF Commit
  <1>9. ASSUME NEW r \in new,
               result = [clean EXCEPT !.tree.rows = @ \ {r}, !.receipts[r.key] = "none"]
        PROVE  /\ result.tree \in Commit /\ result.receipts \in Receipts
               /\ result.rerunMoved = FALSE /\ result.tree.base = seed.base
               /\ UniqueKeys(seed.rows) => UniqueKeys(result.tree.rows)
    <2>1. /\ result.tree = [clean.tree EXCEPT !.rows = @ \ {r}]
          /\ result.receipts = [clean.receipts EXCEPT ![r.key] = "none"]
          /\ result.rerunMoved = FALSE
      BY <1>9 DEF clean
    <2>2. result.receipts \in Receipts
      BY <2>1, <1>2 DEF Receipts
    <2>3. /\ result.tree \in Commit /\ result.tree.base = seed.base
          /\ result.tree.rows = (seed.rows \cup new) \ {r}
      BY <2>1, <1>3 DEF Commit
    <2>4. ASSUME UniqueKeys(seed.rows) PROVE UniqueKeys(result.tree.rows)
      BY <2>4, <2>3, <1>4 DEF UniqueKeys
    <2> QED
      BY <2>1, <2>2, <2>3, <2>4
  <1>10. \/ result = clean
         \/ \E r \in seed.rows :
               result = [clean EXCEPT !.tree.rows = (@ \ {r}) \cup {[r EXCEPT !.graded = ~@]}]
         \/ \E f \in {"side", "stray"} : result = [clean EXCEPT !.tree.files = f]
         \/ "double" \in Faults /\ \E r \in new :
               result = [clean EXCEPT !.tree.rows = @ \cup {[r EXCEPT !.stamp = 0]},
                                      !.rerunMoved = TRUE]
         \/ \E r \in new :
               result = [clean EXCEPT !.tree.rows = @ \ {r}, !.receipts[r.key] = "none"]
    BY DEF ImportResults, clean
  <1> QED
    BY <1>2, <1>5, <1>6, <1>7, <1>8, <1>9, <1>10

\* A fresh commit id is an id, and is nobody's.
LEMMA FreshIdsAreFresh ==
    ASSUME NEW id \in FreshIds
    PROVE  id \in 0..MaxIds /\ id # 0 /\ id # branch.id /\ id # run.remote.id /\ id # run.head.id
  BY DEF FreshIds, LiveIds

LEMMA MergedRowsAreRows ==
    ASSUME NEW commit \in Commit, main \in [n : Nat, rows : SUBSET Row]
    PROVE  MergedRows(commit) \subseteq Row
  BY DEF MergedRows, Adds, Removes, Commit

LEMMA InitTypeOK == Init => TypeOK
  BY NoRunIsARun DEF Init, TypeOK, Phases

\* Opening the pull request only adds to the run what its gate's profile says.
LEMMA OpenPullKeeps ==
    ASSUME TypeOK, OpenPull
    PROVE  /\ run' \in Run
           /\ run'.payload = run.payload /\ run'.clone = run.clone /\ run'.remote = run.remote
           /\ run'.seeded = run.seeded /\ run'.tree = run.tree /\ run'.receipts = run.receipts
           /\ run'.rerunMoved = run.rerunMoved /\ run'.head = run.head
           /\ run'.failed = run.failed /\ run'.dry = run.dry
  <1>1. PICK held \in Holds : run' = [run EXCEPT !.held = held]
    BY DEF OpenPull
  <1>2. held \in BOOLEAN
    BY FlagsAreBooleans
  <1> QED
    BY <1>1, <1>2 DEF TypeOK, Run

LEMMA NextTypeOK == TypeOK /\ [Next]_vars => TypeOK'
  <1> SUFFICES ASSUME TypeOK, [Next]_vars
               PROVE  TypeOK'
    OBVIOUS
  <1> USE DEF TypeOK, Phases
  <1>end. ASSUME NEW failed \in BOOLEAN, EndRun(failed)
          PROVE  run' \in Run /\ pc' \in Phases /\ outcome' \in {"none", "green", "red"}
    BY <1>end, NoRunIsARun DEF EndRun
  <1>keep. ASSUME NEW commit \in Commit, Deliver(commit)
           PROVE  run' \in Run
    <2>1. /\ NoRun.clone \in [n : Nat, rows : SUBSET Row] /\ NoCommit \in Commit
          /\ FailedSoFar(run) \in BOOLEAN
      BY NoRunIsARun DEF NoRun, FailedSoFar, Partial, ValidatorRefuses
    <2> HIDE DEF TypeOK
    <2>2. run \in Run
      BY DEF TypeOK
    <2> QED
      BY <1>keep, <2>1, <2>2 DEF Deliver, Run
  <1>seed. ASSUME NEW remote \in Commit, SeedAndImport(remote), glitches' \in 0..MaxGlitches
           PROVE  TypeOK'
    <2> DEFINE seed == SeedTree(remote, run.clone)
    <2>1. seed \in Commit /\ run.payload \in [Keys -> 0..MaxEcon] /\ run \in Run
      BY SeedTreeIsACommit DEF Run
    <2>2. PICK new \in NewRows(seed, run.payload) :
            \E result \in ImportResults(seed, run.payload, new) :
                run' = [run EXCEPT !.remote = remote, !.seeded = ChooseSeed(remote, run.clone),
                                   !.tree = result.tree, !.receipts = result.receipts,
                                   !.rerunMoved = result.rerunMoved]
      BY <1>seed DEF SeedAndImport
    <2>3. PICK result \in ImportResults(seed, run.payload, new) :
                run' = [run EXCEPT !.remote = remote, !.seeded = ChooseSeed(remote, run.clone),
                                   !.tree = result.tree, !.receipts = result.receipts,
                                   !.rerunMoved = result.rerunMoved]
      BY <2>2
    <2> HIDE DEF seed
    <2>4. result.tree \in Commit /\ result.receipts \in Receipts /\ result.rerunMoved \in BOOLEAN
      BY <2>1, ImportResultsAreTyped
    <2>5. ChooseSeed(remote, run.clone) \in BOOLEAN
      BY DEF ChooseSeed
    <2>6. run' \in Run
      BY <2>1, <2>3, <2>4, <2>5 DEF Run
    <2> QED
      BY <2>6, <1>seed DEF SeedAndImport, unchangedWorld
  <1>judge. ASSUME NEW known, NEW conflict, Evaluate(known, conflict), glitches' \in 0..MaxGlitches
            PROVE  TypeOK'
    <2>1. PICK failed \in BOOLEAN, head \in {run.head, NoCommit} :
             run' = [run EXCEPT !.failed = failed, !.head = head]
      BY <1>judge DEF Evaluate, Run
    <2>2. run' \in Run
      <3>1. head \in Commit
        BY NoRunIsARun DEF Run
      <3> QED
        BY <2>1, <3>1 DEF Run
    <2> QED
      BY <2>2, <1>judge DEF Evaluate, unchangedWorld
  <1>land. ASSUME NEW commit \in Commit, MergeInto(commit)
           PROVE  /\ main' \in [n : Nat, rows : SUBSET Row] /\ branch' \in Commit
                  /\ pull' \in {"none", "open", "draft"}
                  /\ ci' \in {"none", "running", "green", "red"} /\ elig' \in [Keys -> 0..MaxEcon]
    BY <1>land, MergedRowsAreRows DEF MergeInto
  <1>glitch. ASSUME Glitch PROVE glitches' \in 0..MaxGlitches
    BY <1>glitch DEF Glitch
  <1>others. ASSUME NEW rows \in SUBSET Row, OthersCommit(rows) PROVE TypeOK'
    <2>1. main' \in [n : Nat, rows : SUBSET Row]
      BY <1>others DEF OthersCommit
    <2>2. /\ branch' = branch /\ pull' = pull /\ ci' = ci /\ elig' = elig
          /\ glitches' = glitches /\ pc' = pc /\ run' = run /\ outcome' = outcome
      BY <1>others DEF OthersCommit, unchangedRun
    <2> QED
      BY <2>1, <2>2, ZenonT(60)
  <1>1. CASE StartRun
    <2>1. run' \in Run
      <3>1. NoRun \in Run /\ elig \in [Keys -> 0..MaxEcon]
        BY NoRunIsARun
      <3>2. PICK dry \in BOOLEAN : run' = [NoRun EXCEPT !.dry = dry, !.payload = elig]
        BY <1>1, FlagsAreBooleans DEF StartRun
      <3> HIDE DEF TypeOK
      <3> QED
        BY <3>1, <3>2, ZenonT(60) DEF Run
    <2> QED
      BY <1>1, <2>1 DEF StartRun, unchangedWorld
  <1>2. CASE Clone
    <2>1. run' \in Run
      BY <1>2 DEF Clone, Run
    <2> QED
      BY <1>2, <2>1 DEF Clone, unchangedWorld
  <1>3. CASE Fetch
    BY <1>3, <1>seed DEF Fetch
  <1>4. CASE SettleStray
    BY <1>4, <1>end DEF SettleStray, unchangedWorld
  <1>5. CASE SettleNothing
    <2>1. FailedSoFar(run) \in BOOLEAN
      BY DEF FailedSoFar, Partial, ValidatorRefuses
    <2>2. run' \in Run /\ pc' \in Phases /\ outcome' \in {"none", "green", "red"}
      BY <1>5, <2>1, <1>end, <1>keep, NoRunIsARun DEF SettleNothing
    <2> QED
      BY <1>5, <2>2 DEF SettleNothing, unchangedWorld
  <1>6. CASE SettleDry
    <2>1. FailedSoFar(run) \in BOOLEAN
      BY DEF FailedSoFar, Partial, ValidatorRefuses
    <2> QED
      BY <1>6, <1>end, <2>1 DEF SettleDry, unchangedWorld
  <1>7. CASE SettleAdopt
    <2>1. run.remote \in Commit
      BY DEF Run
    <2>2. run' \in Run
      BY <1>7, <1>keep, <2>1 DEF SettleAdopt
    <2> QED
      BY <1>7, <2>2 DEF SettleAdopt, unchangedWorld
  <1>8. CASE SettlePush
    <2>1. PICK id \in FreshIds : /\ Deliver([run.tree EXCEPT !.id = id])
                                 /\ branch' = [run.tree EXCEPT !.id = id]
      BY <1>8 DEF SettlePush
    <2>2. [run.tree EXCEPT !.id = id] \in Commit
      BY FreshIdsAreFresh DEF Run, Commit
    <2>3. run' \in Run /\ branch' \in Commit
      BY <2>1, <2>2, <1>keep
    <2> QED
      BY <1>8, <2>3 DEF SettlePush
  <1>9. CASE SettleRefused
    BY <1>9, <1>end DEF SettleRefused, unchangedWorld
  <1>10. CASE OpenPull
    BY <1>10, OpenPullKeeps DEF OpenPull
  <1>11. CASE EvaluateGate
    BY <1>11, <1>judge DEF EvaluateGate
  <1>12. CASE MergeLands
    <2>1. run' \in Run
      <3>1. \/ run' = [run EXCEPT !.head = NoCommit]
            \/ run' = [run EXCEPT !.head = NoCommit, !.failed = TRUE]
        BY <1>12 DEF MergeLands
      <3>2. run \in Run
        OBVIOUS
      <3> HIDE DEF TypeOK
      <3>3. CASE run' = [run EXCEPT !.head = NoCommit]
        BY <3>2, <3>3, NoRunIsARun DEF Run
      <3>4. CASE run' = [run EXCEPT !.head = NoCommit, !.failed = TRUE]
        BY <3>2, <3>4, NoRunIsARun DEF Run
      <3> QED
        BY <3>1, <3>3, <3>4
    <2>2. glitches' \in 0..MaxGlitches
      BY <1>12, <1>glitch DEF MergeLands
    <2>3. MergeInto(branch)
      BY <1>12 DEF MergeLands
    <2> QED
      BY <1>12, <2>1, <2>2, <2>3, <1>land DEF MergeLands
  <1>13. CASE MergeRefused
    <2>1. PICK failed \in BOOLEAN : run' = [run EXCEPT !.head = NoCommit, !.failed = failed]
      BY <1>13 DEF MergeRefused, Run, MergeAllowed
    <2>2. run' \in Run
      BY <2>1, NoRunIsARun DEF Run
    <2> QED
      BY <1>13, <2>2 DEF MergeRefused, unchangedWorld
  <1>14. CASE Reconcile
    <2>1. (run.failed \/ Unaccounted(run) # {}) \in BOOLEAN
      OBVIOUS
    <2> QED
      BY <1>14, <2>1, <1>end DEF Reconcile, unchangedWorld
  <1>15. CASE FetchFails
    BY <1>15, <1>seed, <1>glitch, NoRunIsARun DEF FetchFails
  <1>16. CASE EvaluateUnknown
    BY <1>16, <1>judge, <1>glitch DEF EvaluateUnknown
  <1>17. CASE CallFails
    <2>1. run' \in Run
      BY <1>17, NoRunIsARun DEF CallFails, Run
    <2> QED
      BY <1>17, <2>1, <1>glitch DEF CallFails, unchangedWorld
  <1>18. CASE RunDies
    BY <1>18, <1>end, <1>glitch DEF RunDies, unchangedWorld
  <1>19. CASE PersonMerges
    BY <1>19, <1>land DEF PersonMerges, unchangedRun
  <1>20. CASE PersonCloses \/ PersonDrafts
    BY <1>20 DEF PersonCloses, PersonDrafts, unchangedRun
  <1>21. CASE PersonDeletes
    BY <1>21, NoRunIsARun DEF PersonDeletes, unchangedRun
  <1>22. ASSUME NEW k \in Keys, PersonAmends(k) PROVE TypeOK'
    <2>1. PICK id \in FreshIds, row \in FreshRows(k, 1, "person") :
             branch' = [branch EXCEPT !.id = id, !.rows = @ \cup {row}]
      BY <1>22 DEF PersonAmends
    <2>2. id \in 0..MaxIds /\ row \in Row
      BY FreshIdsAreFresh, FreshRowsAreRows
    <2>3. branch' \in Commit
      BY <2>1, <2>2 DEF Commit
    <2> QED
      BY <1>22, <2>3 DEF PersonAmends, unchangedRun
  <1>23. CASE NoiseCommit
    BY <1>23, <1>others DEF NoiseCommit
  <1>24. CASE CIStart \/ CIFinish \/ CIFail
    BY <1>24 DEF CIStart, CIFinish, CIFail, unchangedRun
  <1>25. ASSUME NEW k \in Keys, PlaceWager(k) PROVE TypeOK'
    BY <1>25 DEF PlaceWager, unchangedRun
  <1>26. ASSUME NEW k \in Keys, RecoveryCommit(k) PROVE TypeOK'
    <2>1. PICK row \in FreshRows(k, elig[k], "router") : OthersCommit(main.rows \cup {row})
      BY <1>26 DEF RecoveryCommit
    <2>2. elig[k] \in 1..MaxEcon
      BY <1>26 DEF RecoveryCommit
    <2>3. row \in Row
      BY <2>2, FreshRowsAreRows
    <2> QED
      BY <2>1, <2>3, <1>others
  <1>27. ASSUME NEW row \in main.rows, GradeCommit(row) PROVE TypeOK'
    <2>1. [row EXCEPT !.graded = TRUE] \in Row
      <3>1. row \in Row
        OBVIOUS
      <3> HIDE DEF TypeOK
      <3> QED
        BY <3>1 DEF Row
    <2> QED
      BY <1>27, <2>1, <1>others DEF GradeCommit
  <1>28. CASE UNCHANGED vars
    BY <1>28 DEF vars
  <1> QED
    BY <1>1, <1>2, <1>3, <1>4, <1>5, <1>6, <1>7, <1>8, <1>9, <1>10, <1>11, <1>12, <1>13, <1>14,
       <1>15, <1>16, <1>17, <1>18, <1>19, <1>20, <1>21, <1>22, <1>23, <1>24, <1>25, <1>26, <1>27,
       <1>28 DEF Next, RunStep, Trouble, People, World

\* Every reachable state of Delivery is well typed, whatever the bounds.
THEOREM TypeCorrect == Spec => []TypeOK
  BY InitTypeOK, NextTypeOK, PTL DEF Spec

---------------------------------------------------------------------------
(* No order is on the ledger twice, and Delivery implements the abstract   *)
(* append-and-grade ledger.  Both rest on one inductive invariant: every   *)
(* set of rows a run or the branch carries holds an order at most once,    *)
(* ids name commits, and a run that is about to merge holds a head that    *)
(* removes nothing.                                                        *)
(*                                                                         *)
(* Assumed: the importer never writes an order a second time ("double" is  *)
(* not among the Faults).  Without it the invariant is false: see the run  *)
(* of OneRowPerKey with that fault.                                        *)

UniqueEverywhere ==
    /\ UniqueKeys(main.rows)
    /\ UniqueKeys(branch.rows)
    /\ UniqueKeys(run.clone.rows)
    /\ UniqueKeys(run.remote.rows)
    /\ UniqueKeys(run.tree.rows)

\* Two commits a run can see that share an id are one commit.
IdsNameCommits ==
    /\ Exists(run.remote) /\ run.remote.id = branch.id => run.remote = branch
    /\ Exists(run.head) /\ run.head.id = branch.id => run.head = branch

\* What is known of the run's head between its push and its merge.
HeadIsKnown ==
    /\ run.seeded => Exists(run.remote)
    /\ pc \in {"pull", "gate", "merge"} => Exists(run.head)
    /\ pc = "merge" => Removes(run.head) = {}

LedgerInv == TypeOK /\ UniqueEverywhere /\ IdsNameCommits /\ HeadIsKnown

---------------------------------------------------------------------------

\* A merge of a commit that removes nothing, when git finds no conflict,
\* keeps every row of main and holds each order once.
LEMMA CleanMergeAppends ==
    ASSUME NEW commit \in Commit, UniqueKeys(main.rows), UniqueKeys(commit.rows),
           Removes(commit) = {}, FALSE \in Conflicts(commit)
    PROVE  /\ main.rows \subseteq MergedRows(commit)
           /\ UniqueKeys(MergedRows(commit))
  <1> DEFINE landed == main.rows \ commit.base
  <1>1. MergedRows(commit) = main.rows \cup (commit.rows \ commit.base)
    BY DEF MergedRows, Adds
  <1>2. commit.base \subseteq commit.rows
    BY DEF Removes
  <1>3. CASE main.rows = commit.base
    BY <1>1, <1>2, <1>3 DEF UniqueKeys
  <1>4. CASE landed = Adds(commit)
    BY <1>1, <1>4 DEF Adds
  <1>5. CASE /\ main.rows # commit.base /\ landed # Adds(commit)
             /\ KeysOf(main.rows) = KeysOf(commit.base)
    <2>1. ASSUME NEW r \in main.rows, NEW s \in commit.rows \ commit.base, r.key = s.key
          PROVE  FALSE
      <3>1. PICK t \in commit.base : t.key = r.key
        BY <1>5, <2>1 DEF KeysOf
      <3> QED
        BY <3>1, <2>1, <1>2 DEF UniqueKeys
    <2> QED
      BY <1>1, <2>1 DEF UniqueKeys
  <1>6. CASE /\ main.rows # commit.base /\ landed # Adds(commit)
             /\ KeysOf(main.rows) # KeysOf(commit.base)
    <2>1. ~ \E r \in landed, s \in Adds(commit) : r.key = s.key /\ r # s
      BY <1>6 DEF Conflicts
    <2>2. ASSUME NEW r \in main.rows, NEW s \in commit.rows \ commit.base, r.key = s.key
          PROVE  r = s
      <3>1. CASE r \in commit.base
        BY <3>1, <2>2, <1>2 DEF UniqueKeys
      <3>2. CASE r \notin commit.base
        BY <3>2, <2>1, <2>2 DEF Adds
      <3> QED
        BY <3>1, <3>2
    <2> QED
      BY <1>1, <2>2 DEF UniqueKeys
  <1> QED
    BY <1>3, <1>4, <1>5, <1>6

\* The gate never says MERGE of a head that takes rows away.
LEMMA GateRemovesNothing ==
    ASSUME NEW known, NEW conflict,
           Gate!Evaluate(FactsOf(run, known, conflict)) = "MERGE"
    PROVE  Removes(run.head) = {}
  <1> DEFINE f == FactsOf(run, known, conflict)
  <1>1. f.removes = (Removes(run.head) # {})
    BY DEF FactsOf
  <1> HIDE DEF f
  <1>2. "refuse" \notin Gate!Answers(f)
    BY DEF Gate!Evaluate, f
  <1>3. Gate!AppendOnly(f) # "refuse"
    BY <1>2 DEF Gate!Answers
  <1>4. ~f.removes
    BY <1>3 DEF Gate!AppendOnly, Gate!Decide3
  <1> QED
    BY <1>1, <1>4

LEMMA InitLedgerInv == Init => LedgerInv
  <1> SUFFICES ASSUME Init PROVE LedgerInv
    OBVIOUS
  <1>1. TypeOK
    BY InitTypeOK
  <1>2. UniqueEverywhere
    BY DEF Init, NoRun, NoCommit, UniqueEverywhere, UniqueKeys
  <1>3. IdsNameCommits /\ HeadIsKnown
    BY DEF Init, NoRun, NoCommit, IdsNameCommits, HeadIsKnown, Exists
  <1> QED
    BY <1>1, <1>2, <1>3 DEF LedgerInv

---------------------------------------------------------------------------
(* What each step does to the ledger branch.                               *)

\* The only two things that ever happen to the ledger's rows.
Appended == main.rows \subseteq main'.rows /\ UniqueKeys(main'.rows)
Graded == \E row \in main.rows :
             ~row.graded /\ main'.rows = (main.rows \ {row}) \cup {[row EXCEPT !.graded = TRUE]}

LEMMA LedgerStep ==
    ASSUME LedgerInv, [Next]_vars
    PROVE  Appended \/ Graded
  <1> USE DEF Appended
  <1>u. UniqueKeys(main.rows) /\ UniqueKeys(branch.rows) /\ branch \in Commit
    BY DEF LedgerInv, UniqueEverywhere, TypeOK
  <1>0. CASE main' = main
    BY <1>0, <1>u
  <1>1. CASE MergeLands
    <2>1. /\ main'.rows = MergedRows(branch)
          /\ FALSE \in Conflicts(branch) /\ branch.id = run.head.id /\ pc = "merge"
      BY <1>1 DEF MergeLands, MergeInto, MergeAllowed
    <2>2. Removes(branch) = {}
      BY <2>1 DEF LedgerInv, HeadIsKnown, IdsNameCommits
    <2> QED
      BY <2>1, <2>2, <1>u, CleanMergeAppends
  <1>2. CASE PersonMerges
    <2>1. /\ main'.rows = MergedRows(branch) /\ Removes(branch) = {} /\ FALSE \in Conflicts(branch)
      BY <1>2 DEF PersonMerges, MergeInto
    <2> QED
      BY <2>1, <1>u, CleanMergeAppends
  <1>3. ASSUME NEW k \in Keys, RecoveryCommit(k) PROVE Appended
    <2>1. PICK row \in FreshRows(k, elig[k], "router") : main'.rows = main.rows \cup {row}
      BY <1>3 DEF RecoveryCommit, OthersCommit
    <2>2. row.key = k
      BY DEF FreshRows
    <2>3. k \notin KeysOf(main.rows)
      BY <1>3 DEF RecoveryCommit
    <2> QED
      BY <2>1, <2>2, <2>3, <1>u DEF UniqueKeys, KeysOf
  <1>4. ASSUME NEW row \in main.rows, GradeCommit(row) PROVE Graded
    BY <1>4 DEF GradeCommit, OthersCommit, Graded
  <1>5. CASE NoiseCommit
    BY <1>5, <1>u DEF NoiseCommit, OthersCommit
  <1>6. CASE \/ StartRun \/ Clone \/ Fetch \/ SettleStray \/ SettleNothing \/ SettleDry
             \/ SettleAdopt \/ SettlePush \/ SettleRefused \/ OpenPull \/ EvaluateGate
             \/ MergeRefused \/ Reconcile \/ Trouble
    BY <1>6, <1>0 DEF StartRun, Clone, Fetch, SeedAndImport, SettleStray, SettleNothing, SettleDry,
       SettleAdopt, SettlePush, SettleRefused, OpenPull, EvaluateGate, Evaluate, MergeRefused,
       Reconcile, Trouble, FetchFails, EvaluateUnknown, CallFails, RunDies, unchangedWorld
  <1>7. CASE \/ PersonCloses \/ PersonDrafts \/ PersonDeletes \/ CIStart \/ CIFinish \/ CIFail
             \/ \E k \in Keys : PersonAmends(k) \/ PlaceWager(k)
    BY <1>7, <1>0 DEF PersonCloses, PersonDrafts, PersonDeletes, CIStart, CIFinish, CIFail,
       PersonAmends, PlaceWager
  <1>8. CASE UNCHANGED vars
    BY <1>8, <1>0 DEF vars
  <1> QED
    BY <1>1, <1>2, <1>3, <1>4, <1>5, <1>6, <1>7, <1>8 DEF Next, RunStep, People, World

\* Grading a row keeps one row per order.
LEMMA GradingKeepsKeys ==
    ASSUME TypeOK, UniqueKeys(main.rows), Graded
    PROVE  UniqueKeys(main'.rows)
  <1>1. PICK row \in main.rows :
           main'.rows = (main.rows \ {row}) \cup {[row EXCEPT !.graded = TRUE]}
    BY DEF Graded
  <1>2. row \in Row
    BY DEF TypeOK
  <1>3. [row EXCEPT !.graded = TRUE].key = row.key
    BY <1>2 DEF Row
  <1> DEFINE graded == [row EXCEPT !.graded = TRUE]
  <1>4. graded.key = row.key /\ main'.rows = (main.rows \ {row}) \cup {graded}
    BY <1>1, <1>3
  <1> HIDE DEF graded
  <1> QED
    BY <1>4 DEF UniqueKeys

---------------------------------------------------------------------------
(* The invariant is inductive.                                             *)

\* The part of it that is about the branch and the run.
Held ==
    /\ UniqueKeys(branch.rows) /\ UniqueKeys(run.clone.rows)
    /\ UniqueKeys(run.remote.rows) /\ UniqueKeys(run.tree.rows)
    /\ IdsNameCommits /\ HeadIsKnown

LEMMA EndingARunHolds ==
    ASSUME Held, NEW failed, EndRun(failed), UNCHANGED branch
    PROVE  Held'
  BY DEF Held, EndRun, NoRun, NoCommit, UniqueKeys, IdsNameCommits, HeadIsKnown, Exists

LEMMA SeedAndImportHolds ==
    ASSUME TypeOK, Held, "double" \notin Faults,
           NEW remote \in {branch, NoCommit}, SeedAndImport(remote)
    PROVE  Held'
  <1> DEFINE seed == SeedTree(remote, run.clone)
  <1>1. /\ remote \in Commit /\ run.clone \in [n : Nat, rows : SUBSET Row]
        /\ run.payload \in [Keys -> 0..MaxEcon] /\ run \in Run
    BY NoRunIsARun DEF TypeOK, Run
  <1>2. UniqueKeys(remote.rows) /\ UniqueKeys(run.clone.rows)
    BY DEF Held, NoCommit, UniqueKeys
  <1>3. seed \in Commit /\ UniqueKeys(seed.rows)
    BY <1>1, <1>2, SeedTreeIsACommit
  <1>4. PICK new \in NewRows(seed, run.payload) :
          \E result \in ImportResults(seed, run.payload, new) :
              run' = [run EXCEPT !.remote = remote, !.seeded = ChooseSeed(remote, run.clone),
                                 !.tree = result.tree, !.receipts = result.receipts,
                                 !.rerunMoved = result.rerunMoved]
    BY DEF SeedAndImport
  <1>5. PICK result \in ImportResults(seed, run.payload, new) :
              run' = [run EXCEPT !.remote = remote, !.seeded = ChooseSeed(remote, run.clone),
                                 !.tree = result.tree, !.receipts = result.receipts,
                                 !.rerunMoved = result.rerunMoved]
    BY <1>4
  <1> HIDE DEF seed
  <1>6. UniqueKeys(result.tree.rows)
    BY <1>1, <1>3, ImportResultsAreTyped
  <1>7. /\ run'.clone = run.clone /\ run'.remote = remote /\ run'.tree = result.tree
        /\ run'.head = run.head /\ run'.seeded = ChooseSeed(remote, run.clone)
        /\ branch' = branch /\ pc' = "settle"
    BY <1>1, <1>5 DEF Run, SeedAndImport, unchangedWorld
  <1>8. UniqueKeys(branch.rows)' /\ UniqueKeys(run.clone.rows)' /\ UniqueKeys(run.remote.rows)'
        /\ UniqueKeys(run.tree.rows)'
    BY <1>2, <1>6, <1>7 DEF Held
  <1>9. IdsNameCommits'
    BY <1>7 DEF Held, IdsNameCommits, NoCommit, Exists
  <1>10. HeadIsKnown'
    BY <1>7 DEF HeadIsKnown, ChooseSeed
  <1> QED
    BY <1>8, <1>9, <1>10 DEF Held

LEMMA DeliverIs ==
    ASSUME TypeOK, NEW head, Deliver(head)
    PROVE  /\ run'.clone.rows = {} /\ run'.remote = NoCommit /\ run'.tree = NoCommit
           /\ run'.seeded = FALSE /\ run'.head = head
  <1>1. run \in Run
    BY DEF TypeOK
  <1> QED
    BY <1>1 DEF Deliver, Run, NoRun

LEMMA DeliveringHolds ==
    ASSUME TypeOK, Held, NEW head, Deliver(head), UniqueKeys(branch'.rows),
           Exists(head) /\ head.id = branch'.id => head = branch',
           \/ Exists(head) /\ pc' = "pull"
           \/ pc' = "reconcile"
    PROVE  Held'
  <1>1. /\ run'.clone.rows = {} /\ run'.remote = NoCommit /\ run'.tree = NoCommit
        /\ run'.seeded = FALSE /\ run'.head = head
    BY DeliverIs
  <1> QED
    BY <1>1 DEF Held, NoCommit, UniqueKeys, IdsNameCommits, HeadIsKnown, Exists

\* Steps that keep the run's commits, or forget its head on the way out.
LEMMA ForgettingTheHeadHolds ==
    ASSUME TypeOK, Held, NEW failed \in BOOLEAN,
           run' = [run EXCEPT !.failed = failed, !.head = NoCommit],
           pc' = "reconcile", UNCHANGED branch
    PROVE  Held'
  <1>1. run \in Run
    BY DEF TypeOK
  <1>2. /\ run'.clone = run.clone /\ run'.remote = run.remote /\ run'.tree = run.tree
        /\ run'.seeded = run.seeded /\ run'.head = NoCommit
    BY <1>1 DEF Run
  <1> QED
    BY <1>2 DEF Held, NoCommit, UniqueKeys, IdsNameCommits, HeadIsKnown, Exists

LEMMA JudgingHolds ==
    ASSUME TypeOK, Held, NEW known, NEW conflict, Evaluate(known, conflict)
    PROVE  Held'
  <1> DEFINE verdict == Gate!Evaluate(FactsOf(run, known, conflict))
             merges == verdict = "MERGE" /\ ~run.held
             failed == run.failed \/ verdict = "REFUSE"
  <1>1. /\ run' = [run EXCEPT !.failed = @ \/ verdict = "REFUSE",
                             !.head = IF merges THEN @ ELSE NoCommit]
        /\ pc' = (IF merges THEN "merge" ELSE "reconcile") /\ pc = "gate" /\ branch' = branch
    BY DEF Evaluate, unchangedWorld
  <1>2. merges => Removes(run.head) = {}
    BY GateRemovesNothing
  <1>3. run \in Run
    BY DEF TypeOK
  <1> HIDE DEF verdict, merges
  <1>4. CASE merges
    <2>1. /\ run'.clone = run.clone /\ run'.remote = run.remote /\ run'.tree = run.tree
          /\ run'.seeded = run.seeded /\ run'.head = run.head /\ pc' = "merge"
      BY <1>1, <1>3, <1>4 DEF Run
    <2> QED
      BY <2>1, <1>1, <1>2, <1>4 DEF Held, IdsNameCommits, HeadIsKnown, Exists
  <1>5. CASE ~merges
    <2>1. run' = [run EXCEPT !.failed = failed, !.head = NoCommit] /\ pc' = "reconcile"
      BY <1>1, <1>5 DEF failed
    <2>2. failed \in BOOLEAN
      BY <1>3 DEF Run, failed
    <2> HIDE DEF failed
    <2> QED
      BY <2>1, <2>2, <1>1, ForgettingTheHeadHolds
  <1> QED
    BY <1>4, <1>5

\* A push: a commit with an id nobody holds, carrying the run's tree.
LEMMA PushHolds ==
    ASSUME TypeOK, Held, SettlePush
    PROVE  Held'
  <1>1. PICK id \in FreshIds :
           Deliver([run.tree EXCEPT !.id = id]) /\ branch' = [run.tree EXCEPT !.id = id]
    BY DEF SettlePush
  <1> DEFINE head == [run.tree EXCEPT !.id = id]
  <1>2. run.tree \in Commit
    BY DEF TypeOK, Run
  <1>3. head.id = id /\ head.rows = run.tree.rows
    BY <1>2 DEF Commit
  <1>4. Deliver(head) /\ branch' = head /\ pc' = "pull"
    BY <1>1 DEF SettlePush
  <1> HIDE DEF head
  <1>5. Exists(head)
    BY <1>3, FreshIdsAreFresh DEF Exists
  <1>6. UniqueKeys(branch'.rows)
    BY <1>3, <1>4 DEF Held, UniqueKeys
  <1> QED
    BY <1>4, <1>5, <1>6, DeliveringHolds

\* A person's commit on the router's branch: a new id, and an order it lacked.
LEMMA AmendingHolds ==
    ASSUME TypeOK, Held, NEW k \in Keys, PersonAmends(k)
    PROVE  Held'
  <1>1. PICK id \in FreshIds, row \in FreshRows(k, 1, "person") :
           branch' = [branch EXCEPT !.id = id, !.rows = @ \cup {row}]
    BY DEF PersonAmends
  <1>2. branch'.id = id /\ branch'.rows = branch.rows \cup {row}
    BY <1>1 DEF TypeOK, Commit
  <1>3. id # run.remote.id /\ id # run.head.id
    BY FreshIdsAreFresh
  <1>4. row.key = k /\ k \notin KeysOf(branch.rows)
    BY DEF FreshRows, PersonAmends
  <1>5. UniqueKeys(branch'.rows)
    BY <1>2, <1>4 DEF Held, UniqueKeys, KeysOf
  <1>6. run' = run /\ pc' = pc
    BY DEF PersonAmends, unchangedRun
  <1> QED
    BY <1>2, <1>3, <1>5, <1>6 DEF Held, IdsNameCommits, HeadIsKnown

\* Every step keeps what is held of the branch and the run.
LEMMA NextHeld ==
    ASSUME TypeOK, UniqueKeys(main.rows), Held, [Next]_vars, "double" \notin Faults
    PROVE  Held'
  <1>run. run \in Run /\ branch \in Commit
    BY DEF TypeOK
  <1>stay. ASSUME UNCHANGED <<branch, run, pc>> PROVE Held'
    BY <1>stay DEF Held, IdsNameCommits, HeadIsKnown
  <1>1. CASE StartRun
    <2>1. PICK dry \in DryRuns : run' = [NoRun EXCEPT !.dry = dry, !.payload = elig]
      BY <1>1 DEF StartRun
    <2>2. /\ run'.clone = NoRun.clone /\ run'.remote = NoCommit /\ run'.tree = NoCommit
          /\ run'.head = NoCommit /\ run'.seeded = FALSE
      BY <2>1 DEF NoRun
    <2>3. branch' = branch /\ pc' = "clone"
      BY <1>1 DEF StartRun, unchangedWorld
    <2> QED
      BY <2>2, <2>3 DEF Held, NoRun, NoCommit, UniqueKeys, IdsNameCommits, HeadIsKnown, Exists
  <1>2. CASE Clone
    <2>1. /\ run'.clone = main /\ run'.remote = run.remote /\ run'.tree = run.tree
          /\ run'.head = run.head /\ run'.seeded = run.seeded
          /\ branch' = branch /\ pc' = "seed"
      BY <1>2, <1>run DEF Clone, Run, unchangedWorld
    <2> QED
      BY <2>1 DEF Held, IdsNameCommits, HeadIsKnown
  <1>3. CASE Fetch
    BY <1>3, SeedAndImportHolds DEF Fetch
  <1>4. CASE FetchFails
    BY <1>4, SeedAndImportHolds DEF FetchFails
  <1>5. CASE SettleStray \/ SettleDry \/ SettleRefused \/ Reconcile \/ RunDies
    <2>1. (\E failed : EndRun(failed)) /\ UNCHANGED branch
      BY <1>5 DEF SettleStray, SettleDry, SettleRefused, Reconcile, RunDies, unchangedWorld
    <2> QED
      BY <2>1, EndingARunHolds
  <1>6. CASE SettleNothing
    <2>1. CASE run.dry
      <3>1. EndRun(FailedSoFar(run)) /\ UNCHANGED branch
        BY <1>6, <2>1 DEF SettleNothing, unchangedWorld
      <3> QED
        BY <3>1, EndingARunHolds
    <2>2. CASE ~run.dry
      <3>1. Deliver(NoCommit) /\ pc' = "reconcile" /\ branch' = branch
        BY <1>6, <2>2 DEF SettleNothing, unchangedWorld
      <3>2. ~Exists(NoCommit) /\ UniqueKeys(branch'.rows)
        BY <3>1 DEF Held, Exists, NoCommit, UniqueKeys
      <3> QED
        BY <3>1, <3>2, DeliveringHolds
    <2> QED
      BY <2>1, <2>2
  <1>7. CASE SettleAdopt
    <2>1. Deliver(run.remote) /\ pc' = "pull" /\ branch' = branch /\ run.seeded
      BY <1>7 DEF SettleAdopt, Adopts, unchangedWorld
    <2>2. Exists(run.remote) /\ UniqueKeys(branch'.rows)
      BY <2>1 DEF Held, HeadIsKnown
    <2>3. run.remote.id = branch'.id => run.remote = branch'
      BY <2>1, <2>2 DEF Held, IdsNameCommits
    <2> QED
      BY <2>1, <2>2, <2>3, DeliveringHolds
  <1>8. CASE SettlePush
    BY <1>8, PushHolds
  <1>9. CASE OpenPull
    BY <1>9, OpenPullKeeps DEF OpenPull, Held, IdsNameCommits, HeadIsKnown
  <1>10. CASE EvaluateGate
    BY <1>10, JudgingHolds DEF EvaluateGate
  <1>11. CASE EvaluateUnknown
    BY <1>11, JudgingHolds DEF EvaluateUnknown
  <1>12. CASE CallFails \/ MergeRefused \/ MergeLands
    <2>1. \E failed \in BOOLEAN : run' = [run EXCEPT !.failed = failed, !.head = NoCommit]
      <3>1. CASE CallFails
        BY <3>1 DEF CallFails
      <3>2. CASE MergeRefused
        <4>1. (run.failed \/ pull # "open" \/ MergeAllowed(run.head)) \in BOOLEAN
          BY <1>run DEF Run, MergeAllowed
        <4> QED
          BY <3>2, <4>1, <1>run DEF MergeRefused, Run
      <3>3. CASE MergeLands
        <4>1. \/ run' = [run EXCEPT !.head = NoCommit]
              \/ run' = [run EXCEPT !.head = NoCommit, !.failed = TRUE]
          BY <3>3 DEF MergeLands
        <4>2. run.failed \in BOOLEAN
          BY <1>run DEF Run
        <4>3. [run EXCEPT !.head = NoCommit] = [run EXCEPT !.failed = run.failed, !.head = NoCommit]
          BY <1>run DEF Run
        <4>4. [run EXCEPT !.head = NoCommit, !.failed = TRUE]
                = [run EXCEPT !.failed = TRUE, !.head = NoCommit]
          BY <1>run DEF Run
        <4> QED
          BY <4>1, <4>2, <4>3, <4>4
      <3> QED
        BY <1>12, <3>1, <3>2, <3>3
    <2>2. pc' = "reconcile" /\ branch' = branch
      BY <1>12 DEF CallFails, MergeRefused, MergeLands, MergeInto, unchangedWorld
    <2> QED
      BY <2>1, <2>2, ForgettingTheHeadHolds
  <1>13. CASE PersonDeletes
    BY <1>13 DEF PersonDeletes, unchangedRun, NoCommit, Held, UniqueKeys, IdsNameCommits,
       HeadIsKnown, Exists
  <1>14. ASSUME NEW k \in Keys, PersonAmends(k) PROVE Held'
    BY <1>14, AmendingHolds
  <1>15. CASE \/ PersonMerges \/ PersonCloses \/ PersonDrafts \/ NoiseCommit
              \/ CIStart \/ CIFinish \/ CIFail
              \/ \E k \in Keys : PlaceWager(k) \/ RecoveryCommit(k)
              \/ \E row \in main.rows : GradeCommit(row)
    <2>1. UNCHANGED <<branch, run, pc>>
      BY <1>15 DEF PersonMerges, MergeInto, PersonCloses, PersonDrafts, NoiseCommit, CIStart,
         CIFinish, CIFail, PlaceWager, RecoveryCommit, GradeCommit, OthersCommit, unchangedRun
    <2> QED
      BY <2>1, <1>stay
  <1>16. CASE UNCHANGED vars
    BY <1>16, <1>stay DEF vars
  <1> QED
    BY <1>1, <1>2, <1>3, <1>4, <1>5, <1>6, <1>7, <1>8, <1>9, <1>10, <1>11, <1>12, <1>13, <1>14,
       <1>15, <1>16 DEF Next, RunStep, Trouble, People, World

LEMMA NextLedgerInv ==
    ASSUME "double" \notin Faults
    PROVE  LedgerInv /\ [Next]_vars => LedgerInv'
  <1> SUFFICES ASSUME LedgerInv, [Next]_vars PROVE LedgerInv'
    OBVIOUS
  <1>1. TypeOK /\ UniqueKeys(main.rows) /\ Held
    BY DEF LedgerInv, UniqueEverywhere, Held
  <1>2. TypeOK'
    BY <1>1, NextTypeOK
  <1>3. UniqueKeys(main'.rows)
    BY <1>1, LedgerStep, GradingKeepsKeys DEF Appended
  <1>4. Held'
    BY <1>1, NextHeld
  <1> QED
    BY <1>2, <1>3, <1>4 DEF LedgerInv, UniqueEverywhere, Held

\* The invariant holds in every reachable state.
LEMMA LedgerInvAlways ==
    ASSUME "double" \notin Faults
    PROVE  Spec => []LedgerInv
  <1>1. LedgerInv /\ [Next]_vars => LedgerInv'
    BY NextLedgerInv
  <1> QED
    BY <1>1, InitLedgerInv, PTL DEF Spec

---------------------------------------------------------------------------

\* No order is ever on the canonical ledger twice, whatever the runs, the
\* rebuilds, the recoveries and the people do, however many there are: provided
\* the importer never writes an order it has on file a second time.
THEOREM LedgerHoldsEachOrderOnce ==
    ASSUME "double" \notin Faults
    PROVE  Spec => []OneRowPerKey
  <1>1. LedgerInv => OneRowPerKey
    BY DEF LedgerInv, UniqueEverywhere, OneRowPerKey
  <1> QED
    BY <1>1, LedgerInvAlways, PTL

\* A step that grows the ledger appends a batch in the abstract sense, and a
\* grade is an abstract grade.
LEMMA LedgerStepIsAbstract ==
    ASSUME LedgerInv, [Next]_vars
    PROVE  [Canonical!Next]_(main.rows)
  <1>1. CASE Appended
    <2> DEFINE batch == main'.rows \ main.rows
    <2>1. CASE batch = {}
      BY <1>1, <2>1 DEF Appended
    <2>2. CASE batch # {}
      <3>1. \A r, s \in batch : r.key = s.key => r = s
        BY <1>1 DEF Appended, UniqueKeys
      <3>2. Canonical!LedgerKeys(batch) \cap Canonical!LedgerKeys(main.rows) = {}
        BY <1>1 DEF Appended, UniqueKeys, Canonical!LedgerKeys
      <3> QED
        BY <1>1, <2>2, <3>1, <3>2 DEF Appended, Canonical!Next, Canonical!Append
    <2> QED
      BY <2>1, <2>2
  <1>2. CASE Graded
    BY <1>2 DEF Graded, Canonical!Next, Canonical!Grade
  <1> QED
    BY <1>1, <1>2, LedgerStep

\* Delivery implements the abstract ledger: no run, race, crash or person
\* removes or rewrites a row that is on it, and whatever lands is new.
THEOREM DeliveryImplementsLedger ==
    ASSUME "double" \notin Faults
    PROVE  Spec => RefinesCanonicalLedger
  <1>1. Init => Canonical!Init
    BY DEF Init, Canonical!Init
  <1>2. LedgerInv /\ [Next]_vars => [Canonical!Next]_(main.rows)
    BY LedgerStepIsAbstract
  <1> QED
    BY <1>1, <1>2, LedgerInvAlways, PTL DEF Spec, RefinesCanonicalLedger, Canonical!Spec

---------------------------------------------------------------------------
(* What a run may merge, push and report.  Four promises of Delivery: only *)
(* the commit that was judged is merged, an unchanged proposal keeps its   *)
(* commit, what is reported as proposed is proposed, and a green run has   *)
(* accounted for every order of its payload.                               *)
(*                                                                         *)
(* They follow an order from the importer's receipt to the tree, from the  *)
(* tree to the head, and from the head to the branch the merge call takes, *)
(* while others commit, amend, merge and close.                            *)

---------------------------------------------------------------------------
(* What an import leaves.                                                  *)

\* The new rows of a payload are those of the orders it has a NEW receipt for.
LEMMA NewRowsAreTheNew ==
    ASSUME NEW seed \in Commit, NEW payload \in [Keys -> 0..MaxEcon],
           NEW new \in NewRows(seed, payload)
    PROVE  /\ \A r \in new : /\ r \in Row /\ r.econ = payload[r.key] /\ r.by = "router"
                             /\ ReceiptFor(seed.rows, r.key, payload[r.key]) = "NEW"
           /\ \A k \in Keys : ReceiptFor(seed.rows, k, payload[k]) = "NEW" =>
                 k \in KeysOf(new)
  <1> DEFINE fresh == {k \in Keys : ReceiptFor(seed.rows, k, payload[k]) = "NEW"}
             all == UNION {FreshRows(k, payload[k], "router") : k \in fresh}
  <1>1. PICK f \in [fresh -> all] :
              /\ \A k \in fresh : f[k] \in FreshRows(k, payload[k], "router")
              /\ new = {f[k] : k \in fresh}
    BY DEF NewRows
  <1>2. \A k \in fresh : f[k].key = k /\ f[k].econ = payload[k] /\ f[k].by = "router"
    BY <1>1 DEF FreshRows
  <1>3. new \subseteq Row
    BY NewRowsAreRows
  <1>4. \A k \in fresh : k \in KeysOf(new)
    BY <1>1, <1>2 DEF KeysOf
  <1> QED
    BY <1>1, <1>2, <1>3, <1>4

ReceiptsOf(seed, payload) == [k \in Keys |-> ReceiptFor(seed.rows, k, payload[k])]
Flipped(r) == [r EXCEPT !.graded = ~@]
Restamped(r) == [r EXCEPT !.stamp = 0]

\* Rows and receipts as an importer leaves them that had these on file.
LeftBy(asked, rows, new, result) ==
    \/ result.receipts = asked /\ result.tree.rows = rows \cup new
    \/ /\ "rewrite" \in Faults /\ result.receipts = asked
       /\ \E r \in rows : result.tree.rows = ((rows \cup new) \ {r}) \cup {Flipped(r)}
    \/ /\ "double" \in Faults /\ result.receipts = asked
       /\ \E r \in new : result.tree.rows = (rows \cup new) \cup {Restamped(r)}
    \/ \E r \in new : /\ result.receipts = [asked EXCEPT ![r.key] = "none"]
                      /\ result.tree.rows = (rows \cup new) \ {r}

\* An import keeps the base and leaves the seed's rows and the new ones, but
\* for a row rewritten, written twice or dropped without a receipt, or files.
LEMMA ImportLeaves ==
    ASSUME NEW seed \in Commit, NEW payload \in [Keys -> 0..MaxEcon],
           NEW new \in NewRows(seed, payload),
           NEW result \in ImportResults(seed, payload, new)
    PROVE  /\ result.tree.base = seed.base /\ result.tree.n = seed.n /\ result.tree.id = seed.id
           /\ result.tree.files # seed.files => result.tree.rows = seed.rows \cup new
           /\ LeftBy(ReceiptsOf(seed, payload), seed.rows, new, result)
  <1> DEFINE grown == [seed EXCEPT !.rows = @ \cup new]
             clean == [tree |-> grown, receipts |-> ReceiptsOf(seed, payload), rerunMoved |-> FALSE]
  <1>1. \/ result = clean
        \/ "rewrite" \in Faults /\ \E r \in seed.rows :
              result = [clean EXCEPT !.tree.rows = (@ \ {r}) \cup {Flipped(r)}]
        \/ \E f \in {"side", "stray"} : result = [clean EXCEPT !.tree.files = f]
        \/ "double" \in Faults /\ \E r \in new :
              result = [clean EXCEPT !.tree.rows = @ \cup {Restamped(r)}, !.rerunMoved = TRUE]
        \/ \E r \in new :
              result = [clean EXCEPT !.tree.rows = @ \ {r}, !.receipts[r.key] = "none"]
    BY DEF ImportResults, ReceiptsOf, Flipped, Restamped
  <1>2. /\ grown.base = seed.base /\ grown.n = seed.n /\ grown.id = seed.id
        /\ grown.files = seed.files /\ grown.rows = seed.rows \cup new /\ grown \in [
             id : 0..MaxIds, n : Nat, base : SUBSET Row, rows : SUBSET (seed.rows \cup new),
             files : {"ledger", "side", "stray"}]
    BY DEF Commit
  <1> HIDE DEF grown
  <1>3. CASE result = clean
    BY <1>2, <1>3 DEF LeftBy
  <1>4. ASSUME "rewrite" \in Faults, NEW r \in seed.rows,
               result = [clean EXCEPT !.tree.rows = (@ \ {r}) \cup {Flipped(r)}]
        PROVE  /\ result.receipts = ReceiptsOf(seed, payload)
               /\ result.tree = [grown EXCEPT !.rows = (@ \ {r}) \cup {Flipped(r)}]
    BY <1>4
  <1>5. ASSUME NEW f \in {"side", "stray"}, result = [clean EXCEPT !.tree.files = f]
        PROVE  /\ result.receipts = ReceiptsOf(seed, payload)
               /\ result.tree = [grown EXCEPT !.files = f]
    BY <1>5
  <1>6. ASSUME NEW r \in new,
               result = [clean EXCEPT !.tree.rows = @ \cup {Restamped(r)}, !.rerunMoved = TRUE]
        PROVE  /\ result.receipts = ReceiptsOf(seed, payload)
               /\ result.tree = [grown EXCEPT !.rows = @ \cup {Restamped(r)}]
    BY <1>6
  <1>7. ASSUME NEW r \in new,
               result = [clean EXCEPT !.tree.rows = @ \ {r}, !.receipts[r.key] = "none"]
        PROVE  /\ result.receipts = [ReceiptsOf(seed, payload) EXCEPT ![r.key] = "none"]
               /\ result.tree = [grown EXCEPT !.rows = @ \ {r}]
    BY <1>7
  <1> HIDE DEF clean
  <1>8. \A rows : LET t == [grown EXCEPT !.rows = rows]
                  IN  t.base = seed.base /\ t.n = seed.n /\ t.id = seed.id
                      /\ t.files = seed.files /\ t.rows = rows
    BY <1>2
  <1>9. \A f : LET t == [grown EXCEPT !.files = f]
               IN  t.base = seed.base /\ t.n = seed.n /\ t.id = seed.id /\ t.rows = seed.rows \cup new
    BY <1>2
  <1>10. ASSUME NEW rows, result.tree = [grown EXCEPT !.rows = rows]
         PROVE  /\ result.tree.base = seed.base /\ result.tree.n = seed.n
                /\ result.tree.id = seed.id /\ result.tree.files = seed.files
                /\ result.tree.rows = rows
    BY <1>8, <1>10
  <1>11. CASE "rewrite" \in Faults /\ \E r \in seed.rows :
                 result = [clean EXCEPT !.tree.rows = (@ \ {r}) \cup {Flipped(r)}]
    <2>1. PICK r \in seed.rows : result = [clean EXCEPT !.tree.rows = (@ \ {r}) \cup {Flipped(r)}]
      BY <1>11
    <2>2. /\ result.receipts = ReceiptsOf(seed, payload)
          /\ result.tree = [grown EXCEPT !.rows = (@ \ {r}) \cup {Flipped(r)}]
      BY <1>4, <1>11, <2>1
    <2>3. /\ result.tree.base = seed.base /\ result.tree.n = seed.n
          /\ result.tree.id = seed.id /\ result.tree.files = seed.files
          /\ result.tree.rows = (grown.rows \ {r}) \cup {Flipped(r)}
      BY <1>10, <2>2
    <2> QED
      BY <1>2, <1>11, <2>2, <2>3 DEF LeftBy
  <1>12. CASE \E f \in {"side", "stray"} : result = [clean EXCEPT !.tree.files = f]
    <2>1. PICK f \in {"side", "stray"} : result = [clean EXCEPT !.tree.files = f]
      BY <1>12
    <2>2. result.receipts = ReceiptsOf(seed, payload) /\ result.tree = [grown EXCEPT !.files = f]
      BY <1>5, <2>1
    <2>3. /\ result.tree.base = seed.base /\ result.tree.n = seed.n /\ result.tree.id = seed.id
          /\ result.tree.rows = seed.rows \cup new
      BY <1>9, <2>2
    <2> QED
      BY <2>2, <2>3 DEF LeftBy
  <1>13. CASE "double" \in Faults /\ \E r \in new :
                 result = [clean EXCEPT !.tree.rows = @ \cup {Restamped(r)}, !.rerunMoved = TRUE]
    <2>1. PICK r \in new : result = [clean EXCEPT !.tree.rows = @ \cup {Restamped(r)},
                                                !.rerunMoved = TRUE]
      BY <1>13
    <2>2. /\ result.receipts = ReceiptsOf(seed, payload)
          /\ result.tree = [grown EXCEPT !.rows = @ \cup {Restamped(r)}]
      BY <1>6, <2>1
    <2>3. /\ result.tree.base = seed.base /\ result.tree.n = seed.n
          /\ result.tree.id = seed.id /\ result.tree.files = seed.files
          /\ result.tree.rows = grown.rows \cup {Restamped(r)}
      BY <1>10, <2>2
    <2> QED
      BY <1>2, <1>13, <2>2, <2>3 DEF LeftBy
  <1>14. CASE \E r \in new :
                 result = [clean EXCEPT !.tree.rows = @ \ {r}, !.receipts[r.key] = "none"]
    <2>1. PICK r \in new : result = [clean EXCEPT !.tree.rows = @ \ {r},
                                                !.receipts[r.key] = "none"]
      BY <1>14
    <2>2. /\ result.receipts = [ReceiptsOf(seed, payload) EXCEPT ![r.key] = "none"]
          /\ result.tree = [grown EXCEPT !.rows = @ \ {r}]
      BY <1>7, <2>1
    <2>3. /\ result.tree.base = seed.base /\ result.tree.n = seed.n
          /\ result.tree.id = seed.id /\ result.tree.files = seed.files
          /\ result.tree.rows = grown.rows \ {r}
      BY <1>10, <2>2
    <2> QED
      BY <1>2, <2>2, <2>3 DEF LeftBy
  <1> QED
    BY <1>1, <1>3, <1>11, <1>12, <1>13, <1>14

\* An accepted order is in the tree, and only at the economics of the payload.
LEMMA ImportIsReceipted ==
    ASSUME NEW seed \in Commit, NEW payload \in [Keys -> 0..MaxEcon],
           NEW new \in NewRows(seed, payload),
           NEW result \in ImportResults(seed, payload, new)
    PROVE  /\ \A r \in result.tree.rows :
                 Accepted(result.receipts[r.key]) => r.econ = payload[r.key]
           /\ \A k \in Keys : Accepted(result.receipts[k]) => k \in KeysOf(result.tree.rows)
  <1> DEFINE asked == ReceiptsOf(seed, payload)
             all == seed.rows \cup new
  <1>1. /\ \A r \in new : r \in Row /\ r.econ = payload[r.key] /\ asked[r.key] = "NEW"
        /\ \A k \in Keys : asked[k] = "NEW" => k \in KeysOf(new)
        /\ seed.rows \subseteq Row
    BY NewRowsAreTheNew DEF ReceiptsOf, Row, Commit
  <1>2. \A r \in all : r \in Row /\ r.key \in Keys
    BY <1>1 DEF Row
  <1>3. \A r \in seed.rows : Accepted(asked[r.key]) => r.econ = payload[r.key]
    <2> TAKE r \in seed.rows
    <2> HAVE Accepted(asked[r.key])
    <2>1. r.key \in Keys /\ r \in OnFile(seed.rows, r.key, payload[r.key])
      BY <1>2 DEF OnFile
    <2>2. ReceiptFor(seed.rows, r.key, payload[r.key]) \in ACCEPTED
      BY <2>1 DEF ReceiptsOf, Accepted
    <2> QED
      BY <2>1, <2>2 DEF ReceiptFor, ACCEPTED
  <1>4. \A k \in Keys : asked[k] = "DUPLICATE_NOOP" => k \in KeysOf(seed.rows)
    <2> TAKE k \in Keys
    <2> HAVE asked[k] = "DUPLICATE_NOOP"
    <2>1. ReceiptFor(seed.rows, k, payload[k]) = "DUPLICATE_NOOP"
      BY DEF ReceiptsOf
    <2>2. OnFile(seed.rows, k, payload[k]) # {}
      BY <2>1 DEF ReceiptFor
    <2> QED
      BY <2>2 DEF OnFile, KeysOf
  <1>5. /\ \A r \in all : Accepted(asked[r.key]) => r.econ = payload[r.key]
        /\ \A k \in Keys : Accepted(asked[k]) => k \in KeysOf(all)
    BY <1>1, <1>3, <1>4 DEF Accepted, ACCEPTED, KeysOf
  <1>6. \A r \in all : /\ Flipped(r).key = r.key /\ Flipped(r).econ = r.econ
                       /\ Restamped(r).key = r.key /\ Restamped(r).econ = r.econ
    BY <1>2 DEF Flipped, Restamped, Row
  <1> HIDE DEF asked
  <1>7. CASE result.receipts = asked /\ result.tree.rows = all
    BY <1>5, <1>7
  <1>8. ASSUME NEW r \in seed.rows, result.receipts = asked,
               result.tree.rows = (all \ {r}) \cup {Flipped(r)}
        PROVE  /\ \A q \in result.tree.rows : \E p \in all : p.key = q.key /\ p.econ = q.econ
               /\ KeysOf(all) \subseteq KeysOf(result.tree.rows)
    BY <1>6, <1>8 DEF KeysOf
  <1>9. ASSUME NEW r \in new, result.receipts = asked,
               result.tree.rows = all \cup {Restamped(r)}
        PROVE  /\ \A q \in result.tree.rows : \E p \in all : p.key = q.key /\ p.econ = q.econ
               /\ KeysOf(all) \subseteq KeysOf(result.tree.rows)
    BY <1>6, <1>9 DEF KeysOf
  <1>10. ASSUME NEW r \in new, result.receipts = [asked EXCEPT ![r.key] = "none"],
                result.tree.rows = all \ {r}
         PROVE  /\ \A q \in result.tree.rows :
                      Accepted(result.receipts[q.key]) => q.econ = payload[q.key]
                /\ \A k \in Keys : Accepted(result.receipts[k]) => k \in KeysOf(result.tree.rows)
    <2>1. /\ r.key \in Keys /\ ~Accepted(result.receipts[r.key])
          /\ \A k \in Keys \ {r.key} : result.receipts[k] = asked[k]
      BY <1>2, <1>10 DEF asked, ReceiptsOf, Accepted, ACCEPTED
    <2>2. \A q \in all : q.key # r.key => q \in result.tree.rows
      BY <1>10
    <2> QED
      BY <1>2, <1>5, <1>10, <2>1, <2>2 DEF KeysOf
  <1>11. LeftBy(asked, seed.rows, new, result)
    BY ImportLeaves DEF asked
  <1>12. ASSUME result.receipts = asked, KeysOf(all) \subseteq KeysOf(result.tree.rows),
                \A q \in result.tree.rows : \E p \in all : p.key = q.key /\ p.econ = q.econ
         PROVE  /\ \A q \in result.tree.rows :
                      Accepted(result.receipts[q.key]) => q.econ = payload[q.key]
                /\ \A k \in Keys : Accepted(result.receipts[k]) => k \in KeysOf(result.tree.rows)
    BY <1>5, <1>12
  <1> QED
    BY <1>7, <1>8, <1>9, <1>10, <1>11, <1>12 DEF LeftBy

---------------------------------------------------------------------------
(* Only what was judged is merged.                                         *)

\* A receipt that accepts an order says what these rows hold of it.
Receipted(rows) == \A r \in rows : Accepted(run.receipts[r.key]) => r.econ = run.payload[r.key]

ReceiptsTell ==
    /\ pc = "settle" => Receipted(run.tree.rows)
    /\ pc \in {"pull", "gate", "merge"} => Receipted(run.head.rows)

\* What the gate has found out about a head it lets through to the merge call.
Judged(head) ==
    /\ Removes(head) = {} /\ head.files = "ledger"
    /\ \A r \in Adds(head) : r.by = "router" /\ Accepted(run.receipts[r.key])
    /\ ~Partial(run) /\ ~run.rerunMoved
    /\ IF RunsCI THEN branch.id = head.id => ci = "green" ELSE Sound(head.rows)

MergeInv ==
    /\ IdsNameCommits /\ HeadIsKnown /\ ReceiptsTell
    /\ pc = "merge" => Judged(run.head)

\* A MERGE passes all twelve conditions.
LEMMA MergePassesAll ==
    ASSUME NEW f, Gate!Evaluate(f) = "MERGE"
    PROVE  /\ ~f.partial /\ DOMAIN f.receipts # {}
           /\ \A r \in Gate!Range(f.receipts) : r.success
           /\ f.rerunTree # "changed"
           /\ "other" \notin f.files /\ ~f.removes
           /\ f.kind = "wagers" => \A row \in f.added :
                 /\ row.batch = "router"
                 /\ Gate!ReceiptKeys(f) # {} => row.key \in Gate!ReceiptKeys(f)
           /\ IF f.runsCI THEN f.checks # {} /\ f.checks \cap {"pending", "failing"} = {}
                          ELSE f.validator \notin {"refused", "unknown"}
  <1>1. "refuse" \notin Gate!Answers(f) /\ "wait" \notin Gate!Answers(f)
    BY DEF Gate!Evaluate
  <1>2. /\ Gate!ImporterRefusedNothing(f) \notin {"refuse", "wait"}
        /\ Gate!Idempotent(f) \notin {"refuse", "wait"}
        /\ Gate!OnlyCanonicalFilesChanged(f) \notin {"refuse", "wait"}
        /\ Gate!AppendOnly(f) \notin {"refuse", "wait"}
        /\ Gate!AddedRowsAreOurs(f) \notin {"refuse", "wait"}
        /\ Gate!ChecksAreGreen(f) \notin {"refuse", "wait"}
    BY <1>1 DEF Gate!Answers
  <1>3. ~f.partial /\ DOMAIN f.receipts # {} /\ \A r \in Gate!Range(f.receipts) : r.success
    BY <1>2 DEF Gate!ImporterRefusedNothing, Gate!Decide3, Gate!NoReceipts
  <1>4. f.rerunTree # "changed"
    BY <1>2 DEF Gate!Idempotent, Gate!Decide3
  <1>5. "other" \notin f.files /\ ~f.removes
    BY <1>2 DEF Gate!OnlyCanonicalFilesChanged, Gate!AppendOnly, Gate!Decide3
  <1>6. ASSUME f.kind = "wagers", NEW row \in f.added
        PROVE  /\ row.batch = "router"
               /\ Gate!ReceiptKeys(f) # {} => row.key \in Gate!ReceiptKeys(f)
    BY <1>2, <1>6 DEF Gate!AddedRowsAreOurs, Gate!Decide3
  <1>7. IF f.runsCI THEN f.checks # {} /\ f.checks \cap {"pending", "failing"} = {}
                    ELSE f.validator \notin {"refused", "unknown"}
    BY <1>2 DEF Gate!ChecksAreGreen, Gate!Decide3
  <1> QED
    BY <1>3, <1>4, <1>5, <1>6, <1>7

LEMMA GateJudges ==
    ASSUME TypeOK, NEW known, NEW conflict,
           Gate!Evaluate(FactsOf(run, known, conflict)) = "MERGE"
    PROVE  Judged(run.head)
  <1> DEFINE f == FactsOf(run, known, conflict)
  <1>1. /\ f.partial = Partial(run) /\ f.kind = "wagers" /\ f.runsCI = RunsCI
        /\ f.receipts = [k \in Offered(run) |-> GateReceipt(k, run.receipts[k])]
        /\ f.rerunTree = (IF run.rerunMoved THEN "changed" ELSE "same")
        /\ f.files = (IF run.head.rows # run.head.base THEN {"ledger"} ELSE {}) \cup
                     (IF run.head.files # "ledger" THEN {"other"} ELSE {})
        /\ f.removes = (Removes(run.head) # {}) /\ f.added = GateRows(run.head)
        /\ f.validator = (IF RunsCI THEN "unknown"
                          ELSE IF Sound(run.head.rows) THEN "accepted" ELSE "refused")
        /\ f.checks = (IF pull # "none" THEN CheckRuns ELSE {})
    BY DEF FactsOf
  <1> HIDE DEF f
  <1>2. /\ ~f.partial /\ DOMAIN f.receipts # {}
        /\ \A r \in Gate!Range(f.receipts) : r.success
        /\ f.rerunTree # "changed"
        /\ "other" \notin f.files /\ ~f.removes
        /\ \A row \in f.added :
              /\ row.batch = "router"
              /\ Gate!ReceiptKeys(f) # {} => row.key \in Gate!ReceiptKeys(f)
        /\ IF RunsCI THEN f.checks # {} /\ f.checks \cap {"pending", "failing"} = {}
                     ELSE f.validator \notin {"refused", "unknown"}
    BY <1>1, MergePassesAll DEF f
  <1>3. ~Partial(run) /\ ~run.rerunMoved /\ Removes(run.head) = {} /\ run.head.files = "ledger"
    BY <1>1, <1>2
  <1>4. Gate!Range(f.receipts) = {GateReceipt(k, run.receipts[k]) : k \in Offered(run)}
    <2>1. DOMAIN f.receipts = Offered(run)
          /\ \A k \in Offered(run) : f.receipts[k] = GateReceipt(k, run.receipts[k])
      BY <1>1
    <2> QED
      BY <2>1, Zenon DEF Gate!Range
  <1>5. Gate!ReceiptKeys(f) = Offered(run)
    <2>1. \A k \in Offered(run) : GateReceipt(k, run.receipts[k]).key = k /\ k # NoKey
      BY NoKeyIsNoKey DEF GateReceipt, Offered
    <2>2. {r.key : r \in {GateReceipt(k, run.receipts[k]) : k \in Offered(run)}} = Offered(run)
      BY <2>1
    <2> QED
      BY <1>4, <2>1, <2>2 DEF Gate!ReceiptKeys
  <1>6. \A k \in Offered(run) : Accepted(run.receipts[k])
    <2> TAKE k \in Offered(run)
    <2>1. GateReceipt(k, run.receipts[k]).success = Accepted(run.receipts[k])
      BY DEF GateReceipt
    <2>2. GateReceipt(k, run.receipts[k]).success
      BY <1>2, <1>4, Zenon
    <2> QED
      BY <2>1, <2>2
  <1>7. Offered(run) # {}
    BY <1>1, <1>2
  <1>8. ASSUME NEW r \in Adds(run.head)
        PROVE  r.by = "router" /\ Accepted(run.receipts[r.key])
    <2>1. [key |-> r.key, named |-> TRUE,
           batch |-> IF r.by = "router" THEN "router" ELSE "absent"] \in f.added
      BY <1>1 DEF GateRows
    <2>2. r.by = "router" /\ r.key \in Gate!ReceiptKeys(f)
      BY <1>2, <1>5, <1>7, <2>1
    <2> QED
      BY <1>5, <1>6, <2>2
  <1>9. IF RunsCI THEN ci = "green" ELSE Sound(run.head.rows)
    BY <1>1, <1>2 DEF CheckRuns, TypeOK
  <1> QED
    BY <1>3, <1>8, <1>9 DEF Judged

\* What the steps of a run leave of its fields.
LEMMA DeliverKeeps ==
    ASSUME TypeOK, NEW head, Deliver(head)
    PROVE  /\ run'.clone.rows = {} /\ run'.remote = NoCommit /\ run'.tree = NoCommit
           /\ run'.seeded = FALSE /\ run'.head = head /\ run'.failed = FailedSoFar(run)
           /\ run'.receipts = run.receipts /\ run'.payload = run.payload
           /\ run'.rerunMoved = run.rerunMoved /\ run'.dry = run.dry
  <1>1. run \in Run
    BY DEF TypeOK
  <1> QED
    BY <1>1 DEF Deliver, Run, NoRun

LEMMA ForgetKeeps ==
    ASSUME TypeOK, NEW failed, run' = [run EXCEPT !.failed = failed, !.head = NoCommit]
    PROVE  /\ run'.clone = run.clone /\ run'.remote = run.remote /\ run'.tree = run.tree
           /\ run'.seeded = run.seeded /\ run'.head = NoCommit /\ run'.failed = failed
           /\ run'.receipts = run.receipts /\ run'.payload = run.payload /\ run'.dry = run.dry
  <1>1. run \in Run
    BY DEF TypeOK
  <1> QED
    BY <1>1 DEF Run

LEMMA StartKeeps ==
    ASSUME StartRun
    PROVE  /\ run'.clone = NoRun.clone /\ run'.remote = NoCommit /\ run'.tree = NoCommit
           /\ run'.seeded = FALSE /\ run'.head = NoCommit /\ run'.receipts = NoReceipts
           /\ run'.payload = elig
           /\ pc' = "clone" /\ UNCHANGED <<main, branch, pull, ci>>
  BY DEF StartRun, NoRun, unchangedWorld

LEMMA CloneKeeps ==
    ASSUME TypeOK, Clone
    PROVE  /\ run'.clone = main /\ run'.remote = run.remote /\ run'.tree = run.tree
           /\ run'.seeded = run.seeded /\ run'.head = run.head
           /\ run'.receipts = run.receipts
           /\ pc = "clone" /\ pc' = "seed" /\ UNCHANGED <<main, branch, pull, ci>>
  <1>1. run \in Run
    BY DEF TypeOK
  <1> QED
    BY <1>1 DEF Clone, Run, unchangedWorld

\* The seed of an import, and what the import left on it.
LEMMA ImportKeeps ==
    ASSUME TypeOK, NEW remote \in {branch, NoCommit}, SeedAndImport(remote)
    PROVE  \E new \in NewRows(SeedTree(remote, run.clone), run.payload) :
             \E result \in ImportResults(SeedTree(remote, run.clone), run.payload, new) :
                /\ SeedTree(remote, run.clone) \in Commit /\ run.payload \in [Keys -> 0..MaxEcon]
                /\ run'.remote = remote /\ run'.seeded = ChooseSeed(remote, run.clone)
                /\ run'.tree = result.tree /\ run'.receipts = result.receipts
                /\ run'.clone = run.clone /\ run'.head = run.head /\ run'.payload = run.payload
                /\ run'.dry = run.dry
                /\ pc = "seed" /\ pc' = "settle" /\ UNCHANGED <<main, branch, pull, ci>>
  <1> DEFINE seed == SeedTree(remote, run.clone)
             After(result) == [run EXCEPT !.remote = remote,
                                          !.seeded = ChooseSeed(remote, run.clone),
                                          !.tree = result.tree, !.receipts = result.receipts,
                                          !.rerunMoved = result.rerunMoved]
  <1>1. /\ remote \in Commit /\ run.clone \in [n : Nat, rows : SUBSET Row]
        /\ run.payload \in [Keys -> 0..MaxEcon] /\ run \in Run
    BY NoRunIsARun DEF TypeOK, Run
  <1>2. seed \in Commit
    BY <1>1, SeedTreeIsACommit
  <1>3. PICK new \in NewRows(seed, run.payload) :
          \E result \in ImportResults(seed, run.payload, new) : run' = After(result)
    BY DEF SeedAndImport
  <1>4. PICK result \in ImportResults(seed, run.payload, new) : run' = After(result)
    BY <1>3
  <1> HIDE DEF seed
  <1>5. /\ run'.remote = remote /\ run'.seeded = ChooseSeed(remote, run.clone)
        /\ run'.tree = result.tree /\ run'.receipts = result.receipts
        /\ run'.clone = run.clone /\ run'.head = run.head /\ run'.payload = run.payload
        /\ run'.dry = run.dry
    BY <1>1, <1>4 DEF Run
  <1>6. pc = "seed" /\ pc' = "settle" /\ UNCHANGED <<main, branch, pull, ci>>
    BY DEF SeedAndImport, unchangedWorld
  <1> QED
    BY <1>1, <1>2, <1>5, <1>6 DEF seed

\* The three ways a run goes on from its tree.
LEMMA SettlingDelivers ==
    ASSUME TypeOK, HeadIsKnown, SettleNothing \/ SettleAdopt \/ SettlePush
    PROVE  \/ EndRun(FailedSoFar(run)) /\ run.dry /\ UNCHANGED <<main, branch, pull, ci>>
           \/ /\ ~run.dry /\ Deliver(NoCommit) /\ pc = "settle" /\ pc' = "reconcile"
              /\ run.tree.rows = run.tree.base /\ UNCHANGED <<main, branch, pull, ci>>
           \/ /\ ~run.dry /\ Deliver(run.remote) /\ pc = "settle" /\ pc' = "pull"
              /\ Exists(run.remote) /\ run.tree.rows = run.remote.rows
              /\ UNCHANGED <<main, branch, pull, ci>>
           \/ /\ ~run.dry /\ ~NothingToDeliver(run) /\ ~Adopts(run) /\ LeaseHolds(run.remote)
              /\ \E head \in Commit : 
                    /\ Deliver(head) /\ branch' = head /\ Exists(head)
                    /\ head.id # run.remote.id /\ head.rows = run.tree.rows
                    /\ head.base = run.tree.base /\ head.files = run.tree.files
              /\ pc = "settle" /\ pc' = "pull" /\ UNCHANGED <<main, pull>>
  <1>1. CASE SettleNothing
    BY <1>1 DEF SettleNothing, Settles, NothingToDeliver, unchangedWorld
  <1>2. CASE SettleAdopt
    <2>1. run.seeded /\ [run.tree EXCEPT !.id = run.remote.id] = run.remote /\ run.tree \in Commit
      BY <1>2 DEF SettleAdopt, Adopts, TypeOK, Run
    <2>2. run.tree.rows = run.remote.rows
      BY <2>1 DEF Commit
    <2> QED
      BY <1>2, <2>1, <2>2 DEF SettleAdopt, Settles, HeadIsKnown, unchangedWorld
  <1>3. CASE SettlePush
    <2>1. PICK id \in FreshIds :
             Deliver([run.tree EXCEPT !.id = id]) /\ branch' = [run.tree EXCEPT !.id = id]
      BY <1>3 DEF SettlePush
    <2> DEFINE head == [run.tree EXCEPT !.id = id]
    <2>2. run.tree \in Commit /\ id \in 0..MaxIds /\ id # 0 /\ id # run.remote.id
      BY FreshIdsAreFresh DEF TypeOK, Run
    <2>3. head \in Commit /\ head.id = id /\ head.rows = run.tree.rows
          /\ head.base = run.tree.base /\ head.files = run.tree.files
      BY <2>2 DEF Commit
    <2>4. Deliver(head) /\ branch' = head
      BY <2>1
    <2> HIDE DEF head
    <2> QED
      BY <1>3, <2>2, <2>3, <2>4 DEF SettlePush, NeedsPush, Settles, Exists
  <1> QED
    BY <1>1, <1>2, <1>3

\* A gate that lets a head through has judged it; otherwise it is forgotten.
LEMMA EvaluateKeeps ==
    ASSUME TypeOK, NEW known, NEW conflict, Evaluate(known, conflict)
    PROVE  /\ pc = "gate" /\ UNCHANGED <<main, branch, pull, ci>>
           /\ \/ pc' = "merge" /\ run' = [run EXCEPT !.failed = run'.failed] /\ Judged(run.head)
                 /\ run'.failed = run.failed
              \/ /\ pc' = "reconcile"
                 /\ \E failed : (run.failed => failed) /\ run' = [run EXCEPT !.failed = failed, !.head = NoCommit]
  <1> DEFINE verdict == Gate!Evaluate(FactsOf(run, known, conflict))
             merges == verdict = "MERGE" /\ ~run.held
             failed == run.failed \/ verdict = "REFUSE"
  <1>1. /\ run' = [run EXCEPT !.failed = @ \/ verdict = "REFUSE",
                             !.head = IF merges THEN @ ELSE NoCommit]
        /\ pc' = (IF merges THEN "merge" ELSE "reconcile") /\ pc = "gate"
        /\ UNCHANGED <<main, branch, pull, ci>>
    BY DEF Evaluate, unchangedWorld
  <1>2. merges => Judged(run.head)
    BY GateJudges
  <1>3. run \in Run
    BY DEF TypeOK
  <1>4. merges => failed = run.failed
    BY <1>3 DEF Run
  <1> HIDE DEF verdict, merges
  <1>5. CASE merges
    <2>1. run' = [run EXCEPT !.failed = run'.failed] /\ run'.failed = run.failed
      BY <1>1, <1>3, <1>4, <1>5 DEF Run, failed
    <2> QED
      BY <1>1, <1>2, <1>5, <2>1
  <1>6. CASE ~merges
    BY <1>1, <1>6
  <1> QED
    BY <1>5, <1>6

\* A call that fails, is refused or lands ends with the head forgotten.
LEMMA CallsForget ==
    ASSUME TypeOK, CallFails \/ MergeRefused \/ MergeLands
    PROVE  /\ pc \in {"gate", "merge"} /\ pc' = "reconcile" /\ UNCHANGED <<branch, ci>>
           /\ \E failed : /\ run.failed => failed
                          /\ run' = [run EXCEPT !.failed = failed, !.head = NoCommit]
  <1>1. run \in Run
    BY DEF TypeOK
  <1>2. CASE CallFails
    BY <1>2 DEF CallFails, unchangedWorld
  <1>3. CASE MergeRefused
    <2> DEFINE failed == run.failed \/ pull # "open" \/ MergeAllowed(run.head)
    <2>1. run' = [run EXCEPT !.failed = failed, !.head = NoCommit]
      BY <1>1, <1>3 DEF MergeRefused, Run
    <2> QED
      BY <1>3, <2>1 DEF MergeRefused, unchangedWorld
  <1>4. CASE MergeLands
    <2>1. \/ run' = [run EXCEPT !.head = NoCommit]
          \/ run' = [run EXCEPT !.head = NoCommit, !.failed = TRUE]
      BY <1>4 DEF MergeLands
    <2>2. [run EXCEPT !.head = NoCommit] = [run EXCEPT !.failed = run.failed, !.head = NoCommit]
      BY <1>1 DEF Run
    <2>3. [run EXCEPT !.head = NoCommit, !.failed = TRUE]
            = [run EXCEPT !.failed = TRUE, !.head = NoCommit]
      BY <1>1 DEF Run
    <2>4. \E failed : /\ run.failed => failed
                      /\ run' = [run EXCEPT !.failed = failed, !.head = NoCommit]
      BY <2>1, <2>2, <2>3
    <2> QED
      BY <1>4, <2>4 DEF MergeLands, MergeInto
  <1> QED
    BY <1>2, <1>3, <1>4

\* What other actors do to the branch, its pull request and its suite.
WorldKeeps ==
    /\ UNCHANGED <<run, pc, branch>>
    /\ ci = "green" => ci' = ci

LEMMA WorldIs ==
    ASSUME \/ PersonMerges \/ PersonCloses \/ PersonDrafts \/ NoiseCommit
           \/ CIStart \/ CIFinish \/ CIFail
           \/ \E k \in Keys : PlaceWager(k) \/ RecoveryCommit(k)
           \/ \E row \in main.rows : GradeCommit(row)
    PROVE  WorldKeeps
  BY DEF WorldKeeps, PersonMerges, MergeInto, PersonCloses, PersonDrafts, NoiseCommit, CIStart,
     CIFinish, CIFail, PlaceWager, RecoveryCommit, GradeCommit, OthersCommit, unchangedRun

LEMMA AmendKeeps ==
    ASSUME TypeOK, NEW k \in Keys, PersonAmends(k)
    PROVE  \E row :
             /\ row.key = k /\ k \notin KeysOf(branch.rows)
             /\ branch'.rows = branch.rows \cup {row} /\ branch'.base = branch.base
             /\ branch'.files = branch.files /\ Exists(branch) /\ Exists(branch')
             /\ branch'.id # run.remote.id /\ branch'.id # run.head.id
             /\ UNCHANGED <<main, pull, run, pc>>
  <1>1. PICK id \in FreshIds, row \in FreshRows(k, 1, "person") :
           branch' = [branch EXCEPT !.id = id, !.rows = @ \cup {row}]
    BY DEF PersonAmends
  <1>2. /\ branch'.id = id /\ branch'.rows = branch.rows \cup {row}
        /\ branch'.base = branch.base /\ branch'.files = branch.files
    BY <1>1 DEF TypeOK, Commit
  <1>3. id # run.remote.id /\ id # run.head.id /\ id # 0
    BY FreshIdsAreFresh
  <1>4. row.key = k
    BY DEF FreshRows
  <1> QED
    BY <1>2, <1>3, <1>4 DEF PersonAmends, unchangedRun, Exists

LEMMA EndingKeepsMergeInv ==
    ASSUME NEW failed, EndRun(failed)
    PROVE  MergeInv'
  <1>1. run'.remote.id = 0 /\ run'.head.id = 0 /\ run'.seeded = FALSE /\ pc' = "idle"
    BY DEF EndRun, NoRun, NoCommit
  <1> QED
    BY <1>1 DEF MergeInv, IdsNameCommits, HeadIsKnown, ReceiptsTell, Exists

LEMMA ImportingKeepsMergeInv ==
    ASSUME TypeOK, MergeInv, NEW remote \in {branch, NoCommit}, SeedAndImport(remote)
    PROVE  MergeInv'
  <1> DEFINE seed == SeedTree(remote, run.clone)
  <1>1. PICK new \in NewRows(seed, run.payload) :
          \E result \in ImportResults(seed, run.payload, new) :
             /\ seed \in Commit /\ run.payload \in [Keys -> 0..MaxEcon]
             /\ run'.remote = remote /\ run'.seeded = ChooseSeed(remote, run.clone)
             /\ run'.tree = result.tree /\ run'.receipts = result.receipts
             /\ run'.head = run.head /\ run'.payload = run.payload
             /\ pc' = "settle" /\ branch' = branch
    BY ImportKeeps
  <1> HIDE DEF seed
  <1>2. PICK result \in ImportResults(seed, run.payload, new) :
             /\ seed \in Commit /\ run.payload \in [Keys -> 0..MaxEcon]
             /\ run'.remote = remote /\ run'.seeded = ChooseSeed(remote, run.clone)
             /\ run'.tree = result.tree /\ run'.receipts = result.receipts
             /\ run'.head = run.head /\ run'.payload = run.payload
             /\ pc' = "settle" /\ branch' = branch
    BY <1>1
  <1>3. \A r \in result.tree.rows : Accepted(result.receipts[r.key]) => r.econ = run.payload[r.key]
    BY <1>2, ImportIsReceipted
  <1>4. ReceiptsTell'
    BY <1>2, <1>3 DEF ReceiptsTell, Receipted
  <1>5. /\ run'.remote = remote /\ run'.seeded = (Exists(remote) /\ ~LedgerMoved(remote, run.clone))
        /\ run'.head = run.head /\ branch' = branch /\ pc' = "settle"
    BY <1>2 DEF ChooseSeed
  <1>6. IdsNameCommits'
    BY <1>5 DEF MergeInv, IdsNameCommits, NoCommit, Exists
  <1>7. HeadIsKnown'
    BY <1>5 DEF HeadIsKnown
  <1> QED
    BY <1>2, <1>4, <1>6, <1>7 DEF MergeInv

LEMMA SettlingKeepsMergeInv ==
    ASSUME TypeOK, MergeInv, SettleNothing \/ SettleAdopt \/ SettlePush
    PROVE  MergeInv'
  <1>1. CASE \E failed : EndRun(failed)
    BY <1>1, EndingKeepsMergeInv
  <1>2. CASE Deliver(NoCommit) /\ pc' = "reconcile"
    <2>0. run'.remote = NoCommit /\ run'.head = NoCommit /\ run'.seeded = FALSE
      BY <1>2, DeliverKeeps
    <2>1. run'.remote.id = 0 /\ run'.head.id = 0 /\ run'.seeded = FALSE
      BY <2>0 DEF NoCommit
    <2> QED
      BY <1>2, <2>1 DEF MergeInv, IdsNameCommits, HeadIsKnown, ReceiptsTell, Exists
  <1>3. ASSUME NEW head, Deliver(head), Exists(head), pc = "settle", pc' = "pull",
               head.rows = run.tree.rows, head.id = branch'.id => head = branch'
        PROVE  MergeInv'
    <2>1. /\ run'.remote = NoCommit /\ run'.seeded = FALSE /\ run'.head = head
          /\ run'.receipts = run.receipts /\ run'.payload = run.payload
      BY <1>3, DeliverKeeps
    <2>2. ReceiptsTell'
      BY <1>3, <2>1 DEF MergeInv, ReceiptsTell, Receipted
    <2>3. IdsNameCommits' /\ HeadIsKnown'
      BY <1>3, <2>1 DEF IdsNameCommits, HeadIsKnown, NoCommit, Exists
    <2> QED
      BY <1>3, <2>2, <2>3 DEF MergeInv
  <1>4. run.remote.id = branch.id /\ Exists(run.remote) => run.remote = branch
    BY DEF MergeInv, IdsNameCommits
  <1>5. HeadIsKnown
    BY DEF MergeInv
  <1> QED
    BY <1>1, <1>2, <1>3, <1>4, <1>5, SettlingDelivers

LEMMA ForgettingKeepsMergeInv ==
    ASSUME TypeOK, MergeInv, NEW failed, run' = [run EXCEPT !.failed = failed, !.head = NoCommit],
           pc' = "reconcile", UNCHANGED branch
    PROVE  MergeInv'
  <1>0. /\ run'.remote = run.remote /\ run'.seeded = run.seeded /\ run'.head = NoCommit
        /\ branch' = branch
    BY ForgetKeeps
  <1>1. /\ run'.remote = run.remote /\ run'.seeded = run.seeded /\ run'.head.id = 0
        /\ branch' = branch
    BY <1>0 DEF NoCommit
  <1> QED
    BY <1>1 DEF MergeInv, IdsNameCommits, HeadIsKnown, ReceiptsTell, Exists

LEMMA JudgingKeepsMergeInv ==
    ASSUME TypeOK, MergeInv, NEW known, NEW conflict, Evaluate(known, conflict)
    PROVE  MergeInv'
  <1>1. CASE pc' = "merge"
    <2>1. /\ run' = [run EXCEPT !.failed = run'.failed] /\ run'.failed = run.failed
          /\ Judged(run.head) /\ pc = "gate"
          /\ UNCHANGED <<branch, ci>>
      BY <1>1, EvaluateKeeps
    <2>2. run' = run
      BY <2>1 DEF TypeOK, Run
    <2> QED
      BY <1>1, <2>1, <2>2 DEF MergeInv, IdsNameCommits, HeadIsKnown, ReceiptsTell, Receipted, Judged,
         Partial, Offered, Sound
  <1>2. CASE pc' # "merge"
    BY <1>2, EvaluateKeeps, ForgettingKeepsMergeInv
  <1> QED
    BY <1>1, <1>2

LEMMA NextMergeInv ==
    ASSUME TypeOK, MergeInv, [Next]_vars
    PROVE  MergeInv'
  <1>stay. ASSUME WorldKeeps PROVE MergeInv'
    <2>1. run' = run /\ pc' = pc /\ branch' = branch /\ (ci = "green" => ci' = "green")
      BY <1>stay DEF WorldKeeps
    <2>2. IdsNameCommits' /\ HeadIsKnown' /\ ReceiptsTell'
      BY <2>1 DEF MergeInv, IdsNameCommits, HeadIsKnown, ReceiptsTell, Receipted, Removes, Exists
    <2>3. Partial(run)' = Partial(run)
      BY <2>1 DEF Partial, Offered
    <2>4. ASSUME Judged(run.head) PROVE Judged(run.head)'
      BY <2>1, <2>3, <2>4 DEF Judged, Removes, Adds, Sound, UniqueKeys
    <2> HIDE DEF Judged
    <2>5. pc = "merge" => Judged(run.head)
      BY DEF MergeInv
    <2>6. pc' = "merge" => Judged(run.head)'
      BY <2>1, <2>4, <2>5
    <2> QED
      BY <2>2, <2>6 DEF MergeInv
  <1>1. CASE StartRun
    <2>1. run'.remote = NoCommit /\ run'.head = NoCommit /\ run'.seeded = FALSE /\ pc' = "clone"
      BY <1>1, StartKeeps
    <2>2. run'.remote.id = 0 /\ run'.head.id = 0
      BY <2>1 DEF NoCommit
    <2> QED
      BY <2>1, <2>2 DEF MergeInv, IdsNameCommits, HeadIsKnown, ReceiptsTell, Exists
  <1>2. CASE Clone
    BY <1>2, CloneKeeps DEF MergeInv, IdsNameCommits, HeadIsKnown, ReceiptsTell
  <1>3. CASE Fetch \/ FetchFails
    BY <1>3, ImportingKeepsMergeInv DEF Fetch, FetchFails
  <1>4. CASE SettleStray \/ SettleDry \/ SettleRefused \/ Reconcile \/ RunDies
    <2>1. \E failed : EndRun(failed)
      BY <1>4 DEF SettleStray, SettleDry, SettleRefused, Reconcile, RunDies
    <2> QED
      BY <2>1, EndingKeepsMergeInv
  <1>5. CASE SettleNothing \/ SettleAdopt \/ SettlePush
    BY <1>5, SettlingKeepsMergeInv
  <1>6. CASE OpenPull
    BY <1>6, OpenPullKeeps DEF OpenPull, MergeInv, IdsNameCommits, HeadIsKnown, ReceiptsTell, Receipted
  <1>7. CASE EvaluateGate \/ EvaluateUnknown
    BY <1>7, JudgingKeepsMergeInv DEF EvaluateGate, EvaluateUnknown
  <1>8. CASE CallFails \/ MergeRefused \/ MergeLands
    BY <1>8, CallsForget, ForgettingKeepsMergeInv
  <1>9. CASE PersonDeletes
    <2>1. branch' = NoCommit /\ run' = run /\ pc' = pc
      BY <1>9 DEF PersonDeletes, unchangedRun
    <2> QED
      BY <2>1 DEF MergeInv, IdsNameCommits, HeadIsKnown, ReceiptsTell, Receipted, Judged, NoCommit,
         Exists, Partial, Offered, Sound
  <1>10. ASSUME NEW k \in Keys, PersonAmends(k) PROVE MergeInv'
    <2>1. /\ branch'.id # run.remote.id /\ branch'.id # run.head.id /\ run' = run /\ pc' = pc
      BY <1>10, AmendKeeps
    <2> QED
      BY <2>1 DEF MergeInv, IdsNameCommits, HeadIsKnown, ReceiptsTell, Receipted, Judged, Partial,
         Offered, Sound
  <1>11. CASE \/ PersonMerges \/ PersonCloses \/ PersonDrafts \/ NoiseCommit
              \/ CIStart \/ CIFinish \/ CIFail
              \/ \E k \in Keys : PlaceWager(k) \/ RecoveryCommit(k)
              \/ \E row \in main.rows : GradeCommit(row)
    BY <1>11, <1>stay, WorldIs
  <1>12. CASE UNCHANGED vars
    BY <1>12, <1>stay DEF vars, WorldKeeps
  <1> QED
    BY <1>1, <1>2, <1>3, <1>4, <1>5, <1>6, <1>7, <1>8, <1>9, <1>10, <1>11, <1>12
       DEF Next, RunStep, Trouble, People, World

LEMMA MergeInvAlways == Spec => [](TypeOK /\ MergeInv)
  <1>1. Init => MergeInv
    BY DEF Init, NoRun, NoCommit, MergeInv, IdsNameCommits, HeadIsKnown, ReceiptsTell, Exists
  <1>2. MergeInv /\ TypeOK /\ [Next]_vars => MergeInv'
    BY NextMergeInv
  <1> QED
    BY <1>1, <1>2, TypeCorrect, PTL DEF Spec

\* What the merge call lands is the very commit this run settled, of router
\* rows only, each receipted at the economics of the payload, with the
\* destination's verdict in (merge_delivery_pr.py: the pinned sha), whatever
\* the importer, other committers and people do in between.
THEOREM OnlyTheJudgedIsMerged == Spec => MergesOnlyWhatItVerified
  <1> DEFINE Lands == (pc = "merge" /\ pc' = "reconcile" /\ main' # main) =>
         /\ branch = run.head
         /\ Removes(branch) = {} /\ branch.files = "ledger"
         /\ \A r \in Adds(branch) :
               /\ r.by = "router"
               /\ Accepted(run.receipts[r.key])
               /\ r.econ = run.payload[r.key]
         /\ ~Partial(run) /\ ~run.rerunMoved
         /\ IF RunsCI THEN ci = "green" ELSE Sound(branch.rows)
  <1>1. TypeOK /\ MergeInv /\ [Next]_vars => [Lands]_vars
    <2> SUFFICES ASSUME TypeOK, MergeInv, Next, pc = "merge", pc' = "reconcile", main' # main
                 PROVE  Lands
      OBVIOUS
    <2>1. MergeLands
      BY DEF Next, RunStep, Trouble, People, World, StartRun, Clone, Fetch, FetchFails, SeedAndImport,
         SettleStray, SettleNothing, SettleDry, SettleAdopt, SettlePush, SettleRefused, NeedsPush,
         Settles, OpenPull, EvaluateGate, EvaluateUnknown, Evaluate, MergeRefused, Reconcile, CallFails,
         RunDies, EndRun, PersonMerges, PersonCloses, PersonDrafts, PersonDeletes, PersonAmends,
         NoiseCommit, CIStart, CIFinish, CIFail, PlaceWager, RecoveryCommit, GradeCommit, OthersCommit,
         unchangedWorld, unchangedRun
    <2>2. branch = run.head /\ Judged(run.head) /\ Receipted(run.head.rows)
      BY <2>1 DEF MergeLands, MergeAllowed, MergeInv, IdsNameCommits, HeadIsKnown, ReceiptsTell
    <2> QED
      BY <2>2 DEF Judged, Receipted, Adds
  <1> QED
    BY <1>1, MergeInvAlways, PTL DEF Spec, MergesOnlyWhatItVerified

---------------------------------------------------------------------------
(* What is accepted is carried: an order the importer accepted is in the   *)
(* tree, then on the branch, then on the branch of an open pull request,   *)
(* until the ledger has it.                                                *)

Kept(rows) == KeysOf(rows) \subseteq KeysOf(main.rows)

BasesAreKept ==
    Kept(branch.base) /\ Kept(run.remote.base) /\ Kept(run.clone.rows) /\ Kept(run.tree.base)

RemoteIsKept ==
    Exists(run.remote) => Exists(branch) /\ KeysOf(run.remote.rows) \subseteq KeysOf(branch.rows)

OnLedger(k) == k \in KeysOf(main.rows)

AcceptedIsCarried ==
    \A k \in Keys : Proposed(run, k) =>
        /\ pc \notin {"clone", "seed"}
        /\ pc = "settle" => k \in KeysOf(run.tree.rows)
        /\ pc = "pull" => OnLedger(k) \/ (k \in KeysOf(branch.rows) /\ Exists(branch))
        /\ pc \in {"gate", "merge", "reconcile"} =>
              OnLedger(k) \/ (k \in KeysOf(branch.rows) /\ pull # "none")

PartialIsFailed == pc \in {"pull", "gate", "merge", "reconcile"} /\ Partial(run) => run.failed

CarriedInv == BasesAreKept /\ RemoteIsKept /\ AcceptedIsCarried /\ PartialIsFailed

\* The ledger and the branch only gain orders; a proposal stays open until
\* its orders are on the ledger.
Carries ==
    /\ KeysOf(main.rows) \subseteq KeysOf(main'.rows)
    /\ KeysOf(branch.rows) \subseteq KeysOf(branch'.rows)
    /\ branch'.base = branch.base
    /\ Exists(branch) => Exists(branch')
    /\ pull # "none" => pull' # "none" \/ KeysOf(branch.rows) \subseteq KeysOf(main'.rows)

\* A step that leaves the run where it is, or between its gate and its end.
LEMMA CarryingKeepsCarriedInv ==
    ASSUME CarriedInv, Carries,
           run'.receipts = run.receipts, run'.clone = run.clone, run'.remote = run.remote,
           run'.tree = run.tree, run.failed => run'.failed,
           pc' = pc \/ {pc, pc'} \subseteq {"gate", "merge", "reconcile"}
    PROVE  CarriedInv'
  <1>1. BasesAreKept' /\ RemoteIsKept'
    BY DEF CarriedInv, BasesAreKept, Kept, RemoteIsKept, Exists, Carries
  <1>2. AcceptedIsCarried'
    <2> SUFFICES ASSUME NEW k \in Keys, Proposed(run, k)'
                 PROVE  /\ pc' \notin {"clone", "seed"}
                        /\ pc' = "settle" => k \in KeysOf(run'.tree.rows)
                        /\ pc' = "pull" => OnLedger(k)' \/ (k \in KeysOf(branch'.rows) /\ Exists(branch'))
                        /\ pc' \in {"gate", "merge", "reconcile"} =>
                              OnLedger(k)' \/ (k \in KeysOf(branch'.rows) /\ pull' # "none")
      BY DEF AcceptedIsCarried, Exists
    <2>1. Proposed(run, k)
      BY DEF Proposed, Accepted
    <2>2. /\ pc \notin {"clone", "seed"}
          /\ pc = "settle" => k \in KeysOf(run.tree.rows)
          /\ pc = "pull" => OnLedger(k) \/ (k \in KeysOf(branch.rows) /\ Exists(branch))
          /\ pc \in {"gate", "merge", "reconcile"} =>
                OnLedger(k) \/ (k \in KeysOf(branch.rows) /\ pull # "none")
      BY <2>1 DEF CarriedInv, AcceptedIsCarried
    <2> QED
      BY <2>2 DEF OnLedger, Carries
  <1>3. PartialIsFailed'
    BY DEF CarriedInv, PartialIsFailed, Partial, Offered
  <1> QED
    BY <1>1, <1>2, <1>3 DEF CarriedInv

\* A merge of a proposal that removes nothing puts all of it on the ledger.
LEMMA MergingCarries ==
    ASSUME Kept(branch.base), Removes(branch) = {}, MergeInto(branch)
    PROVE  Carries
  <1>1. main'.rows = main.rows \cup Adds(branch) /\ UNCHANGED branch
    BY DEF MergeInto, MergedRows
  <1>2. KeysOf(main.rows) \subseteq KeysOf(main'.rows) /\ KeysOf(Adds(branch)) \subseteq KeysOf(main'.rows)
    BY <1>1 DEF KeysOf
  <1>3. KeysOf(branch.rows) \subseteq KeysOf(branch.base) \cup KeysOf(Adds(branch))
    BY DEF KeysOf, Adds
  <1> QED
    BY <1>1, <1>2, <1>3 DEF Carries, Kept

\* Unless a person closes or deletes what the router proposed, others carry.
LEMMA WorldCarries ==
    ASSUME TypeOK, CarriedInv, Others \cap {"close", "delete"} = {}, People \/ World
    PROVE  Carries /\ UNCHANGED <<run, pc>>
  <1>1. CASE PersonMerges
    BY <1>1, MergingCarries DEF PersonMerges, CarriedInv, BasesAreKept, unchangedRun
  <1>2. ASSUME NEW k \in Keys, PersonAmends(k) PROVE Carries /\ UNCHANGED <<run, pc>>
    <2>1. PICK row : /\ branch'.rows = branch.rows \cup {row} /\ branch'.base = branch.base
                     /\ Exists(branch') /\ UNCHANGED <<main, pull, run, pc>>
      BY <1>2, AmendKeeps
    <2> QED
      BY <2>1 DEF Carries, KeysOf
  <1>3. ASSUME NEW k \in Keys, RecoveryCommit(k) PROVE Carries /\ UNCHANGED <<run, pc>>
    <2>0. PICK row \in FreshRows(k, elig[k], "router") : OthersCommit(main.rows \cup {row})
      BY <1>3 DEF RecoveryCommit
    <2>1. main'.rows = main.rows \cup {row} /\ UNCHANGED <<branch, pull, run, pc>>
      BY <2>0 DEF OthersCommit, unchangedRun
    <2> QED
      BY <2>1 DEF Carries, KeysOf
  <1>4. ASSUME NEW row \in main.rows, GradeCommit(row) PROVE Carries /\ UNCHANGED <<run, pc>>
    <2>1. /\ main'.rows = (main.rows \ {row}) \cup {[row EXCEPT !.graded = TRUE]}
          /\ UNCHANGED <<branch, pull, run, pc>>
      BY <1>4 DEF GradeCommit, OthersCommit, unchangedRun
    <2>2. row \in Row
      BY DEF TypeOK
    <2>3. [row EXCEPT !.graded = TRUE].key = row.key
      BY <2>2 DEF Row
    <2>4. KeysOf(main.rows) \subseteq KeysOf(main'.rows)
      BY <2>1, <2>3 DEF KeysOf
    <2> QED
      BY <2>1, <2>4 DEF Carries
  <1>5. CASE NoiseCommit
    BY <1>5 DEF NoiseCommit, OthersCommit, unchangedRun, Carries
  <1>6. CASE PersonDrafts \/ CIStart \/ CIFinish \/ CIFail \/ \E k \in Keys : PlaceWager(k)
    BY <1>6 DEF PersonDrafts, CIStart, CIFinish, CIFail, PlaceWager, unchangedRun, Carries
  <1> QED
    BY <1>1, <1>2, <1>3, <1>4, <1>5, <1>6 DEF People, World, PersonCloses, PersonDeletes

\* A run without receipts vouches for nothing.
LEMMA NoReceiptsCarry ==
    ASSUME CarriedInv, run'.receipts = NoReceipts, UNCHANGED <<main, branch, pull>>,
           run'.clone = NoRun.clone \/ run'.clone = main,
           run'.remote = NoCommit, run'.tree = NoCommit
    PROVE  CarriedInv'
  <1>1. /\ run'.remote.id = 0 /\ run'.remote.base = {} /\ run'.tree.base = {}
        /\ run'.clone.rows \in {{}, main.rows}
    BY DEF NoCommit, NoRun
  <1>2. BasesAreKept' /\ RemoteIsKept'
    BY <1>1 DEF CarriedInv, BasesAreKept, Kept, KeysOf, RemoteIsKept, Exists
  <1>3. \A k \in Keys : ~Accepted(run'.receipts[k])
    BY DEF NoReceipts, Accepted, ACCEPTED
  <1>4. Offered(run)' = {}
    BY DEF Offered, NoReceipts
  <1>5. AcceptedIsCarried' /\ PartialIsFailed'
    BY <1>3, <1>4 DEF AcceptedIsCarried, Proposed, Accepted, PartialIsFailed, Partial
  <1> QED
    BY <1>2, <1>5 DEF CarriedInv

LEMMA EndingKeepsCarriedInv ==
    ASSUME CarriedInv, NEW failed, EndRun(failed), UNCHANGED <<main, branch, pull>>
    PROVE  CarriedInv'
  <1>1. /\ run'.receipts = NoReceipts /\ run'.clone = NoRun.clone
        /\ run'.remote = NoCommit /\ run'.tree = NoCommit
    BY DEF EndRun, NoRun
  <1> QED
    BY <1>1, NoReceiptsCarry

LEMMA ImportingKeepsCarriedInv ==
    ASSUME TypeOK, CarriedInv, NEW remote \in {branch, NoCommit}, SeedAndImport(remote)
    PROVE  CarriedInv'
  <1> DEFINE seed == SeedTree(remote, run.clone)
  <1>1. PICK new \in NewRows(seed, run.payload) :
          \E result \in ImportResults(seed, run.payload, new) :
             /\ seed \in Commit /\ run.payload \in [Keys -> 0..MaxEcon]
             /\ run'.remote = remote
             /\ run'.tree = result.tree /\ run'.receipts = result.receipts
             /\ run'.clone = run.clone
             /\ pc' = "settle" /\ UNCHANGED <<main, branch, pull>>
    BY ImportKeeps
  <1>2. Kept(seed.base)
    BY DEF SeedTree, ChooseSeed, CarriedInv, BasesAreKept, NoCommit, Exists
  <1> HIDE DEF seed
  <1>3. PICK result \in ImportResults(seed, run.payload, new) :
             /\ seed \in Commit /\ run.payload \in [Keys -> 0..MaxEcon]
             /\ run'.remote = remote
             /\ run'.tree = result.tree /\ run'.receipts = result.receipts
             /\ run'.clone = run.clone
             /\ pc' = "settle" /\ UNCHANGED <<main, branch, pull>>
    BY <1>1
  <1>4. /\ result.tree.base = seed.base
        /\ \A k \in Keys : Accepted(result.receipts[k]) => k \in KeysOf(result.tree.rows)
    BY <1>3, ImportLeaves, ImportIsReceipted
  <1>5. NoCommit.id = 0 /\ NoCommit.base = {} /\ KeysOf({}) = {}
    BY DEF NoCommit, KeysOf
  <1>6. BasesAreKept' /\ RemoteIsKept'
    BY <1>2, <1>3, <1>4, <1>5 DEF CarriedInv, BasesAreKept, Kept, RemoteIsKept, Exists
  <1>7. AcceptedIsCarried' /\ PartialIsFailed'
    BY <1>3, <1>4 DEF AcceptedIsCarried, Proposed, Accepted, PartialIsFailed
  <1> QED
    BY <1>6, <1>7 DEF CarriedInv

\* A delivered head is the branch, the ledger's own rows, or an adopted one.
LEMMA DeliveringKeepsCarriedInv ==
    ASSUME TypeOK, CarriedInv, NEW head, Deliver(head), UNCHANGED main, Kept(branch'.base),
           pc = "settle", pc' \in {"pull", "reconcile"},
           \A k \in KeysOf(run.tree.rows) :
              \/ OnLedger(k)
              \/ pc' = "pull" /\ k \in KeysOf(branch'.rows) /\ Exists(branch')
    PROVE  CarriedInv'
  <1>1. /\ run'.clone.rows = {} /\ run'.remote = NoCommit /\ run'.tree = NoCommit
        /\ run'.failed = FailedSoFar(run) /\ run'.receipts = run.receipts
    BY DeliverKeeps
  <1>2. NoCommit.id = 0 /\ NoCommit.base = {} /\ KeysOf({}) = {}
    BY DEF NoCommit, KeysOf
  <1>3. BasesAreKept' /\ RemoteIsKept'
    BY <1>1, <1>2 DEF BasesAreKept, Kept, RemoteIsKept, Exists
  <1>4. AcceptedIsCarried'
    <2> SUFFICES ASSUME NEW k \in Keys, Proposed(run, k)'
                 PROVE  k \in KeysOf(run.tree.rows)
      BY DEF AcceptedIsCarried, OnLedger, Exists
    <2> QED
      BY <1>1 DEF CarriedInv, AcceptedIsCarried, Proposed, Accepted
  <1>5. PartialIsFailed'
    BY <1>1 DEF PartialIsFailed, Partial, Offered, FailedSoFar
  <1> QED
    BY <1>3, <1>4, <1>5 DEF CarriedInv

LEMMA SettlingKeepsCarriedInv ==
    ASSUME TypeOK, MergeInv, CarriedInv, SettleNothing \/ SettleAdopt \/ SettlePush
    PROVE  CarriedInv'
  <1>k. Kept(branch.base) /\ Kept(run.tree.base)
    BY DEF CarriedInv, BasesAreKept
  <1>1. CASE \E failed : EndRun(failed) /\ UNCHANGED <<main, branch, pull>>
    BY <1>1, EndingKeepsCarriedInv
  <1>2. ASSUME Deliver(NoCommit), pc = "settle", pc' = "reconcile",
               run.tree.rows = run.tree.base, UNCHANGED <<main, branch, pull>>
        PROVE  CarriedInv'
    BY <1>2, <1>k, DeliveringKeepsCarriedInv DEF Kept, OnLedger
  <1>3. ASSUME Deliver(run.remote), pc = "settle", pc' = "pull", Exists(run.remote),
               run.tree.rows = run.remote.rows, UNCHANGED <<main, branch, pull>>
        PROVE  CarriedInv'
    <2>1. Exists(branch) /\ KeysOf(run.remote.rows) \subseteq KeysOf(branch.rows)
      BY <1>3 DEF CarriedInv, RemoteIsKept
    <2> QED
      BY <1>3, <1>k, <2>1, DeliveringKeepsCarriedInv DEF Exists
  <1>4. ASSUME NEW head, Deliver(head), branch' = head, Exists(head), head.rows = run.tree.rows,
               head.base = run.tree.base, pc = "settle", pc' = "pull", UNCHANGED main
        PROVE  CarriedInv'
    BY <1>4, <1>k, DeliveringKeepsCarriedInv DEF Exists, Kept
  <1>5. HeadIsKnown
    BY DEF MergeInv
  <1> QED
    BY <1>1, <1>2, <1>3, <1>4, <1>5, SettlingDelivers

LEMMA NextCarriedInv ==
    ASSUME TypeOK, MergeInv, CarriedInv, Others \cap {"close", "delete"} = {}, [Next]_vars
    PROVE  CarriedInv'
  <1>1. CASE StartRun
    BY <1>1, StartKeeps, NoReceiptsCarry
  <1>2. CASE Clone
    <2>1. /\ run'.clone = main /\ run'.remote = run.remote /\ run'.tree = run.tree
          /\ run'.receipts = run.receipts
          /\ pc = "clone" /\ pc' = "seed" /\ UNCHANGED <<main, branch, pull>>
      BY <1>2, CloneKeeps
    <2>2. BasesAreKept' /\ RemoteIsKept'
      BY <2>1 DEF CarriedInv, BasesAreKept, Kept, RemoteIsKept, Exists
    <2>3. AcceptedIsCarried' /\ PartialIsFailed'
      BY <2>1 DEF CarriedInv, AcceptedIsCarried, Proposed, Accepted, PartialIsFailed
    <2> QED
      BY <2>2, <2>3 DEF CarriedInv
  <1>3. CASE Fetch \/ FetchFails
    BY <1>3, ImportingKeepsCarriedInv DEF Fetch, FetchFails
  <1>4. CASE SettleStray \/ SettleDry \/ SettleRefused \/ Reconcile \/ RunDies
    <2>1. (\E failed : EndRun(failed)) /\ UNCHANGED <<main, branch, pull>>
      BY <1>4 DEF SettleStray, SettleDry, SettleRefused, Reconcile, RunDies, unchangedWorld
    <2> QED
      BY <2>1, EndingKeepsCarriedInv
  <1>5. CASE SettleNothing \/ SettleAdopt \/ SettlePush
    BY <1>5, SettlingKeepsCarriedInv
  <1>6. CASE OpenPull
    <2>1. /\ UNCHANGED <<main, branch>> /\ pc = "pull" /\ pc' = "gate"
          /\ Exists(branch) => pull' # "none"
          /\ run'.clone = run.clone /\ run'.remote = run.remote /\ run'.tree = run.tree
          /\ run'.receipts = run.receipts /\ run'.failed = run.failed
      BY <1>6, OpenPullKeeps DEF OpenPull
    <2>2. BasesAreKept' /\ RemoteIsKept'
      BY <2>1 DEF CarriedInv, BasesAreKept, Kept, RemoteIsKept, Exists
    <2>3. AcceptedIsCarried' /\ PartialIsFailed'
      BY <2>1 DEF CarriedInv, AcceptedIsCarried, Proposed, Accepted, PartialIsFailed, Partial,
         Offered, OnLedger
    <2> QED
      BY <2>2, <2>3 DEF CarriedInv
  <1>7. ASSUME NEW known, NEW conflict, Evaluate(known, conflict) PROVE CarriedInv'
    <2>1. /\ pc = "gate" /\ pc' \in {"merge", "reconcile"} /\ UNCHANGED <<main, branch, pull>>
          /\ \E failed : \/ run' = [run EXCEPT !.failed = failed] /\ (run.failed => failed)
                         \/ run' = [run EXCEPT !.failed = failed, !.head = NoCommit]
                            /\ (run.failed => failed)
      BY <1>7, EvaluateKeeps
    <2>2. /\ run'.receipts = run.receipts /\ run'.clone = run.clone /\ run'.remote = run.remote
          /\ run'.tree = run.tree /\ (run.failed => run'.failed)
      BY <2>1 DEF TypeOK, Run
    <2> QED
      BY <2>1, <2>2, CarryingKeepsCarriedInv DEF Carries
  <1>8. CASE CallFails \/ MergeRefused \/ MergeLands
    <2>1. PICK failed : /\ pc \in {"gate", "merge"} /\ pc' = "reconcile" /\ UNCHANGED branch
                        /\ run.failed => failed
                        /\ run' = [run EXCEPT !.failed = failed, !.head = NoCommit]
      BY <1>8, CallsForget
    <2>2. /\ run'.receipts = run.receipts /\ run'.clone = run.clone /\ run'.remote = run.remote
          /\ run'.tree = run.tree /\ (run.failed => run'.failed)
      BY <2>1, ForgetKeeps
    <2>3. Carries
      <3>1. CASE UNCHANGED <<main, pull>>
        BY <2>1, <3>1 DEF Carries
      <3>2. CASE MergeLands
        <4>1. branch = run.head /\ Removes(run.head) = {}
          BY <3>2 DEF MergeLands, MergeAllowed, MergeInv, IdsNameCommits, HeadIsKnown
        <4> QED
          BY <3>2, <4>1, MergingCarries DEF MergeLands, CarriedInv, BasesAreKept
      <3> QED
        BY <1>8, <3>1, <3>2 DEF CallFails, MergeRefused, unchangedWorld
    <2> QED
      BY <2>1, <2>2, <2>3, CarryingKeepsCarriedInv
  <1>9. CASE EvaluateGate \/ EvaluateUnknown
    BY <1>7, <1>9 DEF EvaluateGate, EvaluateUnknown
  <1>10. CASE People \/ World
    BY <1>10, WorldCarries, CarryingKeepsCarriedInv
  <1>11. CASE UNCHANGED vars
    BY <1>11, CarryingKeepsCarriedInv DEF vars, Carries
  <1> QED
    BY <1>1, <1>2, <1>3, <1>4, <1>5, <1>6, <1>8, <1>9, <1>10, <1>11 DEF Next, RunStep, Trouble

LEMMA CarriedInvAlways ==
    ASSUME Others \cap {"close", "delete"} = {}
    PROVE  Spec => [](TypeOK /\ MergeInv /\ CarriedInv)
  <1>1. Init => CarriedInv
    <2> SUFFICES ASSUME Init PROVE CarriedInv
      OBVIOUS
    <2>1. /\ run.remote.id = 0 /\ run.remote.base = {} /\ run.tree.base = {}
          /\ run.clone.rows = {} /\ branch.base = {} /\ run.receipts = NoReceipts /\ pc = "idle"
      BY DEF Init, NoRun, NoCommit
    <2>2. BasesAreKept /\ RemoteIsKept
      BY <2>1 DEF BasesAreKept, Kept, KeysOf, RemoteIsKept, Exists
    <2>3. AcceptedIsCarried /\ PartialIsFailed
      BY <2>1 DEF AcceptedIsCarried, PartialIsFailed
    <2> QED
      BY <2>2, <2>3 DEF CarriedInv
  <1>2. CarriedInv /\ TypeOK /\ MergeInv /\ [Next]_vars => CarriedInv'
    BY NextCarriedInv
  <1> QED
    BY <1>1, <1>2, MergeInvAlways, PTL DEF Spec

\* What a run is about to report as PROPOSED_NOT_MERGED is on the ledger or on
\* the branch of an open pull request (reconcile_delivery.py), whatever was
\* committed, merged, amended, graded or recovered since its import; provided
\* nobody closes the pull request or deletes the branch meanwhile.
THEOREM ReportedIsProposed ==
    ASSUME Others \cap {"close", "delete"} = {}
    PROVE  Spec => []ProposedMeansProposed
  <1>1. CarriedInv => ProposedMeansProposed
    BY DEF CarriedInv, AcceptedIsCarried, OnLedger, ProposedMeansProposed
  <1> QED
    BY <1>1, CarriedInvAlways, PTL

\* A green run of a destination has accounted for every order of its payload:
\* each is on the ledger or on the branch of an open pull request.  A refused,
\* conflicting, dropped or lost order never ends green; provided nobody closes
\* the pull request or deletes the branch meanwhile.
THEOREM GreenIsAccounted ==
    ASSUME Others \cap {"close", "delete"} = {}
    PROVE  Spec => GreenMeansAccounted
  <1> DEFINE Green == pc # "idle" /\ pc' = "idle" /\ outcome' = "green" /\ ~run.dry
             Accounted == \A k \in Keys : run.payload[k] # 0 =>
                \/ k \in KeysOf(main.rows)
                \/ k \in KeysOf(branch.rows) /\ pull # "none"
  <1>1. TypeOK /\ CarriedInv /\ [Next]_vars => [Green => Accounted]_vars
    <2> SUFFICES ASSUME TypeOK, CarriedInv, Next, Green
                 PROVE  Accounted
      OBVIOUS
    <2>1. Reconcile /\ ~run.failed /\ Unaccounted(run) = {}
      BY DEF Next, RunStep, Trouble, People, World, StartRun, Clone, Fetch, FetchFails, SeedAndImport,
         SettleStray, SettleNothing, SettleDry, SettleAdopt, SettlePush, SettleRefused, NeedsPush,
         Settles, OpenPull, EvaluateGate, EvaluateUnknown, Evaluate, MergeLands, MergeRefused, Reconcile,
         CallFails, RunDies, EndRun, PersonMerges, PersonCloses, PersonDrafts, PersonDeletes,
         PersonAmends, NoiseCommit, CIStart, CIFinish, CIFail, PlaceWager, RecoveryCommit, GradeCommit,
         OthersCommit, unchangedRun
    <2>2. ~Partial(run) /\ AcceptedIsCarried /\ pc = "reconcile"
      BY <2>1 DEF Reconcile, CarriedInv, PartialIsFailed
    <2>3. ASSUME NEW k \in Keys, run.payload[k] # 0, k \notin KeysOf(main.rows)
          PROVE  Proposed(run, k)
      <3>1. ~Refused(run, k)
        BY <2>2 DEF Refused, Partial, Offered, Accepted, ACCEPTED
      <3> QED
        BY <2>1, <2>3, <3>1 DEF Unaccounted
    <2> QED
      BY <2>2, <2>3 DEF AcceptedIsCarried, OnLedger
  <1> QED
    BY <1>1, CarriedInvAlways, PTL DEF Spec, GreenMeansAccounted

---------------------------------------------------------------------------
(* An unchanged proposal keeps its commit.                                 *)

\* What rows say, their clock readings aside.
Says(rows) == {[r EXCEPT !.stamp = 0] : r \in rows}

\* A proposal proposes something.
BranchSaysSomething ==
    IF Exists(branch) THEN branch.rows # {} \/ branch.base # {} \/ branch.files # "ledger"
    ELSE branch = NoCommit

\* A tree on top of the fetched branch is that branch or says more than it; a
\* tree that is not stands on another ledger.
TreeIsAnswer(tree, remote, seeded) ==
    IF seeded THEN /\ tree.base = remote.base /\ tree.n = remote.n
                   /\ tree.rows = remote.rows \/ Says(tree.rows) # Says(remote.rows)
    ELSE tree.base # remote.base

SpokenInv ==
    /\ BranchSaysSomething
    /\ pc = "settle" /\ Exists(run.remote) => TreeIsAnswer(run.tree, run.remote, run.seeded)

\* Rows that hold an order the others lack say something else.
LEMMA NewKeysAreHeard ==
    ASSUME NEW a \in SUBSET Row, NEW b \in SUBSET Row, NEW r \in a, r.key \notin KeysOf(b)
    PROVE  Says(a) # Says(b)
  <1>1. \A q \in Row : [q EXCEPT !.stamp = 0].key = q.key
    BY DEF Row
  <1>2. [r EXCEPT !.stamp = 0] \in Says(a)
    BY DEF Says
  <1>3. [r EXCEPT !.stamp = 0] \notin Says(b)
    BY <1>1 DEF Says, KeysOf
  <1> QED
    BY <1>2, <1>3

\* A row whose grade is flipped is heard, when its order is on file once.
LEMMA FlippedIsHeard ==
    ASSUME NEW rows \in SUBSET Row, UniqueKeys(rows), NEW r \in rows, NEW b, Flipped(r) \in b
    PROVE  Says(b) # Says(rows)
  <1>1. /\ \A q \in Row : [q EXCEPT !.stamp = 0].key = q.key /\ [q EXCEPT !.stamp = 0].graded = q.graded
        /\ Flipped(r) \in Row /\ Flipped(r).key = r.key /\ Flipped(r).graded # r.graded
    BY DEF Row, Flipped
  <1>2. [Flipped(r) EXCEPT !.stamp = 0] \in Says(b)
    BY DEF Says
  <1>3. ASSUME NEW q \in rows, [Flipped(r) EXCEPT !.stamp = 0] = [q EXCEPT !.stamp = 0]
        PROVE  FALSE
    <2>1. /\ [Flipped(r) EXCEPT !.stamp = 0].key = r.key
          /\ [Flipped(r) EXCEPT !.stamp = 0].graded # r.graded
      BY <1>1
    <2>2. [q EXCEPT !.stamp = 0].key = q.key /\ [q EXCEPT !.stamp = 0].graded = q.graded
      BY <1>1
    <2>3. q = r
      BY <1>3, <2>1, <2>2 DEF UniqueKeys
    <2> QED
      BY <1>3, <2>1, <2>2, <2>3
  <1> QED
    BY <1>2, <1>3 DEF Says

\* An import on top of a commit leaves its rows or says something else.
LEMMA ImportsAreHeard ==
    ASSUME "double" \notin Faults, NEW seed \in Commit, NEW payload \in [Keys -> 0..MaxEcon],
           NEW new \in NewRows(seed, payload),
           NEW result \in ImportResults(seed, payload, new), UniqueKeys(seed.rows)
    PROVE  result.tree.rows = seed.rows \/ Says(result.tree.rows) # Says(seed.rows)
  <1>1. \A r \in new : r \in Row /\ r.key \notin KeysOf(seed.rows)
    <2> TAKE r \in new
    <2>1. r \in Row /\ ReceiptFor(seed.rows, r.key, payload[r.key]) = "NEW"
      BY NewRowsAreTheNew
    <2>2. OnFile(seed.rows, r.key, payload[r.key]) = {}
      BY <2>1 DEF ReceiptFor
    <2> QED
      BY <2>1, <2>2 DEF OnFile, KeysOf
  <1>2. seed.rows \in SUBSET Row
    BY DEF Commit
  <1>3. \/ result.tree.rows = seed.rows \cup new
        \/ \E r \in seed.rows : result.tree.rows = ((seed.rows \cup new) \ {r}) \cup {Flipped(r)}
        \/ \E r \in new : result.tree.rows = (seed.rows \cup new) \ {r}
    <2>1. LeftBy(ReceiptsOf(seed, payload), seed.rows, new, result)
      BY ImportLeaves
    <2> QED
      BY <2>1 DEF LeftBy
  <1>4. \A r \in seed.rows : Flipped(r) \in Row
    BY <1>2 DEF Flipped, Row
  <1>5. result.tree.rows \in SUBSET Row
    BY <1>1, <1>2, <1>3, <1>4
  <1>6. CASE \E r \in new : r \in result.tree.rows
    BY <1>1, <1>2, <1>5, <1>6, NewKeysAreHeard
  <1>7. ASSUME \A r \in new : r \notin result.tree.rows,
               NEW r \in seed.rows, result.tree.rows = ((seed.rows \cup new) \ {r}) \cup {Flipped(r)}
        PROVE  Says(result.tree.rows) # Says(seed.rows)
    BY <1>2, <1>7, FlippedIsHeard
  <1>8. CASE \A r \in new : r \notin result.tree.rows
    <2>1. CASE result.tree.rows = seed.rows \cup new
      BY <1>8, <2>1
    <2>2. CASE \E r \in seed.rows :
                  result.tree.rows = ((seed.rows \cup new) \ {r}) \cup {Flipped(r)}
      BY <1>7, <1>8, <2>2
    <2>3. CASE \E r \in new : result.tree.rows = (seed.rows \cup new) \ {r}
      <3>1. PICK r \in new : result.tree.rows = (seed.rows \cup new) \ {r}
        BY <2>3
      <3>2. r \notin seed.rows
        BY <1>1 DEF KeysOf
      <3>3. result.tree.rows = seed.rows
        BY <1>1, <1>8, <3>1, <3>2
      <3> QED
        BY <3>3
    <2> QED
      BY <1>3, <2>1, <2>2, <2>3
  <1> QED
    BY <1>6, <1>8

LEMMA ImportAnswers ==
    ASSUME LedgerInv, SpokenInv, "double" \notin Faults,
           NEW remote \in {branch, NoCommit}, SeedAndImport(remote)
    PROVE  SpokenInv'
  <1> DEFINE seed == SeedTree(remote, run.clone)
  <1>t. TypeOK /\ remote \in Commit
    BY NoRunIsARun DEF LedgerInv, TypeOK
  <1>1. PICK new \in NewRows(seed, run.payload) :
          \E result \in ImportResults(seed, run.payload, new) :
             /\ seed \in Commit /\ run.payload \in [Keys -> 0..MaxEcon]
             /\ run'.remote = remote /\ run'.seeded = ChooseSeed(remote, run.clone)
             /\ run'.tree = result.tree /\ UNCHANGED branch
    BY <1>t, ImportKeeps
  <1>2. ASSUME ChooseSeed(remote, run.clone)
        PROVE  seed.base = remote.base /\ seed.n = remote.n /\ seed.rows = remote.rows
    BY <1>t, <1>2 DEF SeedTree, Commit
  <1>3. ASSUME ~ChooseSeed(remote, run.clone) PROVE seed.base = run.clone.rows
    BY <1>3 DEF SeedTree
  <1> HIDE DEF seed
  <1>4. PICK result \in ImportResults(seed, run.payload, new) :
             /\ seed \in Commit /\ run.payload \in [Keys -> 0..MaxEcon]
             /\ run'.remote = remote /\ run'.seeded = ChooseSeed(remote, run.clone)
             /\ run'.tree = result.tree /\ UNCHANGED branch
    BY <1>1
  <1>5. result.tree.base = seed.base /\ result.tree.n = seed.n
    BY <1>4, ImportLeaves
  <1>6. ASSUME Exists(remote) PROVE TreeIsAnswer(result.tree, remote, run'.seeded)
    <2>1. UniqueKeys(remote.rows)
      BY <1>6 DEF LedgerInv, UniqueEverywhere, NoCommit, Exists
    <2>2. CASE ChooseSeed(remote, run.clone)
      <3>1. result.tree.rows = seed.rows \/ Says(result.tree.rows) # Says(seed.rows)
        BY <1>2, <1>4, <2>1, <2>2, ImportsAreHeard
      <3> QED
        BY <1>2, <1>4, <1>5, <2>2, <3>1 DEF TreeIsAnswer
    <2>3. CASE ~ChooseSeed(remote, run.clone)
      BY <1>3, <1>4, <1>5, <1>6, <2>3 DEF TreeIsAnswer, ChooseSeed, LedgerMoved
    <2> QED
      BY <2>2, <2>3
  <1>7. BranchSaysSomething'
    BY <1>4 DEF SpokenInv, BranchSaysSomething, Exists
  <1> QED
    BY <1>4, <1>6, <1>7 DEF SpokenInv, Exists

LEMMA NextSpokenInv ==
    ASSUME LedgerInv, SpokenInv, "double" \notin Faults, [Next]_vars
    PROVE  SpokenInv'
  <1>t. TypeOK
    BY DEF LedgerInv
  <1>k. ASSUME branch' = branch, pc' # "settle" \/ UNCHANGED <<run, pc>> PROVE SpokenInv'
    BY <1>k DEF SpokenInv, BranchSaysSomething, Exists
  <1>1. CASE StartRun \/ Clone \/ SettleStray \/ SettleNothing \/ SettleDry \/ SettleAdopt
             \/ SettleRefused \/ OpenPull \/ EvaluateGate \/ EvaluateUnknown \/ MergeLands
             \/ MergeRefused \/ Reconcile \/ CallFails \/ RunDies
    <2>1. branch' = branch /\ pc' # "settle"
      BY <1>1 DEF StartRun, Clone, SettleStray, SettleNothing, SettleDry, SettleAdopt, SettleRefused,
         OpenPull, EvaluateGate, EvaluateUnknown, Evaluate, MergeLands, MergeInto, MergeRefused,
         Reconcile, CallFails, RunDies, EndRun, unchangedWorld
    <2> QED
      BY <2>1, <1>k
  <1>2. CASE Fetch \/ FetchFails
    BY <1>2, ImportAnswers DEF Fetch, FetchFails
  <1>3. CASE SettlePush
    <2>1. PICK id \in FreshIds : branch' = [run.tree EXCEPT !.id = id]
      BY <1>3 DEF SettlePush
    <2>2. run.tree \in Commit /\ id # 0
      BY <1>t, FreshIdsAreFresh DEF TypeOK, Run
    <2>3. /\ branch'.id # 0 /\ branch'.rows = run.tree.rows /\ branch'.base = run.tree.base
          /\ branch'.files = run.tree.files
      BY <2>1, <2>2 DEF Commit
    <2>4. ~NothingToDeliver(run) /\ pc' = "pull"
      BY <1>3 DEF SettlePush, NeedsPush
    <2> QED
      BY <2>3, <2>4 DEF SpokenInv, BranchSaysSomething, NothingToDeliver, Exists
  <1>4. CASE PersonDeletes
    <2>1. branch' = NoCommit /\ UNCHANGED <<run, pc>>
      BY <1>4 DEF PersonDeletes, unchangedRun
    <2>2. NoCommit.id = 0
      BY DEF NoCommit
    <2> QED
      BY <2>1, <2>2 DEF SpokenInv, BranchSaysSomething, Exists
  <1>5. ASSUME NEW k \in Keys, PersonAmends(k) PROVE SpokenInv'
    <2>1. PICK row : branch'.rows = branch.rows \cup {row} /\ Exists(branch') /\ UNCHANGED <<run, pc>>
      BY <1>5, <1>t, AmendKeeps
    <2> QED
      BY <2>1 DEF SpokenInv, BranchSaysSomething, Exists
  <1>6. CASE \/ PersonMerges \/ PersonCloses \/ PersonDrafts \/ NoiseCommit
             \/ CIStart \/ CIFinish \/ CIFail
             \/ \E k \in Keys : PlaceWager(k) \/ RecoveryCommit(k)
             \/ \E row \in main.rows : GradeCommit(row)
    BY <1>6, <1>k, WorldIs DEF WorldKeeps
  <1>7. CASE UNCHANGED vars
    BY <1>7, <1>k DEF vars
  <1> QED
    BY <1>1, <1>2, <1>3, <1>4, <1>5, <1>6, <1>7 DEF Next, RunStep, Trouble, People, World

LEMMA SpokenInvAlways ==
    ASSUME "double" \notin Faults
    PROVE  Spec => [](LedgerInv /\ SpokenInv)
  <1>1. Init => SpokenInv
    <2>1. NoCommit.id = 0
      BY DEF NoCommit
    <2> QED
      BY <2>1 DEF Init, SpokenInv, BranchSaysSomething, Exists
  <1>2. LedgerInv /\ SpokenInv /\ [Next]_vars => SpokenInv'
    BY NextSpokenInv
  <1> QED
    BY <1>1, <1>2, LedgerInvAlways, PTL DEF Spec

\* The head of the router's branch moves under a run's feet only to a commit
\* that says something else: not for new clock readings, not when nothing
\* changed (deliver_branch.py: adopt, push or nothing); provided the importer
\* never writes an order it has on file a second time.
THEOREM UnchangedKeepsItsCommit ==
    ASSUME "double" \notin Faults
    PROVE  Spec => UnchangedProposalIsNeverRepushed
  <1> DEFINE Moves == pc = "settle" /\ branch' # branch
  <1>1. LedgerInv /\ SpokenInv /\ [Next]_vars => [Moves => Content(branch') # Content(branch)]_vars
    <2> SUFFICES ASSUME LedgerInv, SpokenInv, Next, Moves, Content(branch') = Content(branch)
                 PROVE  FALSE
      OBVIOUS
    <2>1. /\ branch'.base = branch.base /\ Says(branch'.rows) = Says(branch.rows)
          /\ branch'.files = branch.files
      BY DEF Content, Says
    <2>2. TypeOK /\ SpokenInv'
      BY NextSpokenInv DEF LedgerInv
    <2>3. NoCommit.rows = {} /\ NoCommit.base = {} /\ NoCommit.files = "ledger" /\ Says({}) = {}
      BY DEF NoCommit, Says
    <2>4. \A rows : Says(rows) = {} => rows = {}
      BY DEF Says
    <2>5. \/ SettlePush \/ PersonDeletes \/ \E k \in Keys : PersonAmends(k)
      BY DEF Next, RunStep, Trouble, People, World, StartRun, Clone, Fetch, FetchFails, SeedAndImport,
         SettleStray, SettleNothing, SettleDry, SettleAdopt, SettleRefused, OpenPull, EvaluateGate,
         EvaluateUnknown, Evaluate, MergeLands, MergeInto, MergeRefused, Reconcile, CallFails, RunDies,
         PersonMerges, PersonCloses, PersonDrafts, NoiseCommit, CIStart, CIFinish, CIFail, PlaceWager,
         RecoveryCommit, GradeCommit, OthersCommit, unchangedWorld
    <2>6. CASE PersonDeletes
      BY <2>1, <2>3, <2>4, <2>6 DEF PersonDeletes, SpokenInv, BranchSaysSomething
    <2>7. ASSUME NEW k \in Keys, PersonAmends(k) PROVE FALSE
      <3>1. PICK row : row.key = k /\ k \notin KeysOf(branch.rows)
                       /\ branch'.rows = branch.rows \cup {row}
        BY <2>2, <2>7, AmendKeeps
      <3>2. branch.rows \in SUBSET Row /\ branch'.rows \in SUBSET Row /\ row \in branch'.rows
        BY <3>1, <2>2, NextTypeOK DEF TypeOK, Commit
      <3> QED
        BY <3>1, <3>2, <2>1, NewKeysAreHeard
    <2>8. CASE SettlePush
      <3>1. PICK id \in FreshIds : branch' = [run.tree EXCEPT !.id = id]
        BY <2>8 DEF SettlePush
      <3>2. run.tree \in Commit /\ run.remote \in Commit /\ id # 0
        BY <2>2, FreshIdsAreFresh DEF TypeOK, Run
      <3>3. /\ branch'.rows = run.tree.rows /\ branch'.base = run.tree.base
            /\ branch'.files = run.tree.files
        BY <3>1, <3>2 DEF Commit
      <3>4. ~NothingToDeliver(run) /\ ~Adopts(run) /\ branch.id = run.remote.id
        BY <2>8 DEF SettlePush, NeedsPush, LeaseHolds
      <3>5. CASE ~Exists(branch)
        <4>1. branch.rows = {} /\ branch.base = {} /\ branch.files = "ledger"
          BY <3>5, <2>3 DEF SpokenInv, BranchSaysSomething
        <4> QED
          BY <4>1, <2>1, <2>3, <2>4, <3>3, <3>4 DEF NothingToDeliver
      <3>6. CASE Exists(branch)
        <4>1. branch = run.remote /\ Exists(run.remote)
          BY <3>4, <3>6 DEF LedgerInv, IdsNameCommits, Exists
        <4>2. TreeIsAnswer(run.tree, run.remote, run.seeded)
          BY <4>1 DEF SpokenInv
        <4>3. CASE ~run.seeded
          BY <4>1, <4>2, <4>3, <2>1, <3>3 DEF TreeIsAnswer
        <4>4. CASE run.seeded
          <5>1. /\ run.tree.base = run.remote.base /\ run.tree.n = run.remote.n
                /\ run.tree.rows = run.remote.rows /\ run.tree.files = run.remote.files
            BY <4>1, <4>2, <4>4, <2>1, <3>3 DEF TreeIsAnswer
          <5>2. [run.tree EXCEPT !.id = run.remote.id] = run.remote
            BY <5>1, <3>2 DEF Commit
          <5> QED
            BY <5>2, <4>4, <3>4 DEF Adopts
        <4> QED
          BY <4>3, <4>4
      <3> QED
        BY <3>5, <3>6
    <2> QED
      BY <2>5, <2>6, <2>7, <2>8
  <1> QED
    BY <1>1, SpokenInvAlways, PTL DEF Spec, UnchangedProposalIsNeverRepushed

=============================================================================
