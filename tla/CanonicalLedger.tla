-------------------------- MODULE CanonicalLedger --------------------------
(***************************************************************************)
(* What a destination's canonical wager ledger promises, with no branch,   *)
(* pull request, run or importer in sight: rows are appended once per      *)
(* order, the destination may grade a row it holds, and no row is ever     *)
(* rewritten or removed.  Delivery implements this specification.          *)
(***************************************************************************)
VARIABLE ledger     \* a set of records with at least the fields key and graded

LedgerKeys(rows) == {r.key : r \in rows}

Init == ledger = {}

\* A batch lands: only orders the ledger does not hold, each of them once.
Append ==
    LET batch == ledger' \ ledger
    IN  /\ batch # {}
        /\ \A r, s \in batch : r.key = s.key => r = s
        /\ LedgerKeys(batch) \cap LedgerKeys(ledger) = {}
        /\ ledger \subseteq ledger'

\* The destination settles a row on its own ledger.
Grade(row) ==
    /\ ~row.graded
    /\ ledger' = (ledger \ {row}) \cup {[row EXCEPT !.graded = TRUE]}

Next == Append \/ \E row \in ledger : Grade(row)

Spec == Init /\ [][Next]_ledger
=============================================================================
