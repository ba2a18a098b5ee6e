------------------------------ MODULE Backfill ------------------------------
(***************************************************************************)
(* The catch-up over the window before the cutover: cli backfill, backfill *)
(* and backfill-deliver.yml.  A run reads a destination's ledger, asks of  *)
(* every wager it can rebuild whether the ledger already has it, and       *)
(* proposes the missing ones on a branch the owner merges.  Meanwhile the  *)
(* owner records wagers by hand.                                           *)
(***************************************************************************)
EXTENDS Rows

CONSTANTS
    Sports,      \* destinations a behaviour may be about
    Traded,      \* the fills as they were traded
    Servable,    \* the sets of objects the exchange may serve for them
    MaxRuns, MaxHand  \* bounds: runs, rows recorded by hand

VARIABLES
    sport,     \* the destination
    raws,      \* what the exchange serves for the window
    ledger,    \* rows on the destination's ledger branch
    catchup,   \* the run
    proposal,  \* the stable branch and its pull request
    hands      \* rows the owner recorded, counted

backfillVars == <<sport, raws, ledger, catchup, proposal, hands>>

OrdersTraded == {f.order : f \in Traded}
NoRun == [pc |-> "idle", dry |-> FALSE, saw |-> {}, payload |-> {}, count |-> 0]
NoProposal == [rows |-> {}, saw |-> {}, open |-> FALSE]

Init ==
    /\ sport \in Sports
    /\ raws \in Servable
    /\ ledger = {} /\ catchup = NoRun /\ proposal = NoProposal /\ hands = 0

\* An object of a fill states the fill's own id, order, market and count.  The
\* words, fee and legs it states are the fill's too, the legs as far as they can
\* be told apart; a word that contradicts them may stand beside a true one.
YesLeg(f) == IF f.contract = "yes" THEN f.price ELSE Whole - f.price
Describes(raw, f) ==
    /\ raw.id = f.id /\ raw.order = f.order /\ raw.ticker = f.ticker /\ raw.count = f.count
    /\ raw.fee \in {f.fee, None}
    /\ Contracts(raw) # {} => f.contract \in Contracts(raw)
    /\ Proven(raw) => raw.yes \in {YesLeg(f), None} /\ raw.no \in {Whole - YesLeg(f), None}

-----------------------------------------------------------------------------
(* What a run rebuilds.                                                    *)

\* run_audit over the window: one aggregation of what could be read.  An order
\* whose fills disagree on what it is fails the replay, and nothing is rebuilt.
Executions ==
    LET fills == Accepted(raws)
        orders == {f.order : f \in fills}
    IN {OrderExecution(o, fills) :
          o \in {p \in orders : \A q \in orders : Uniform({f \in fills : f.order = q})}}

\* evaluate_window, evaluate_order: a price, every fee, and the other gates.
Rebuilt(admitted) ==
    {Wager(e) : e \in {x \in Executions : Priced(x) /\ x.order \in admitted}}

-----------------------------------------------------------------------------
(* The verdict.                                                            *)

\* _materially_disagrees: the stake by more than a cent, the price by more than
\* half a cent; what a row does not carry does not disagree.
Abs(n) == IF n < 0 THEN 0 - n ELSE n
Disagrees(w, row) ==
    \/ Carries(sport, row, "stake") /\ Abs(w.stake - Reads(sport, row, "stake")) > 1
    \/ /\ Carries(sport, row, "price")
       /\ LET p == Reads(sport, row, "price") IN
          2 * Abs(w.price[1] * p[2] - p[1] * w.price[2]) > w.price[2] * p[2]

\* _key: the market and the side.
SameBet(w, row) == States(sport, row, "ticker", w.ticker) /\ States(sport, row, "side", w.side)

\* reconcile_one.
Verdict(w, rows) ==
    LET matches == {r \in rows : SameBet(w, r)} IN
    IF \E r \in rows : States(sport, r, "key", w.key) THEN "duplicate_noop"
    ELSE IF matches = {} THEN "missing_importable"
    ELSE IF Cardinality(matches) > 1 THEN "ambiguous"
    ELSE IF \E r \in matches : Disagrees(w, r) THEN "conflict"
    ELSE "exact_existing"

\* reconcile: the only verdict that may write.
Missing(wagers, rows) == {w \in wagers : Verdict(w, rows) = "missing_importable"}

-----------------------------------------------------------------------------
(* The owner.                                                              *)

\* A row typed in: no key of the router's, a stake, perhaps a price.
HandRow(w, stake, priced) ==
    LET v == Vocabulary(sport) IN
    [word \in {v.ticker, v.side, v.stake} \cup (IF priced THEN {v.price} ELSE {}) |->
       CASE word = v.ticker -> w.ticker [] word = v.side -> w.side
         [] word = v.stake -> stake [] OTHER -> w.price]

RecordByHand(w, off, priced) ==
    /\ hands < MaxHand /\ hands' = hands + 1
    /\ ledger' = ledger \cup {HandRow(w, w.stake + off, priced)}
    /\ UNCHANGED <<sport, raws, catchup, proposal>>

\* The pull request is merged: its rows join the ledger.
MergeProposal ==
    /\ proposal.open
    /\ ledger' = ledger \cup proposal.rows
    /\ proposal' = NoProposal
    /\ UNCHANGED <<sport, raws, catchup, hands>>

CloseProposal ==
    /\ proposal.open
    /\ proposal' = [proposal EXCEPT !.open = FALSE]
    /\ UNCHANGED <<sport, raws, ledger, catchup, hands>>

-----------------------------------------------------------------------------
(* A run.  A dispatch waits for the one under way.                         *)

\* Every destination's rows are fetched before the account is read.
FetchLedger(dry) ==
    /\ catchup.pc = "idle" /\ catchup.count < MaxRuns
    /\ catchup' = [NoRun EXCEPT !.pc = "fetched", !.dry = dry, !.saw = ledger,
                                !.count = catchup.count + 1]
    /\ UNCHANGED <<sport, raws, ledger, proposal, hands>>

Idle == [NoRun EXCEPT !.count = catchup.count]

\* cli backfill --out-dir; without a missing wager there is no payload, and
\* the delivery ends before it looks at the branch.
Reconcile(admitted) ==
    /\ catchup.pc = "fetched"
    /\ LET missing == Missing(Rebuilt(admitted), catchup.saw) IN
       catchup' = IF missing = {} THEN Idle
                  ELSE [catchup EXCEPT !.pc = "built",
                                       !.payload = {Row(sport, w) : w \in missing}]
    /\ UNCHANGED <<sport, raws, ledger, proposal, hands>>

\* The importer on a fresh clone: a key on file is a no-op, a row it cannot
\* take is refused, the others are kept.
Key(row) == Reads(sport, row, "key")
Imported(rows, clone) ==
    {r \in rows : Importable(sport, r) /\ ~\E o \in clone : States(sport, o, "key", Key(r))}

\* The branch is rebuilt on the ledger as it is now; the pull request is opened
\* or is open already, or that call fails and the branch stands without one.
Deliver ==
    /\ catchup.pc = "built"
    /\ LET rows == Imported(catchup.payload, ledger) IN
       \/ (rows = {} \/ catchup.dry) /\ UNCHANGED proposal
       \/ /\ rows # {} /\ ~catchup.dry
          /\ \E opened \in BOOLEAN :
               proposal' = [rows |-> rows, saw |-> catchup.saw, open |-> proposal.open \/ opened]
    /\ catchup' = Idle
    /\ UNCHANGED <<sport, raws, ledger, hands>>

\* The exchange fails, a clone or a push is refused, the job times out.
Fail ==
    /\ catchup.pc # "idle"
    /\ catchup' = Idle
    /\ UNCHANGED <<sport, raws, ledger, proposal, hands>>

Next ==
    \/ \E w \in Rebuilt(OrdersTraded), off \in {0, 5}, priced \in BOOLEAN : RecordByHand(w, off, priced)
    \/ MergeProposal \/ CloseProposal
    \/ \E dry \in BOOLEAN : FetchLedger(dry)
    \/ \E admitted \in SUBSET OrdersTraded : Reconcile(admitted)
    \/ Deliver \/ Fail

-----------------------------------------------------------------------------
(* Properties.                                                             *)

\* What an order paid for its contracts, and for how many, as they were traded.
Paid(fills) == SumOver([f \in fills |-> f.price * f.count], fills)
OfOrder(row) == {f \in Traded : f.order = Key(row)[3]}
AllRead(fills) == {f.id : f \in fills} \subseteq {f.id : f \in Accepted(raws)}

\* The row states what the exchange took for the order, in whichever of its
\* schemas the exchange described the fills.
TellsTheTrade(row) ==
    LET fills == OfOrder(row) IN
    AllRead(fills) =>
      /\ \A f \in fills : States(sport, row, "side", f.contract)
      /\ Reads(sport, row, "price") = <<Paid(fills), Quantity(fills)>>
      /\ row.stake = Paid(fills) + SumOver([f \in fills |-> f.fee], fills)

RouterRows == {r \in ledger : Carries(sport, r, "key")}

\* A wager is written at most once, at its cost, and never for a market and
\* side that the ledger its run read already had a row for, whoever wrote it
\* and in whichever words (reconcile_one, normalize_ledger_row, normalize_fill).
BackfillWritesOnlyTheMissing ==
    /\ \A r \in RouterRows \cup proposal.rows : TellsTheTrade(r)
    /\ \A r, o \in RouterRows \cup proposal.rows :
         r # o \/ (r \in proposal.rows /\ o \in RouterRows) => Key(r) # Key(o)
    /\ \A r \in proposal.rows, o \in proposal.saw :
         ~(/\ States(sport, o, "ticker", Reads(sport, r, "ticker"))
           /\ States(sport, o, "side", Reads(sport, r, "side")))
=============================================================================
