----------------------------- MODULE Accounting -----------------------------
(***************************************************************************)
(* The shadow accounting of one market: how kalshi_router.audit reads the  *)
(* exchange (live fills, archived fills, settlements, positions, one after *)
(* the other, while the exchange moves), and how accounting/engine.py and  *)
(* accounting/position.py replay what was read into flat-to-flat episodes  *)
(* and decide which of them may be imported.                               *)
(*                                                                         *)
(* Markets are independent in the replay, so one ticker is enough; it may  *)
(* be held in several subaccounts.  Dollars are whole numbers of a unit    *)
(* small enough for every average, quantities are contracts on the signed  *)
(* YES axis.  The replay is local to the router, so the exchange moves     *)
(* only between its reads.                                                 *)
(***************************************************************************)
EXTENDS Integers, Sequences, FiniteSets, Sums

CONSTANTS
    Subaccounts,
    FillIds,        \* positive numbers: only their order matters
    CountOf,        \* contracts in each fill
    PriceOf,        \* YES-axis price of each fill, or None
    FeeOf,          \* fee of each fill, or None
    SidesOf,        \* bound: the sides each fill may be on
    One,            \* what a winning contract pays
    SettlementFees, \* fees a settlement row may carry, or None
    MaxTime,        \* bound: the clock
    MaxFills,       \* bound: fills the exchange executes
    TiesFollowIds,  \* fills of one instant execute in the order of their ids
    MayReject       \* a fill may fail to parse

None == -1      \* a price, fee, time or view that is not there

ASSUME SubaccountsAreFinite == IsFiniteSet(Subaccounts)
ASSUME IdsArePositive == FillIds \subseteq Nat \ {0}
ASSUME CountsArePositive == CountOf \in [FillIds -> Nat \ {0}]
ASSUME MoneyIsWhole ==
    /\ One \in Nat /\ SettlementFees \subseteq Nat \cup {None}
    /\ PriceOf \in [FillIds -> 0..One \cup {None}] /\ FeeOf \in [FillIds -> Nat \cup {None}]
ASSUME ClockAndBounds == MaxTime \in Nat /\ MaxFills \in Nat
ASSUME SidesAreExposures == SidesOf \in [FillIds -> SUBSET {"yes", "no"}]
ASSUME SwitchesAreBooleans == {TiesFollowIds, MayReject} \subseteq BOOLEAN

VARIABLES
    history,     \* the exchange's executions on this market, in order
    books,       \* what it held before the first of them and after each
    cutoff,      \* executions before it are served by the archive route only
    settlement,  \* the market's settlement, or Unsettled
    pc,          \* what the audit does next
    audit,       \* what the audit has read
    todo,        \* fills read and not replayed yet
    ledgers      \* one MarketLedger per subaccount

vars == <<history, books, cutoff, settlement, pc, audit, todo, ledgers>>
exchange == <<history, books, cutoff, settlement>>

---------------------------------------------------------------------------
(* Fills and the signed axis.                                              *)

Times == 0..MaxTime

Fill == [id : FillIds, sub : Subaccounts, time : Times, exposure : {"yes", "no"}]

Abs(n) == IF n < 0 THEN -n ELSE n
Sign(n) == IF n > 0 THEN 1 ELSE IF n < 0 THEN -1 ELSE 0

Count(fill) == CountOf[fill.id]

\* project_fill: direction from the exposure, never from the price.
Signed(fill) == IF fill.exposure = "yes" THEN Count(fill) ELSE -Count(fill)

Price(fill) == PriceOf[fill.id]
Fee(fill) == FeeOf[fill.id]

\* An order by id alone.
Before_ById(f, g) == f.id < g.id

\* The canonical order: time, then id.
Before(f, g) == f.time < g.time \/ (f.time = g.time /\ f.id < g.id)

\* What the account holds: per subaccount, and all long and short contracts.
Book == [held : [Subaccounts -> Int], longs : Int, shorts : Int]
Book0 == [held |-> [s \in Subaccounts |-> 0], longs |-> 0, shorts |-> 0]

Booked(book, fill) ==
    LET before == book.held[fill.sub]
        after == before + Signed(fill)
    IN  [held |-> [book.held EXCEPT ![fill.sub] = after],
         longs |-> book.longs - (IF before > 0 THEN before ELSE 0) + (IF after > 0 THEN after ELSE 0),
         shorts |-> book.shorts - (IF before < 0 THEN -before ELSE 0) + (IF after < 0 THEN -after ELSE 0)]

Settlement == [time : Times, value : {0, One}, quantity : Int, readable : BOOLEAN,
               revenue : Int, fee : SettlementFees]

Unsettled == [time |-> None, value |-> 0, quantity |-> 0, readable |-> FALSE,
              revenue |-> 0, fee |-> None]

\* The book before any settlement, and now.
LastBook == books[Len(history) + 1]
BookNow == IF settlement = Unsettled THEN LastBook ELSE Book0

---------------------------------------------------------------------------
(* Episodes and ledgers.                                                   *)

Episode == [opening : FillIds \cup {0}, sign : {-1, 0, 1}, fills : SUBSET FillIds,
            opened : Nat, closed : Nat, remaining : Nat, realized : Int,
            costComplete : BOOLEAN, fees : Int, feeComplete : BOOLEAN,
            last : Nat, outcomeProvable : BOOLEAN,
            closedBy : {"nothing", "fill", "settlement"},
            authority : {"not_reconciled", "closed_by_fills", "explained_settled",
                         "reconciled_current", "unexplained", "conflicted"}]

EARNED_AUTHORITY == {"closed_by_fills", "explained_settled", "reconciled_current"}

NewEpisode(opening, sign, time) ==
    [opening |-> opening, sign |-> sign, fills |-> {}, opened |-> 0, closed |-> 0,
     remaining |-> 0, realized |-> 0, costComplete |-> TRUE, fees |-> 0, feeComplete |-> TRUE,
     last |-> time, outcomeProvable |-> TRUE, closedBy |-> "nothing",
     authority |-> "not_reconciled"]

NoEpisode == NewEpisode(0, 0, 0)

\* current: the open episode or NoEpisode; past: the closed ones.
MarketLedger == [position : Int, average : Int, costComplete : BOOLEAN,
                 current : Episode, past : SUBSET Episode]

Flat == [position |-> 0, average |-> None, costComplete |-> TRUE,
         current |-> NoEpisode, past |-> {}]

Episodes(ledger) ==
    ledger.past \cup (IF ledger.current = NoEpisode THEN {} ELSE {ledger.current})

---------------------------------------------------------------------------
(* apply_fill.                                                             *)

\* _record.
Executed(episode, fill, opened, closed, gain, after, basisKnown, chargeFee) ==
    [episode EXCEPT
        !.fills = @ \cup {fill.id},
        !.opened = @ + opened, !.closed = @ + closed, !.remaining = Abs(after),
        !.realized = @ + gain, !.costComplete = @ /\ basisKnown,
        !.fees = IF chargeFee /\ Fee(fill) # None THEN @ + Fee(fill) ELSE @,
        !.feeComplete = @ /\ chargeFee /\ Fee(fill) # None,
        !.last = fill.time]

\* A reduction's economics are known from the fill's price and the basis.
Priced(ledger, fill) == Price(fill) # None /\ ledger.average # None /\ ledger.costComplete

\* A gain that forgets that a long-NO position gains when the price falls.
Gain_Unsigned(ledger, fill, closed) ==
    IF Priced(ledger, fill) THEN (Price(fill) - ledger.average) * closed ELSE 0

Gain(ledger, fill, closed) ==
    IF Priced(ledger, fill)
    THEN (Price(fill) - ledger.average) * closed * Sign(ledger.position) ELSE 0

\* An execution that opens a position on a flat ledger.
Opening(ledger, fill, after, chargeFee) ==
    LET known == Price(fill) # None
    IN  [ledger EXCEPT
            !.position = after, !.average = Price(fill), !.costComplete = known,
            !.current = Executed(NewEpisode(fill.id, Sign(after), fill.time), fill,
                                 Abs(after), 0, 0, after, known, chargeFee)]

Increasing(ledger, fill, after) ==
    LET known == Price(fill) # None /\ ledger.average # None
        notional == ledger.average * Abs(ledger.position) + Price(fill) * Count(fill)
    IN  [ledger EXCEPT
            !.position = after, !.average = IF known THEN notional \div Abs(after) ELSE None,
            !.costComplete = @ /\ known,
            !.current = Executed(@, fill, Count(fill), 0, 0, after, ledger.costComplete /\ known, TRUE)]

Reducing(ledger, fill, after) ==
    [ledger EXCEPT
        !.position = after, !.costComplete = Priced(ledger, fill),
        !.current = Executed(@, fill, 0, Count(fill), Gain(ledger, fill, Count(fill)), after,
                             Priced(ledger, fill), TRUE)]

\* The execution takes the position to zero and ends its episode.
Closing(ledger, fill, chargeFee) ==
    LET closed == Abs(ledger.position)
        episode == Executed(ledger.current, fill, 0, closed, Gain(ledger, fill, closed), 0,
                            Priced(ledger, fill), chargeFee)
    IN  [ledger EXCEPT
            !.position = 0, !.average = None, !.costComplete = TRUE, !.current = NoEpisode,
            !.past = @ \cup {[episode EXCEPT !.closedBy = "fill"]}]

\* A reversal that charges its fee to the episode it closes.
Reversing_ChargesBoth(ledger, fill, after) ==
    Opening(Closing(ledger, fill, TRUE), fill, after, TRUE)

\* A reversal whose new episode keeps the key of the one it ends.
Reversing_KeepsKey(ledger, fill, after) ==
    [Opening(Closing(ledger, fill, FALSE), fill, after, FALSE)
        EXCEPT !.current.opening = ledger.current.opening]

\* A reversal: all of the old side, the remainder on the new one, and a fee
\* that belongs to neither.
Reversing(ledger, fill, after) == Opening(Closing(ledger, fill, FALSE), fill, after, FALSE)

\* A classification that reads every step towards the other side as a close.
Applied_NoReversal(ledger, fill) ==
    LET after == ledger.position + Signed(fill)
    IN  CASE ledger.position = 0 -> Opening(ledger, fill, after, TRUE)
          [] ledger.position # 0 /\ Sign(after) # Sign(ledger.position) ->
                [Closing(ledger, fill, TRUE) EXCEPT !.position = after]
          [] OTHER -> IF Abs(after) > Abs(ledger.position)
                      THEN Increasing(ledger, fill, after) ELSE Reducing(ledger, fill, after)

Applied(ledger, fill) ==
    LET before == ledger.position
        after == before + Signed(fill)
    IN  CASE before = 0 -> Opening(ledger, fill, after, TRUE)
          [] before # 0 /\ after = 0 -> Closing(ledger, fill, TRUE)
          [] before # 0 /\ Sign(after) = -Sign(before) -> Reversing(ledger, fill, after)
          [] OTHER -> IF Abs(after) > Abs(before)
                      THEN Increasing(ledger, fill, after) ELSE Reducing(ledger, fill, after)

---------------------------------------------------------------------------
(* apply_settlement.                                                       *)

\* Flat, or a stated size that is not the replayed one.
Refuses(ledger, row) == ledger.position = 0 \/ (row.readable /\ row.quantity # ledger.position)

\* The exchange's own payout against the basis on the member's side.
SettlementGain(ledger, row) ==
    LET cost == IF ledger.position > 0 THEN ledger.average ELSE One - ledger.average
    IN  row.revenue - cost * Abs(ledger.position)

Settled(ledger, row) ==
    LET known == ledger.costComplete /\ ledger.average # None
        closed == Abs(ledger.position)
        episode == [ledger.current EXCEPT
                        !.closed = @ + closed, !.remaining = 0, !.closedBy = "settlement",
                        !.realized = @ + (IF known THEN SettlementGain(ledger, row) ELSE 0),
                        !.costComplete = @ /\ known,
                        !.fees = IF row.fee # None THEN @ + row.fee ELSE @,
                        !.feeComplete = @ /\ row.fee # None,
                        !.last = row.time]
    IN  [ledger EXCEPT !.position = 0, !.average = None, !.current = NoEpisode,
                       !.past = @ \cup {episode}]

---------------------------------------------------------------------------
(* The audit's reads.                                                      *)

\* complete: both fill routes ran out of data.  row: the settlement as read,
\* or Unsettled.  floor: the settlements route's evidence floor.  said: what
\* the positions route says of the market.  from, begun, settled: how many
\* executions there were, and whether the market was settled, when the audit
\* began; whether it was settled when the settlements were read; whole: the
\* fills read by then were all there were (the program sees none of these).
Audit == [complete : BOOLEAN, fills : SUBSET Fill, row : Settlement \cup {Unsettled},
          floor : Times \cup {None},
          said : {"not_asked", "absent", "unreadable", "quantity"}, quantity : Int,
          from : Nat, begun : BOOLEAN, settled : BOOLEAN, whole : BOOLEAN]

NoAudit == [complete |-> FALSE, fills |-> {}, row |-> Unsettled, floor |-> None,
            said |-> "not_asked", quantity |-> 0,
            from |-> 0, begun |-> FALSE, settled |-> FALSE, whole |-> FALSE]

Reads == {"live", "archive", "settlements", "positions"}
Phases == Reads \cup {"fills", "authority", "done"}

TypeOK ==
    /\ history \in Seq(Fill) /\ books \in Seq(Book) /\ Len(books) = Len(history) + 1
    /\ cutoff \in Times /\ settlement \in Settlement \cup {Unsettled}
    /\ pc \in Phases /\ audit \in Audit /\ todo \in SUBSET audit.fills
    /\ ledgers \in [Subaccounts -> MarketLedger]

Init ==
    /\ history = <<>> /\ books = <<Book0>> /\ cutoff = 0 /\ settlement = Unsettled
    /\ pc = "live" /\ audit = NoAudit /\ todo = {}
    /\ ledgers = [s \in Subaccounts |-> Flat]

---------------------------------------------------------------------------
(* The exchange moves between the audit's reads.                           *)

Execute(fill) ==
    /\ pc \in Reads /\ settlement = Unsettled /\ Len(history) < MaxFills
    /\ \A i \in DOMAIN history :
          /\ history[i].id # fill.id /\ history[i].time <= fill.time
          /\ TiesFollowIds /\ history[i].time = fill.time => history[i].id < fill.id
    /\ cutoff <= fill.time /\ fill.exposure \in SidesOf[fill.id]
    /\ history' = Append(history, fill) /\ books' = Append(books, Booked(LastBook, fill))
    /\ UNCHANGED <<cutoff, settlement, pc, audit, todo, ledgers>>

\* One row for the whole account: a net count that may be unreadable, and the
\* payout of every winning contract.
SettleMarket(time, value, readable, fee) ==
    /\ pc \in Reads /\ settlement = Unsettled /\ LastBook.longs + LastBook.shorts > 0
    /\ \A i \in DOMAIN history : history[i].time <= time
    /\ settlement' = [time |-> time, value |-> value, readable |-> readable, fee |-> fee,
                      quantity |-> LastBook.longs - LastBook.shorts,
                      revenue |-> One * (IF value = One THEN LastBook.longs ELSE LastBook.shorts)]
    /\ UNCHANGED <<history, books, cutoff, pc, audit, todo, ledgers>>

\* What is archived has already happened: nothing executes before the cutoff.
AdvanceCutoff ==
    /\ pc \in Reads /\ cutoff < MaxTime /\ cutoff' = cutoff + 1
    /\ UNCHANGED <<history, books, settlement, pc, audit, todo, ledgers>>

---------------------------------------------------------------------------
(* The audit.                                                              *)

Live == {history[i] : i \in {j \in DOMAIN history : history[j].time >= cutoff}}
Archived == {history[i] : i \in {j \in DOMAIN history : history[j].time < cutoff}}

\* The routes serve the newest rows first.
Newest(rows) == {{history[i] : i \in n..Len(history)} \cap rows : n \in 1..Len(history) + 1}

\* What is left when rows that do not parse are left out.
Parsed(rows) == IF MayReject THEN SUBSET rows ELSE {rows}

Begun == [audit EXCEPT !.from = Len(history), !.begun = settlement # Unsettled]

\* --full-history: the live route to exhaustion, then the archive.
WalkLive ==
    /\ pc = "live" /\ pc' = "archive"
    /\ \E fills \in Parsed(Live) : audit' = [Begun EXCEPT !.fills = fills]
    /\ UNCHANGED <<exchange, todo, ledgers>>

\* A budget on the live route; the archive is skipped.
WalkBounded ==
    /\ pc = "live" /\ pc' = "settlements"
    /\ \E rows \in Newest(Live) : \E fills \in Parsed(rows) : audit' = [Begun EXCEPT !.fills = fills]
    /\ UNCHANGED <<exchange, todo, ledgers>>

\* The archive to exhaustion: the history is complete, whatever was rejected.
WalkArchive ==
    /\ pc = "archive" /\ pc' = "settlements"
    /\ \E fills \in Parsed(Archived) :
          audit' = [audit EXCEPT !.fills = @ \cup fills, !.complete = TRUE]
    /\ UNCHANGED <<exchange, todo, ledgers>>

\* A failed archive read as an empty one.
ArchiveFails_Empty ==
    /\ pc = "archive" /\ pc' = "settlements"
    /\ \E rows \in Newest(Archived) : \E fills \in Parsed(rows) :
          audit' = [audit EXCEPT !.fills = @ \cup fills, !.complete = TRUE]
    /\ UNCHANGED <<exchange, todo, ledgers>>

\* An archive that fails is unproven, never empty: what came first is kept.
ArchiveFails ==
    /\ pc = "archive" /\ pc' = "settlements"
    /\ \E rows \in Newest(Archived) : \E fills \in Parsed(rows) :
          audit' = [audit EXCEPT !.fills = @ \cup fills]
    /\ UNCHANGED <<exchange, todo, ledgers>>

\* Reconciliation was not asked for: no settlement, no floor, no position.
SkipReconciliation ==
    /\ pc = "settlements" /\ pc' = "fills" /\ todo' = audit.fills
    /\ UNCHANGED <<exchange, audit, ledgers>>

\* Rows and floors the settlements route may give.  The floor is the earliest
\* row of any market: no later than a row that was served, later than one the
\* route no longer reaches, and withheld when any row does not parse.
SettlementViews ==
    IF settlement = Unsettled THEN {Unsettled} \X (Times \cup {None})
    ELSE ({settlement} \X (0..settlement.time \cup {None}))
         \cup ({Unsettled} \X ({t \in Times : t > settlement.time} \cup {None}))

ReadSettlements ==
    /\ pc = "settlements" /\ pc' = "positions"
    /\ \E view \in SettlementViews :
          audit' = [audit EXCEPT !.row = view[1], !.floor = view[2],
                                 !.settled = settlement # Unsettled,
                                 !.whole = Cardinality(audit.fills) = Len(history)]
    /\ UNCHANGED <<exchange, todo, ledgers>>

\* exchange_position_view: a market held nowhere may be absent; one whose
\* quantity does not parse is kept.
ReadPositions ==
    LET book == BookNow
    IN  /\ pc = "positions" /\ pc' = "fills" /\ todo' = audit.fills
        /\ \E said \in {"unreadable", "quantity"}
                       \cup (IF book.longs + book.shorts = 0 THEN {"absent"} ELSE {}) :
              audit' = [audit EXCEPT !.said = said,
                          !.quantity = IF said = "quantity" THEN book.longs - book.shorts ELSE 0]
        /\ UNCHANGED <<exchange, ledgers>>

ApplyFill(fill) ==
    /\ pc = "fills" /\ fill \in todo
    /\ \A other \in todo \ {fill} : Before(fill, other)
    /\ ledgers' = [ledgers EXCEPT ![fill.sub] = Applied(@, fill)]
    /\ todo' = todo \ {fill}
    /\ UNCHANGED <<exchange, pc, audit>>

\* The subaccounts the replay keeps a ledger of.
HeldIn == {s \in Subaccounts : Episodes(ledgers[s]) # {}}
SettlementEvidence == audit.row # Unsettled /\ HeldIn # {}

\* A refused settlement that leaves the episode looking open.
Unresolved_StillOpen(ledger) == ledger

Unresolved(ledger) ==
    IF ledger.current = NoEpisode THEN ledger
    ELSE [ledger EXCEPT !.current.outcomeProvable = FALSE]

ApplySettlement ==
    /\ pc = "fills" /\ todo = {} /\ pc' = "authority"
    /\ ledgers' = [s \in Subaccounts |->
          IF ~SettlementEvidence THEN ledgers[s]
          ELSE IF HeldIn = {s} /\ ~Refuses(ledgers[s], audit.row)
          THEN Settled(ledgers[s], audit.row) ELSE Unresolved(ledgers[s])]
    /\ UNCHANGED <<exchange, audit, todo>>

\* _mark_settlement_coverage.
Covered(episode) ==
    [episode EXCEPT !.outcomeProvable =
        @ /\ (SettlementEvidence \/ audit.floor = None \/ episode.last >= audit.floor)]

ClosedAuthority(episode) ==
    IF episode.closedBy = "settlement" THEN "explained_settled" ELSE "closed_by_fills"

\* _open_episode_authority.
OpenAuthority(ledger) ==
    CASE SettlementEvidence -> "conflicted"
      [] ~SettlementEvidence /\ audit.said = "not_asked" -> "not_reconciled"
      [] ~SettlementEvidence /\ audit.said = "absent" -> "unexplained"
      [] OTHER -> IF /\ Cardinality(HeldIn) = 1 /\ audit.said = "quantity"
                     /\ audit.quantity = ledger.position
                  THEN "reconciled_current" ELSE "conflicted"

AssignAuthority ==
    /\ pc = "authority" /\ pc' = "done"
    /\ ledgers' = [s \in Subaccounts |->
          [ledgers[s] EXCEPT
              !.past = {[e EXCEPT !.authority = ClosedAuthority(e)] : e \in @},
              !.current = IF @ = NoEpisode THEN @
                          ELSE [Covered(@) EXCEPT !.authority = OpenAuthority(ledgers[s])]]]
    /\ UNCHANGED <<exchange, audit, todo>>

\* A new audit, after one that ended or one that a route's failure aborted.
Restart ==
    /\ pc \in {"settlements", "positions", "done"} /\ pc' = "live"
    /\ audit' = NoAudit /\ ledgers' = [s \in Subaccounts |-> Flat]
    /\ UNCHANGED <<exchange, todo>>

Next ==
    \/ \E fill \in Fill : Execute(fill)
    \/ \E time \in Times, value \in {0, One}, readable \in BOOLEAN, fee \in SettlementFees :
          SettleMarket(time, value, readable, fee)
    \/ AdvanceCutoff
    \/ WalkLive \/ WalkBounded \/ WalkArchive \/ ArchiveFails
    \/ SkipReconciliation \/ ReadSettlements \/ ReadPositions
    \/ \E fill \in todo : ApplyFill(fill)
    \/ ApplySettlement \/ AssignAuthority \/ Restart

Spec == Init /\ [][Next]_vars

---------------------------------------------------------------------------
(* What is claimed.                                                        *)

Importable(episode) == audit.complete /\ episode.authority \in EARNED_AUTHORITY

\* claims_complete_position_state.
ClaimsCompletePositionState ==
    /\ pc = "done" /\ audit.complete
    /\ \A s \in Subaccounts : \A e \in Episodes(ledgers[s]) : e.authority \in EARNED_AUTHORITY

\* The true episodes: what execution i made of its subaccount's holding.
HeldBefore(i) == books[i].held[history[i].sub]
HeldAfter(i) == books[i + 1].held[history[i].sub]
Opens(i) == HeldAfter(i) # 0 /\ Sign(HeldAfter(i)) # Sign(HeldBefore(i))
Ends(i) == HeldBefore(i) # 0 /\ Sign(HeldAfter(i)) # Sign(HeldBefore(i))

\* The executions of the true episode that i opened.
TrueFills(i) ==
    {history[j].id : j \in {k \in i..Len(history) :
        /\ history[k].sub = history[i].sub
        /\ \A m \in i + 1..k - 1 : history[m].sub = history[i].sub => ~Ends(m)}}

Replayed(s) == {fill \in audit.fills \ todo : pc \notin Reads /\ fill.sub = s}

\* The settlement's payout is that of subaccount s alone, and of all of it.
PaysFor(s) ==
    /\ \A t \in Subaccounts \ {s} : LastBook.held[t] = 0
    /\ audit.whole \/ audit.row.readable

---------------------------------------------------------------------------
(* Properties.                                                             *)

FlatToFlat(ledger) ==
    LET open == ledger.current
    IN  /\ (ledger.position = 0) <=> (open = NoEpisode)
        /\ open # NoEpisode =>
              /\ open.closedBy = "nothing" /\ open.sign = Sign(ledger.position)
              /\ open.remaining = Abs(ledger.position)
              /\ open.opened - open.closed = Abs(ledger.position)
        /\ \A e \in ledger.past :
              /\ e.closedBy # "nothing" /\ e.remaining = 0
              /\ e.opened = e.closed /\ e.opened > 0

\* An episode is one flat-to-flat span on one side (position.py:
\* PositionEpisode, apply_fill, apply_settlement): the ledger is flat exactly
\* when no episode is open, an open one owns the whole position on its own
\* side, and a closed one closed all it opened and holds nothing.
EpisodesAreFlatToFlat == \A s \in Subaccounts : FlatToFlat(ledgers[s])

OneKeyEach(ledger) == \A e, f \in Episodes(ledger) : e.opening = f.opening => e = f

\* The source key of an episode names one episode only (identity.py:
\* episode_source_key is made of the subaccount and the opening fill): no two
\* episodes of a subaccount, opened by fills or by a reversal, share it.
KeysNameOneEpisode == \A s \in Subaccounts : OneKeyEach(ledgers[s])

\* Realized P&L is cash (position.py: _realized, apply_settlement): when every
\* cost basis is claimed complete, what the episodes realized is what the
\* replayed executions paid and received, valuing an open position at its
\* average and a settled one at what each contract paid.
CashConserved ==
    \A s \in Subaccounts :
        LET ledger == ledgers[s]
            realized == [e \in Episodes(ledger) |-> e.realized]
            paid == [f \in Replayed(s) |-> Signed(f) * Price(f)]
            settled == \E e \in Episodes(ledger) : e.closedBy = "settlement"
            remains == IF settled THEN LastBook.held[s] * audit.row.value
                       ELSE IF ledger.position = 0 THEN 0 ELSE ledger.position * ledger.average
        IN  (\A e \in Episodes(ledger) : e.costComplete) /\ (settled => PaysFor(s)) =>
                /\ \A fill \in Replayed(s) : Price(fill) # None
                /\ SumOver(realized, Episodes(ledger)) + SumOver(paid, Replayed(s)) = remains

\* A fee is paid once (position.py: charge_fee, fee_allocation_ambiguous): the
\* episodes' fees are the known fees of their executions and settlement, each
\* counted once; a reversal's fee is in neither of its two episodes; and an
\* episode says its fees are complete only when every one of them is known.
FeesCountedOnce ==
    \A s \in Subaccounts :
        LET episodes == Episodes(ledgers[s])
            Owners(fill) == {e \in episodes : fill.id \in e.fills}
            known == {f \in Replayed(s) : Fee(f) # None /\ \E e \in episodes : Owners(f) = {e}}
            fees == [e \in episodes |-> e.fees]
            charged == [f \in known |-> Fee(f)]
            settled == \E e \in episodes : e.closedBy = "settlement"
        IN  /\ SumOver(fees, episodes)
                = SumOver(charged, known) + (IF settled /\ audit.row.fee # None THEN audit.row.fee ELSE 0)
            /\ \A f \in Replayed(s) \ known : \A e \in Owners(f) : ~e.feeComplete

\* An importable episode is a real one (position.py: identity; history.py:
\* complete; engine.py: _assign_authority): its opening fill opened a true
\* episode of that subaccount on that side, its executions all belong to it,
\* and when it says it closed by fills they are all of them.
ImportableIsReal ==
    \A s \in Subaccounts : \A e \in Episodes(ledgers[s]) :
        Importable(e) =>
            \E i \in DOMAIN history :
                /\ history[i].sub = s /\ history[i].id = e.opening
                /\ Opens(i) /\ Sign(HeldAfter(i)) = e.sign
                /\ e.fills \subseteq TrueFills(i)
                /\ e.authority = "closed_by_fills" => e.fills = TrueFills(i)

\* An importable episode closed by fills was observed in full (position.py:
\* CLOSED_BY_FILLS; engine.py: fill_history_complete): it holds every
\* execution of the true episode it names.
EveryFillWasObserved ==
    \A s \in Subaccounts : \A e \in Episodes(ledgers[s]) :
        Importable(e) /\ e.authority = "closed_by_fills" =>
            \E i \in DOMAIN history :
                history[i].sub = s /\ history[i].id = e.opening /\ e.fills = TrueFills(i)

\* A claimed position state is one the account was in (engine.py:
\* claims_complete_position_state): although the routes are read one after the
\* other while the exchange moves, the ledgers the claim is about are what the
\* account held at one moment since the audit began.
ClaimHeldAtSomeMoment ==
    ClaimsCompletePositionState =>
        \/ settlement # Unsettled /\ \A s \in Subaccounts : ledgers[s].position = 0
        \/ /\ ~audit.begun
           /\ \E n \in audit.from..Len(history) :
                 \A s \in Subaccounts : ledgers[s].position = books[n + 1].held[s]

\* Inventory shown as live is live (engine.py: _mark_outcome_unprovable,
\* _mark_settlement_coverage): where the settlements route spoke, or says how
\* far back it reaches, a market it had settled has no open episode whose
\* outcome still counts as provable.
LiveInventoryIsLive ==
    pc = "done" /\ audit.settled /\ (audit.row # Unsettled \/ audit.floor # None) =>
        \A s \in Subaccounts :
            ledgers[s].current # NoEpisode => ~ledgers[s].current.outcomeProvable
=============================================================================
