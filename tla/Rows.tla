-------------------------------- MODULE Rows --------------------------------
(***************************************************************************)
(* From the exchange's fill objects to a destination's row and back:       *)
(* models.normalize_fill, accounting/execution, the wager of production,   *)
(* the row builders, and the words backfill reads a ledger in.             *)
(*                                                                         *)
(* Money is in cents.  An average price is a pair of cost and contracts.   *)
(***************************************************************************)
EXTENDS Sums

None == 0 - 1  \* an absent number
Whole == 100
Sides == {"yes", "no"}

-----------------------------------------------------------------------------
(* A fill object: outcome, book, verb and side as the exchange states them *)
(* ("absent", or a word nobody knows), the prices of both legs, in dollars *)
(* or in the older cents, quantity, fee, account and time.                 *)

BookOutcome == [bid |-> "yes", ask |-> "no"]

\* What names the contract: outcome_side, book_side, and side with its verb.
Contracts(raw) ==
    {raw.outcome,
     IF raw.book \in {"bid", "ask"} THEN BookOutcome[raw.book] ELSE raw.book,
     IF raw.verb # "absent" THEN raw.side ELSE "absent"} \ {"absent"}

\* _resolve_direction: one contract, and a verb, which nothing else carries.
Directed(raw) ==
    /\ Cardinality(Contracts(raw)) = 1 /\ Contracts(raw) \subseteq Sides
    /\ raw.verb \in {"buy", "sell"} /\ raw.side \in Sides
Contract(raw) == CHOOSE c \in Contracts(raw) : TRUE

\* exposure_from_legacy.
Exposure(verb, side) == IF (verb = "buy") = (side = "yes") THEN "yes" ELSE "no"

\* _parse_price, _resolve_legs: legs in range that sum to one.  A lone price in
\* cents says nothing unless a current field says which contract it is of.
Canonical(raw) == raw.outcome # "absent" \/ raw.book # "absent"
Proven(raw) == raw.dollars \/ Canonical(raw) \/ None \notin {raw.yes, raw.no}
LegsSound(raw) ==
    /\ \A leg \in {raw.yes, raw.no} \ {None} : 0 < leg /\ leg < Whole
    /\ None \in {raw.yes, raw.no} \/ raw.yes + raw.no = Whole

\* The coordinate on the YES axis; direction is carried by the contract alone.
AxisPrice(raw) ==
    IF raw.yes # None THEN raw.yes ELSE IF raw.no # None THEN Whole - raw.no ELSE None

\* _parse_quantity: a count, and more than none.
QuantityRead(raw) == raw.count > 0

\* _parse_fee: an absent fee stays unknown, a negative one refuses the fill.
FeeRead(raw) == raw.fee = None \/ raw.fee >= 0

\* _parse_subaccount: an absent account is an account of its own, a malformed
\* one refuses the fill.
AccountRead(raw) == raw.account # "malformed"

\* parse_execution_time.
TimeRead(raw) == raw.timed

Readable(raw) ==
    /\ Directed(raw) /\ LegsSound(raw)
    /\ QuantityRead(raw) /\ FeeRead(raw) /\ AccountRead(raw) /\ TimeRead(raw)

\* normalize_fill.
Normalize(raw) ==
    [id |-> raw.id, order |-> raw.order, ticker |-> raw.ticker, account |-> raw.account,
     contract |-> Contract(raw), exposure |-> Exposure(raw.verb, raw.side), verb |-> raw.verb,
     price |-> IF Proven(raw) THEN AxisPrice(raw) ELSE None,
     count |-> raw.count, fee |-> raw.fee]

\* probe_fills: what cannot be read is left out.
Accepted(raws) == {Normalize(raw) : raw \in {r \in raws : Readable(r)}}

-----------------------------------------------------------------------------
(* Orders and wagers.                                                      *)

\* What the fills of an order must agree on; its book side follows from the
\* contract, so that the check on book_sides refuses nothing more.
Uniform(fills) ==
    \A f, g \in fills :
      /\ f.ticker = g.ticker /\ f.account = g.account
      /\ f.contract = g.contract /\ f.exposure = g.exposure

Quantity(fills) == SumOver([f \in fills |-> f.count], fills)

\* weighted_average_price and the fees: of every fill or of none.
Notional(fills) ==
    IF \E f \in fills : f.price = None THEN None
    ELSE SumOver([f \in fills |-> f.price * f.count], fills)
Fees(fills) ==
    IF \E f \in fills : f.fee = None THEN None ELSE SumOver([f \in fills |-> f.fee], fills)

OrderExecution(order, fills) ==
    LET own == {f \in fills : f.order = order}
        one == CHOOSE f \in own : TRUE
    IN [order |-> order, ticker |-> one.ticker, account |-> one.account, contract |-> one.contract,
        exposure |-> one.exposure,
        contracts |-> Quantity(own), notional |-> Notional(own), fees |-> Fees(own)]

\* evaluate_order's own conditions; every other gate may refuse or defer.
Priced(execution) == execution.notional # None /\ execution.fees # None

\* The cost of the contract named, NO being what YES leaves of the whole.
Cost_OnTheAxis(execution) == execution.notional
Cost(execution) ==
    IF execution.contract = "yes" THEN execution.notional
    ELSE Whole * execution.contracts - execution.notional

\* production_source_key and the ProductionWager: the side is the contract's
\* (EXPOSURE_SIDE_DESTINATIONS is empty).
Wager(execution) ==
    [key |-> <<execution.account, execution.ticker, execution.order>>,
     ticker |-> execution.ticker, side |-> execution.contract,
     contracts |-> execution.contracts, price |-> <<Cost(execution), execution.contracts>>,
     fees |-> execution.fees, stake |-> Cost(execution) + execution.fees]

-----------------------------------------------------------------------------
(* Rows in each destination's words.                                       *)

\* to_mlb_import_row, execution_economics.
MlbRow(w) ==
    [sourceBetKey |-> w.key, marketTicker |-> w.ticker, side |-> w.side, stake |-> w.stake,
     entryPrice |-> w.price, contracts |-> w.contracts,
     executionEconomics |-> [contractCost |-> w.price[1], totalFees |-> w.fees]]

\* to_nfl_import_row; the venue, the batch and the date are left out.
NflRow(w) ==
    [source_bet_key |-> w.key, market_ticker |-> w.ticker, side |-> w.side, stake |-> w.stake,
     actual_price |-> w.price, contracts |-> w.contracts, fees_paid |-> w.fees]

\* to_cfb_import_row, to_nhl_import_row and the shared ledger's.
SharedRow(w) ==
    [source_bet_key |-> w.key, market_ticker |-> w.ticker, side |-> w.side, stake |-> w.stake,
     execution_price |-> w.price, contracts |-> w.contracts, fees_paid |-> w.fees]

Row(sport, w) ==
    CASE sport = "MLB" -> MlbRow(w) [] sport = "NFL" -> NflRow(w) [] OTHER -> SharedRow(w)

\* LEDGER_VOCABULARIES: the key, and the words of what is compared.
Vocabulary(sport) ==
    [key |-> IF sport = "MLB" THEN "sourceBetKey" ELSE "source_bet_key",
     ticker |-> IF sport = "MLB" THEN "marketTicker" ELSE "market_ticker",
     side |-> "side", stake |-> "stake",
     price |-> CASE sport = "MLB" -> "entryPrice" [] sport = "NFL" -> "actual_price"
                 [] OTHER -> "execution_price"]

\* normalize_ledger_row: a field the row does not carry is absent.
Carries(sport, row, field) == Vocabulary(sport)[field] \in DOMAIN row
Reads(sport, row, field) == row[Vocabulary(sport)[field]]
States(sport, row, field, value) == Carries(sport, row, field) /\ Reads(sport, row, field) = value

\* The destination's importer: a row it has every field of, priced within the
\* dollar, whose stake is its cost and its fees (build_wager, validate_wager).
Importable(sport, row) ==
    LET price == Reads(sport, row, "price")
        fees == IF sport = "MLB" THEN row.executionEconomics.totalFees ELSE row.fees_paid
    IN /\ \A field \in DOMAIN Vocabulary(sport) : Carries(sport, row, field)
       /\ row.contracts > 0 /\ price[2] = row.contracts
       /\ 0 < price[1] /\ price[1] < Whole * row.contracts
       /\ fees >= 0 /\ row.stake > 0 /\ row.stake = price[1] + fees
=============================================================================
