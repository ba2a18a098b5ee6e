---------------------------- MODULE MCAlongside ----------------------------
(***************************************************************************)
(* Alongside on small instances: two orders, two events, two               *)
(* recommendations, two fills of one order and one of another; a job of    *)
(* two ticks and a usable age of six.                                      *)
(***************************************************************************)
EXTENDS Alongside

\* Entry capture: an order that buys and one an older collector aggregated.
TickerOfMC == [o \in Orders |-> "t"]
FillsOfMC == [o1 |-> <<"buy">>, o2 |-> <<"sell">>]

\* Operations: the conductor dispatches deliveries only.
CadenceMC == [deliver |-> 1]
ListLimitMC == [deliver |-> 2, settle |-> 1]

\* The app tree: boards of one event, of another, of both, and one that
\* recommends what it does not list; two attempts of one run.
BoardsMC == {[events |-> {"e1"}, recommended |-> {}], [events |-> {"e2"}, recommended |-> {}],
             [events |-> {"e1", "e2"}, recommended |-> {"e1"}],
             [events |-> {"e1"}, recommended |-> {"e2"}]}
RunOfMC == <<1, 1>>

\* Evidence: a destination that takes evidence.
ProfileMC == [switch |-> TRUE, importer |-> TRUE, committable |-> TRUE]

\* The backfill: an order of two fills and another on the same market and side;
\* the exchange describes them in its current words, its older ones or a mix.
Bought(id, order, verb, price, count, fee) ==
    [id |-> id, order |-> order, ticker |-> "t", contract |-> "no", verb |-> verb,
     price |-> price, count |-> count, fee |-> fee]
TradedMC == {Bought("f1", "o1", "buy", 40, 1, 2), Bought("f2", "o1", "buy", 44, 2, 0),
           Bought("f3", "o2", "sell", 30, 2, 1)}
Unstated == 0 - 1
InForm(f, form) ==
    LET current == [id |-> f.id, order |-> f.order, ticker |-> f.ticker, account |-> "default",
                    timed |-> TRUE, outcome |-> "no", book |-> "ask", verb |-> f.verb,
                    side |-> "no", yes |-> 100 - f.price, no |-> f.price, dollars |-> TRUE,
                    count |-> f.count, fee |-> f.fee]
        older == [current EXCEPT !.outcome = "absent", !.book = "absent", !.dollars = FALSE]
    IN CASE form = "current" -> current
         [] form = "verbless" -> [current EXCEPT !.verb = "absent", !.side = "absent"]
         [] form = "older" -> older
         [] form = "olderOneLeg" -> [older EXCEPT !.yes = Unstated]
         [] form = "oneLeg" -> [current EXCEPT !.yes = Unstated]
         [] form = "feeless" -> [current EXCEPT !.fee = Unstated]
         [] form = "torn" -> [current EXCEPT !.book = "bid"]
ServedMC ==
    {{InForm(f, "older") : f \in TradedMC}} \cup
    {{InForm(f, IF f = g THEN form ELSE "current") : f \in TradedMC} :
       g \in TradedMC,
       form \in {"current", "verbless", "older", "olderOneLeg", "oneLeg", "feeless", "torn"}}
RestServedMC == {InForm(f, "current") : f \in TradedMC}
=============================================================================
