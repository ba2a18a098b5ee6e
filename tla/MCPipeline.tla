----------------------------- MODULE MCPipeline -----------------------------
(***************************************************************************)
(* Deliver runs over a single market M, another L, and a combo C of both,  *)
(* with one order on M and one on C.  Every catalogue at most              *)
(* MaxDeviations facts away from one in perfect order is an initial state; *)
(* only under the one in perfect order do orders also fill and markets     *)
(* close between and under the runs, and only under those at most one fact *)
(* away do calls fail.                                                     *)
(***************************************************************************)
EXTENDS Pipeline

CONSTANTS Contradictory,  \* whether an order's fills may contradict one another
          MaxDeviations

MCTickerOrder == <<"C", "L", "M">>
MCTickerOf == [single |-> "M", parlay |-> "C"]
MCEventOf == [C |-> "exotics", L |-> "game", M |-> "game"]
MCSeriesOf == [C |-> "exotics", L |-> "league", M |-> "league"]

\* Extracts of the tables of competitions.py.
MCDirect == [pro_football |-> "NFL", pro_baseball |-> "MLB", pro_hockey |-> "NHL", wnba |-> "OTHER"]
MCFamilyMembers ==
    [football |-> {"NFL", "CFB"}, baseball |-> {"MLB"}, hockey |-> {"NHL"},
     soccer |-> {"SOCCER"}, golf |-> {}]
MCSettledBySport == [soccer |-> "SOCCER", golf |-> "OTHER"]
MCClosedNames == [NHL |-> {"pro_hockey"}]

MCClaims ==
    {<<"football", "pro_football">>, <<"baseball", "pro_baseball">>, <<"hockey", "pro_hockey">>,
     <<"soccer", "super_cup">>, <<"football", "new_league">>, <<"golf", "open">>}

InOrder ==
    [markets |->
       [t \in Tickers |->
          [competition |-> IF t = "C" THEN "null" ELSE "pro_football",
           seriesMarks |-> {}, eventMarks |-> {},
           registry |-> IF t = "C" THEN Nothing ELSE "NFL",
           legs |-> IF t = "C" THEN {"L", "M"} ELSE {}, namelessLeg |-> FALSE,
           collection |-> t = "C", fieldDate |-> Nothing,
           tickerDate |-> IF t = "C" THEN Nothing ELSE "sunday"]],
     booked |-> [o \in Orders |-> "complete"],
     claims |-> MCClaims]

Competitions == (DOMAIN MCDirect) \cup {"super_cup", "new_league", "open", "unheard", "null", "malformed"}

\* The catalogues one fact away from c.
Deviations(c) ==
    UNION {
      {[c EXCEPT !.markets[t].competition = x] : t \in Tickers, x \in Competitions},
      {[c EXCEPT !.markets[t].seriesMarks = x] :
          t \in {"C", "M"}, x \in {{"NFL"}, {"MLB"}, {"NFL", "MLB"}, {"rival"}, {"family", "category"}}},
      {[c EXCEPT !.markets["L"].eventMarks = x] : x \in {{"MLB"}, {"category"}}},
      {[c EXCEPT !.markets[t].registry = x] : t \in {"L", "M"}, x \in {Nothing, "MLB"}},
      {[c EXCEPT !.markets["C"].legs = x] : x \in {{}, {"M"}, {"C", "M"}}},
      {[c EXCEPT !.markets["C"].namelessLeg = TRUE]},
      {[c EXCEPT !.markets[t].fieldDate = "monday"] : t \in Tickers},
      {[c EXCEPT !.markets[t].tickerDate = Nothing] : t \in {"L", "M"}},
      {[c EXCEPT !.booked[o] = b] :
          o \in Orders, b \in {"unpriced", "feeless"} \cup IF Contradictory THEN {"contradictory"} ELSE {}},
      {[c EXCEPT !.claims = @ \cup {<<s, "pro_football">>}] : s \in {"baseball", "hockey", "golf", "esports"}},
      {[c EXCEPT !.claims = @ \cup {<<"hockey", "pro_baseball">>}]},
      {[c EXCEPT !.claims = {}]} }

MCLively ==
    {InOrder} \cup IF Contradictory THEN {[InOrder EXCEPT !.booked["single"] = "contradictory"]} ELSE {}

MCFragile == {InOrder} \cup Deviations(InOrder)

MCCatalogues ==
    IF MaxDeviations = 0 THEN {InOrder}
    ELSE IF MaxDeviations = 1 THEN MCFragile
    ELSE UNION {Deviations(c) : c \in MCFragile}
=============================================================================
