---------------------------- MODULE MCSettlement ----------------------------
EXTENDS Settlement

CONSTANTS k1, k2, m1

\* A YES and a NO order on one market, filed in one season.
OneMarket == [k \in Keys |-> m1]
YesAndNo == [k \in Keys |-> IF k = k1 THEN "YES" ELSE "NO"]
Costs == [k \in Keys |-> IF k = k1 THEN 60 ELSE 45]
Fees == [k \in Keys |-> IF k = k1 THEN 2 ELSE 1]
OneSeason == [k \in Keys |-> 2026]

\* The YES side won and the fee is the entry fees', or the exchange states no
\* price and a fee nobody's fills explain.
SomeStatements == [m \in Markets |->
    {[settled |-> TRUE, price |-> s[1], extra |-> s[2]] :
        s \in {<<{100}, {0}>>, <<{}, {4}>>}}]

\* CFB files by season and merges by itself; a destination under observation
\* does neither.
TwoProfiles == {[seasons |-> TRUE, autoMerge |-> TRUE], [seasons |-> FALSE, autoMerge |-> FALSE]}
=============================================================================
