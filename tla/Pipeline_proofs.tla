--------------------------- MODULE Pipeline_proofs ---------------------------
(***************************************************************************)
(* What a deliver run hands over, for every catalogue, order of the calls  *)
(* and pattern of failures.                                                *)
(***************************************************************************)
EXTENDS Pipeline, FiniteSetTheorems, TLAPS

---------------------------------------------------------------------------
(* Finite sets.                                                            *)

\* The image of a finite set is finite.
LEMMA FiniteImage ==
    ASSUME NEW S, IsFiniteSet(S), NEW f
    PROVE  IsFiniteSet({f[x] : x \in S})
  <1> DEFINE T == {f[x] : x \in S}
             g == [x \in S |-> f[x]]
  <1>1. g \in Surjection(S, T)
    BY DEF Surjection
  <1> HIDE DEF T, g
  <1>2. IsFiniteSet(T)
    BY <1>1, FS_Surjection
  <1> QED
    BY <1>2 DEF T

---------------------------------------------------------------------------
(* What each level of evidence says.                                       *)

Sports == Leagues \cup {Nothing, "OTHER"}

\* The competition and who claims it leave no other league than this one.
Backed(c, claimants, league) ==
    /\ c \in DOMAIN Direct => Direct[c] = league
    /\ c \notin DOMAIN Direct \cup {"null", "failed"} =>
          \E s \in DOMAIN SettledBySport : claimants = {s} /\ SettledBySport[s] = league
    /\ Cardinality(claimants) > 1 =>
          LET inScope == {s \in claimants : Possible(s, c) # {}}
          IN  /\ claimants \subseteq DOMAIN FamilyMembers
              /\ Cardinality(inScope) = 1 /\ \A s \in inScope : league \in FamilyMembers[s]

\* A claimant is proven irrelevant exactly when its name leaves no league
\* possible: the direct answer itself is never excluded.
LEMMA IrrelevantIsImpossible ==
    ASSUME NEW c \in DOMAIN Direct, NEW s \in DOMAIN FamilyMembers
    PROVE  ~ProvablyIrrelevant(s, c, Direct[c]) <=> Possible(s, c) # {}
  BY TablesAgree DEF ProvablyIrrelevant, Possible, ClosedVocabularyExcludes

\* L1/L2: a competition that decides for a league backs it, and one that says
\* nothing was absent or could not be read.
LEMMA CompetitionSays ==
    ASSUME NEW c, NEW claimants, IsFiniteSet(claimants),
           c \in {"null", "failed"} => claimants = {},
           NEW v, v = MeaningOf(c, SportFromCompetition(c), claimants)
    PROVE  /\ v.sport \in Sports
           /\ v.why \in {Nothing, "competition_ambiguous", "competition_unknown"}
           /\ v.why # Nothing => v.sport = Nothing
           /\ (v.sport = Nothing /\ v.why = Nothing) => c \in {"null", "failed"}
           /\ \A league \in Leagues : v.sport = league => Backed(c, claimants, league)
           /\ c \in {"null", "failed"} =>
                 v = SaysNothing /\ \A league : Backed(c, claimants, league)
  <1> DEFINE direct == SportFromCompetition(c)
             owner == CHOOSE s \in claimants : TRUE
  <1>0. Nothing \notin Leagues /\ "OTHER" \notin Leagues
    BY NamesAreDistinct
  <1>1. CASE c \in {"null", "failed"}
    <2>1. v = SaysNothing
      BY <1>1 DEF MeaningOf
    <2>2. Cardinality(claimants) = 0
      BY <1>1, FS_EmptySet
    <2>3. \A league : Backed(c, claimants, league)
      BY <1>1, <2>2, NamesAreDistinct DEF Backed
    <2> QED
      BY <1>1, <2>1, <2>3, <1>0 DEF SaysNothing, Sports, Nothing
  <1>2. CASE c \notin {"null", "failed"}
    <2>1. CASE Cardinality(claimants) > 1 /\ ~TaxonomyAffirms(claimants, c, direct)
      <3>1. v = Refuses("competition_ambiguous")
        BY <1>2, <2>1 DEF MeaningOf
      <3> QED
        BY <3>1, <1>0, <1>2 DEF Refuses, Sports, Nothing
    <2>2. CASE ~(Cardinality(claimants) > 1 /\ ~TaxonomyAffirms(claimants, c, direct)) /\ direct # Nothing
      <3>1. v = Decides(direct)
        BY <1>2, <2>2 DEF MeaningOf
      <3>2. c \in DOMAIN Direct /\ direct = Direct[c] /\ direct \in Leagues \cup {"OTHER"}
        BY <2>2, TablesAgree DEF SportFromCompetition
      <3>3. ASSUME Cardinality(claimants) > 1
            PROVE  /\ claimants \subseteq DOMAIN FamilyMembers
                   /\ Cardinality({s \in claimants : Possible(s, c) # {}}) = 1
                   /\ \A s \in claimants : Possible(s, c) # {} => direct \in FamilyMembers[s]
        <4> DEFINE rest == {s \in claimants : ~ProvablyIrrelevant(s, c, direct)}
        <4>1. /\ claimants \subseteq DOMAIN FamilyMembers
              /\ Cardinality(rest) = 1 /\ \A s \in rest : direct \in FamilyMembers[s]
          BY <3>3, <2>2 DEF TaxonomyAffirms
        <4>2. rest = {s \in claimants : Possible(s, c) # {}}
          BY <4>1, <3>2, IrrelevantIsImpossible
        <4> QED
          BY <4>1, <4>2
      <3>4. Backed(c, claimants, direct)
        BY <3>2, <3>3 DEF Backed
      <3> QED
        BY <3>1, <3>2, <3>4, <1>0, <1>2, <2>2 DEF Decides, Sports, Nothing
    <2>3. CASE /\ ~(Cardinality(claimants) > 1 /\ ~TaxonomyAffirms(claimants, c, direct)) /\ direct = Nothing
               /\ Cardinality(claimants) = 1 /\ owner \in DOMAIN SettledBySport
      <3>1. v = Decides(SettledBySport[owner])
        BY <1>2, <2>3 DEF MeaningOf
      <3>2. PICK x : claimants = {x}
        BY <2>3, FS_Singleton
      <3>3. owner = x
        BY <3>2
      <3>4. c \notin DOMAIN Direct
        BY <2>3, <1>0, TablesAgree DEF SportFromCompetition, Nothing
      <3>5. Backed(c, claimants, SettledBySport[owner])
        BY <3>2, <3>3, <3>4, <2>3 DEF Backed
      <3>6. SettledBySport[owner] \in Leagues \cup {"OTHER"}
        BY <2>3, TablesAgree
      <3>7. v.sport = SettledBySport[owner] /\ v.why = Nothing
        BY <3>1 DEF Decides
      <3>8. Backed(c, claimants, v.sport)
        BY <3>5, <3>7
      <3> QED
        BY <3>6, <3>7, <3>8, <1>0, <1>2 DEF Sports, Nothing
    <2>4. CASE /\ ~(Cardinality(claimants) > 1 /\ ~TaxonomyAffirms(claimants, c, direct)) /\ direct = Nothing
               /\ ~(Cardinality(claimants) = 1 /\ owner \in DOMAIN SettledBySport)
      <3>1. v = Refuses("competition_unknown")
        BY <1>2, <2>4 DEF MeaningOf
      <3> QED
        BY <3>1, <1>0, <1>2 DEF Refuses, Sports, Nothing
    <2> QED
      BY <2>1, <2>2, <2>3, <2>4
  <1> QED
    BY <1>1, <1>2

\* L4: the one league the texts name, a rival sport where they name no league,
\* and nothing or a refusal otherwise.
LEMMA SeriesSays ==
    ASSUME NEW marks \in SUBSET TextMarks, NEW v, v = SeriesVerdict(marks)
    PROVE  /\ v.sport \in Sports
           /\ \A l : marks \cap Leagues = {l} => v.sport = l
           /\ ("rival" \in marks /\ marks \cap Leagues = {}) => v.sport = "OTHER"
           /\ (v.sport = Nothing /\ v.why \in {Nothing} \cup ComboCompletable) =>
                 marks \cap Leagues = {} /\ "rival" \notin marks
  <1> DEFINE named == marks \cap Leagues
  <1>0. Nothing \notin Leagues /\ "OTHER" \notin Leagues /\ IsFiniteSet(named)
    BY NamesAreDistinct, FS_Subset
  <1>1. Cardinality(named) \in Nat /\ (Cardinality(named) = 0 <=> named = {})
    BY <1>0, FS_CardinalityType, FS_EmptySet
  <1>2. Cardinality(named) = 1 <=> \E l : named = {l}
    BY <1>0, FS_Singleton
  <1>3. CASE Cardinality(named) > 1
    <2>1. v = Refuses("evidence_conflict")
      BY <1>3 DEF SeriesVerdict
    <2> QED
      BY <2>1, <1>1, <1>2, <1>3 DEF Refuses, Sports, Nothing, ComboCompletable
  <1>4. CASE Cardinality(named) = 1
    <2>1. PICK l : named = {l}
      BY <1>2, <1>4
    <2>2. v = Decides(l)
      <3>1. (CHOOSE k \in named : TRUE) = l
        BY <2>1
      <3> QED
        BY <1>4, <2>1, <3>1 DEF SeriesVerdict
    <2>3. l \in Leagues
      BY <2>1
    <2> QED
      BY <2>1, <2>2, <2>3, <1>0 DEF Decides, Sports, Nothing
  <1>5. CASE named = {}
    <2>1. v = IF "rival" \in marks THEN Decides("OTHER")
              ELSE IF "family" \in marks THEN Refuses("ambiguous_family")
              ELSE IF "category" \in marks THEN Decides("OTHER")
              ELSE SaysNothing
      BY <1>1, <1>5 DEF SeriesVerdict
    <2> QED
      BY <2>1, <1>5 DEF Decides, Refuses, SaysNothing, Sports, Nothing
  <1> QED
    BY <1>1, <1>3, <1>4, <1>5

---------------------------------------------------------------------------
(* What a market, and a combo of them, classifies into.                    *)

TypedContext(ctx) ==
    /\ ctx.marks \subseteq TextMarks /\ ctx.registry \in Leagues \cup {Nothing}
    /\ ctx.legs \subseteq Tickers

\* A taxonomy that was read is finite and claims no name that stands for none.
Usable(taxonomy) ==
    taxonomy.read =>
        /\ IsFiniteSet(taxonomy.claims)
        /\ \A claim \in taxonomy.claims : claim[2] \notin {"null", "failed", "malformed"}

LEMMA ClaimantsAreFinite ==
    ASSUME NEW taxonomy, Usable(taxonomy), NEW c, NEW S,
           S = IF taxonomy.read THEN Claimants(taxonomy.claims, c) ELSE {}
    PROVE  IsFiniteSet(S) /\ (c \in {"null", "failed"} => S = {})
  <1>1. CASE taxonomy.read
    <2> DEFINE P == {p \in taxonomy.claims : p[2] = c}
               f == [p \in P |-> p[1]]
    <2>1. IsFiniteSet(P)
      <3>1. IsFiniteSet(taxonomy.claims) /\ P \in SUBSET taxonomy.claims
        BY <1>1 DEF Usable
      <3> QED
        BY <3>1, FS_Subset
    <2>2. S = {p[1] : p \in P}
      BY <1>1 DEF Claimants
    <2>3. {p[1] : p \in P} = {f[p] : p \in P}
      OBVIOUS
    <2>4. c \in {"null", "failed"} => P = {}
      BY <1>1 DEF Usable
    <2> HIDE DEF P, f
    <2>5. IsFiniteSet({f[p] : p \in P})
      BY <2>1, FiniteImage
    <2> QED
      BY <2>2, <2>3, <2>4, <2>5
  <1> QED
    BY <1>1, FS_EmptySet

\* A market that classifies into a league has nothing against that league, and
\* one whose combo its legs may complete has nothing against any.
LEMMA MarketClassified ==
    ASSUME NEW ctx, TypedContext(ctx), NEW taxonomy, Usable(taxonomy),
           NEW v, v = ClassifyMarket(ctx, taxonomy)
    PROVE  /\ v.sport \in Sports
           /\ \A league \in Leagues : v.sport = league => Supports(ctx, taxonomy, league)
           /\ (v.sport = Nothing /\ v.why \in ComboCompletable) =>
                 \A league : Supports(ctx, taxonomy, league)
  <1> DEFINE c == ctx.competition
             claimants == IF taxonomy.read THEN Claimants(taxonomy.claims, c) ELSE {}
             comp == MeaningOf(c, SportFromCompetition(c), claimants)
             series == SeriesVerdict(ctx.marks)
             registry == RegistryVerdict(ctx)
             named == ctx.marks \cap Leagues
  <1>0. Nothing \notin Leagues /\ "OTHER" \notin Leagues /\ Nothing # "OTHER"
    BY NamesAreDistinct DEF Nothing
  <1>1. v = Weigh(ctx, comp, series, registry)
    BY DEF ClassifyMarket, CompetitionVerdict
  <1>2. IsFiniteSet(claimants) /\ (c \in {"null", "failed"} => claimants = {})
    BY ClaimantsAreFinite
  <1>3. /\ comp.sport \in Sports
        /\ comp.why \in {Nothing, "competition_ambiguous", "competition_unknown"}
        /\ comp.why # Nothing => comp.sport = Nothing
        /\ (comp.sport = Nothing /\ comp.why = Nothing) => c \in {"null", "failed"}
        /\ \A league \in Leagues : comp.sport = league => Backed(c, claimants, league)
        /\ c \in {"null", "failed"} =>
              comp = SaysNothing /\ \A league : Backed(c, claimants, league)
    <2> HIDE DEF claimants, c
    <2> QED
      BY <1>2, CompetitionSays
  <1>4. /\ series.sport \in Sports
        /\ \A l : named = {l} => series.sport = l
        /\ ("rival" \in ctx.marks /\ named = {}) => series.sport = "OTHER"
        /\ (series.sport = Nothing /\ series.why \in {Nothing} \cup ComboCompletable) =>
              named = {} /\ "rival" \notin ctx.marks
    <2>1. ctx.marks \in SUBSET TextMarks
      BY DEF TypedContext
    <2> QED
      BY <2>1, SeriesSays
  <1>5. registry.sport \in Leagues \cup {Nothing}
    BY DEF RegistryVerdict, SaysNothing, Decides, TypedContext
  <1>6. IsFiniteSet(named) /\ (Cardinality(named) = 1 <=> \E l : named = {l})
    <2>1. IsFiniteSet(named)
      BY NamesAreDistinct, FS_Subset
    <2> QED
      BY <2>1, FS_Singleton
  <1>7. \A league : Supports(ctx, taxonomy, league) <=>
            /\ ctx.found /\ c # "malformed" /\ Backed(c, claimants, league)
            /\ Cardinality(named) = 1 => named = {league}
            /\ "rival" \in ctx.marks => named # {}
    BY DEF Supports, Backed
  <1> HIDE DEF c, claimants, comp, series, registry, named
  <1>8. v.sport \in Sports
    BY <1>0, <1>1, <1>3, <1>4, <1>5 DEF Weigh, Refuses, Sports
  <1>9. ASSUME NEW league \in Leagues, v.sport = league
        PROVE  Supports(ctx, taxonomy, league)
    <2>1. /\ ctx.found /\ c # "malformed" /\ comp.why = Nothing
          /\ ~(Nothing \notin {comp.sport, series.sport} /\ comp.sport # series.sport)
      BY <1>0, <1>1, <1>3, <1>9 DEF Weigh, Refuses, c
    <2>2. \/ comp.sport = league
          \/ comp.sport = Nothing /\ series.sport = league
          \/ comp.sport = Nothing /\ series.sport = Nothing
      BY <1>0, <1>1, <1>9, <2>1 DEF Weigh, c
    <2>3. Backed(c, claimants, league)
      BY <1>0, <1>3, <2>1, <2>2
    <2>4. series.sport \in {Nothing, league}
      BY <1>0, <2>1, <2>2
    <2>5. Cardinality(named) = 1 => named = {league}
      <3>1. ASSUME NEW l, named = {l}
            PROVE  l = league
        <4>1. l \in Leagues
          BY <3>1 DEF named
        <4> QED
          BY <1>0, <1>4, <2>4, <3>1, <4>1
      <3> QED
        BY <1>6, <3>1
    <2>6. "rival" \in ctx.marks => named # {}
      BY <1>0, <1>4, <2>4
    <2> QED
      BY <1>7, <2>1, <2>3, <2>5, <2>6
  <1>10. ASSUME v.sport = Nothing, v.why \in ComboCompletable, NEW league
         PROVE  Supports(ctx, taxonomy, league)
    <2>1. ctx.found /\ c # "malformed"
      BY <1>1, <1>10 DEF Weigh, Refuses, c, ComboCompletable
    <2>2. comp.why = Nothing
      BY <1>1, <1>3, <1>10, <2>1 DEF Weigh, c, ComboCompletable
    <2>3. ~(Nothing \notin {comp.sport, series.sport} /\ comp.sport # series.sport)
      BY <1>1, <1>10, <2>1, <2>2 DEF Weigh, c, ComboCompletable, Refuses
    <2>4. comp.sport = Nothing /\ series.sport = Nothing /\ registry.sport = Nothing
      BY <1>1, <1>10, <2>1, <2>2, <2>3 DEF Weigh, c
    <2>5. v = Refuses(WhyUndecided(ctx, series))
      BY <1>1, <2>1, <2>2, <2>3, <2>4 DEF Weigh, c
    <2>6. series.why \in {Nothing} \cup ComboCompletable
      BY <1>10, <2>5 DEF WhyUndecided, Refuses
    <2> QED
      BY <1>3, <1>4, <1>6, <1>7, <2>1, <2>2, <2>4, <2>6
  <1> QED
    BY <1>8, <1>9, <1>10

\* A combo with stated legs classifies into a league only when every leg does
\* and its own verdict does not speak against it.
LEMMA ComboJudged ==
    ASSUME NEW ctx, NEW base, base.sport \in Sports, NEW sports, NEW nested \in BOOLEAN,
           NEW v, v = JudgeCombo(ctx, base, sports, nested)
    PROVE  /\ v.sport \in Sports
           /\ \A league \in Leagues : (v.sport = league /\ LegsStated(ctx)) =>
                 /\ \/ base.sport = league
                    \/ base.sport = Nothing /\ base.why \in ComboCompletable
                 /\ ~nested /\ sports = {league}
  <1>0. Nothing \notin Leagues /\ "OTHER" \notin Leagues /\ Nothing # "OTHER"
    BY NamesAreDistinct DEF Nothing
  <1>1. sports \subseteq Leagues =>
           (Cardinality(sports) = 1 => \E s : sports = {s})
    BY NamesAreDistinct, FS_Subset, FS_Singleton
  <1>2. CASE /\ ~(base.sport = Nothing /\ base.why \notin ComboCompletable) /\ LegsStated(ctx)
             /\ ~(nested \/ ~(sports \subseteq Leagues)) /\ Cardinality(sports) = 1
             /\ ~(base.sport # Nothing /\ {base.sport} # sports)
    <2>1. v = Decides(CHOOSE s \in sports : TRUE)
      BY <1>2 DEF JudgeCombo
    <2>2. PICK s : sports = {s}
      BY <1>1, <1>2
    <2>3. v.sport = s /\ s \in Leagues
      <3>1. (CHOOSE k \in sports : TRUE) = s
        BY <2>2
      <3> QED
        BY <1>2, <2>1, <2>2, <3>1 DEF Decides
    <2> QED
      BY <1>2, <2>2, <2>3 DEF Sports
  <1>3. CASE ~(/\ ~(base.sport = Nothing /\ base.why \notin ComboCompletable) /\ LegsStated(ctx)
               /\ ~(nested \/ ~(sports \subseteq Leagues)) /\ Cardinality(sports) = 1
               /\ ~(base.sport # Nothing /\ {base.sport} # sports))
    <2>1. v = base \/ v.sport = Nothing
      BY <1>3 DEF JudgeCombo, Refuses
    <2>2. LegsStated(ctx) => v.sport = Nothing
      BY <1>3 DEF JudgeCombo, Refuses
    <2> QED
      BY <1>0, <2>1, <2>2 DEF Sports
  <1> QED
    BY <1>2, <1>3

---------------------------------------------------------------------------
(* Sequences of times, and the least and the greatest of a set of them.    *)

LEMMA LeastOf ==
    ASSUME NEW T, T \subseteq Nat, T # {}
    PROVE  \E n \in T : \A i \in T : n <= i
  <1>1. PICK n \in T : \A i \in T : ~(<<i, n>> \in OpToRel(<, Nat))
    BY NatLessThanWellFounded, WFMin
  <1>2. ASSUME NEW i \in T, i < n PROVE FALSE
    <2>1. i \in Nat /\ n \in Nat
      OBVIOUS
    <2>2. <<i, n>> \in OpToRel(<, Nat)
      BY <1>2, <2>1 DEF OpToRel
    <2> QED
      BY <1>1, <2>2
  <1>3. \A i \in T : i \in Nat /\ n \in Nat
    OBVIOUS
  <1> QED
    BY <1>2, <1>3

LEMMA MinIsLeast ==
    ASSUME NEW T, T \subseteq Nat, T # {}
    PROVE  Min(T) \in T /\ \A i \in T : Min(T) <= i
  BY LeastOf DEF Min

LEMMA MaxIsGreatest ==
    ASSUME NEW T, T \subseteq Nat, T # {}, NEW bound \in Nat, \A i \in T : i <= bound
    PROVE  Max(T) \in T /\ \A i \in T : i <= Max(T)
  <1> DEFINE B == {b \in Nat : \A i \in T : i <= b}
  <1>1. B \subseteq Nat /\ bound \in B
    OBVIOUS
  <1> HIDE DEF B
  <1>2. PICK b \in B : \A c \in B : b <= c
    BY <1>1, LeastOf
  <1>3. b \in Nat /\ \A i \in T : i <= b
    BY DEF B
  <1>4. b \in T
    <2> SUFFICES ASSUME b \notin T PROVE FALSE
      OBVIOUS
    <2>1. \A i \in T : i \in Nat /\ i < b
      BY <1>3
    <2>2. \A i \in T : i <= b - 1
      BY <1>3, <2>1
    <2>3. PICK i \in T : TRUE
      OBVIOUS
    <2>4. b - 1 \in Nat
      BY <1>3, <2>1, <2>3
    <2>5. b - 1 \in B
      BY <2>2, <2>4 DEF B
    <2> QED
      BY <1>2, <1>3, <2>5
  <1>5. \E x \in T : \A y \in T : x >= y
    BY <1>3, <1>4
  <1>6. Max(T) \in T /\ \A y \in T : Max(T) >= y
    BY <1>5 DEF Max
  <1> QED
    BY <1>6

\* The first, the last and the elements of an extended sequence.
LEMMA Appended ==
    ASSUME NEW s \in Seq(Nat), NEW x \in Nat
    PROVE  /\ Append(s, x) \in Seq(Nat) /\ Append(s, x) # <<>>
           /\ Range(Append(s, x)) = Range(s) \cup {x}
           /\ Last(Append(s, x)) = x
           /\ Head(Append(s, x)) = IF s = <<>> THEN x ELSE Head(s)
  <1> DEFINE a == Append(s, x)
  <1>1. /\ a \in Seq(Nat) /\ Len(a) = Len(s) + 1 /\ a[Len(s) + 1] = x /\ Len(s) \in Nat
        /\ \A i \in 1..Len(s) : a[i] = s[i]
        /\ DOMAIN s = 1..Len(s) /\ DOMAIN a = 1..(Len(s) + 1)
    OBVIOUS
  <1>2. Range(a) = Range(s) \cup {x}
    <2>1. \A v : v \in Range(a) <=> \E i \in 1..(Len(s) + 1) : v = a[i]
      BY <1>1 DEF Range
    <2>2. \A v : v \in Range(s) <=> \E i \in 1..Len(s) : v = s[i]
      BY <1>1 DEF Range
    <2> HIDE DEF a
    <2>3. \A i : i \in 1..(Len(s) + 1) <=> i \in 1..Len(s) \/ i = Len(s) + 1
      BY <1>1
    <2> QED
      BY <1>1, <2>1, <2>2, <2>3
  <1>3. Last(a) = x
    BY <1>1 DEF Last
  <1>4. a # <<>> /\ Head(a) = a[1]
    BY <1>1
  <1>5. s = <<>> \/ (Len(s) >= 1 /\ Head(s) = s[1])
    OBVIOUS
  <1> HIDE DEF a
  <1>6. Head(a) = IF s = <<>> THEN x ELSE Head(s)
    <2>1. CASE s = <<>>
      BY <1>1, <1>4, <2>1
    <2>2. CASE s # <<>>
      BY <1>1, <1>4, <1>5, <2>2
    <2> QED
      BY <2>1, <2>2
  <1>7. a \in Seq(Nat)
    BY <1>1
  <1> QED
    BY <1>2, <1>3, <1>4, <1>6, <1>7 DEF a

LEMMA EndsAreElements ==
    ASSUME NEW s \in Seq(Nat)
    PROVE  /\ Range(s) \subseteq Nat
           /\ s # <<>> => Head(s) \in Range(s) /\ Last(s) \in Range(s)
           /\ s = <<>> => Range(s) = {}
  <1>1. DOMAIN s = 1..Len(s) /\ Len(s) \in Nat /\ \A i \in 1..Len(s) : s[i] \in Nat
    OBVIOUS
  <1>2. s # <<>> => Len(s) >= 1 /\ Head(s) = s[1]
    OBVIOUS
  <1> QED
    BY <1>1, <1>2 DEF Range, Last

---------------------------------------------------------------------------
(* The inductive invariant.                                                *)

\* What the exchange holds: an order's fills are in order of time, none is
\* later than now, and between the first and the last no Window is empty.
InOrderOfTime(s) ==
    s # <<>> =>
        /\ \A f \in Range(s) : Head(s) <= f /\ f <= Last(s)
        /\ \A n \in Nat : (Head(s) < n /\ n <= Last(s)) =>
              \E g \in Range(s) : g < n /\ n < g + Window

ExchangeInv ==
    /\ catalogue \in Catalogues
    /\ clock \in 0..MaxClock /\ archive \in 0..clock
    /\ fills \in [Orders -> Seq(Nat)]
    /\ \A o \in Orders : Range(fills[o]) \subseteq 0..clock /\ InOrderOfTime(fills[o])

\* The run's record and what it holds of the market data.
RunShape(r) ==
    r = [pc |-> r.pc, now |-> r.now, seen |-> r.seen, archiveRead |-> r.archiveRead,
         contexts |-> r.contexts, status |-> r.status, lost |-> r.lost, taxonomy |-> r.taxonomy,
         payload |-> r.payload, refused |-> r.refused, health |-> r.health]

Full == [read |-> TRUE, claims |-> catalogue.claims]

DataInv ==
    /\ RunShape(run)
    /\ run.now \in 0..clock
    /\ DOMAIN run.contexts \subseteq Tickers
    /\ \A t \in DOMAIN run.contexts :
          run.contexts[t] = NotFound \/ \E l \in SUBSET run.lost : run.contexts[t] = Context(t, l)
    /\ run.taxonomy \in {NoTaxonomy, Full}

\* What the run has read of the fills.  Until the archive is read, what it
\* serves is missing; what filled since the run began may be.
ReadInv ==
    /\ run.seen \in [Orders -> SUBSET Nat]
    /\ run.pc \in {"live", "archive"} => run.archiveRead = FALSE
    /\ \A o \in Orders : run.seen[o] \subseteq Range(fills[o])
    /\ run.pc = "archive" => \A o \in Orders :
          /\ \A f \in Range(fills[o]) : f \in run.seen[o] \/ f < archive \/ run.now <= f
          /\ run.seen[o] # {} => Head(fills[o]) \in run.seen[o] \/ Head(fills[o]) < archive
    /\ run.archiveRead => \A o \in Orders :
          /\ \A f \in Range(fills[o]) : f \in run.seen[o] \/ run.now <= f
          /\ run.seen[o] # {} => Head(fills[o]) \in run.seen[o]

\* What the run has resolved before it evaluates, and what it evaluated.
Passed == {o \in Candidates : Refusal(o) = Nothing}

Apart == {w.order : w \in run.payload} \cap DOMAIN run.refused = {}

EvaluatedInv ==
    /\ Apart
    /\ run.pc \in {"legs", "done"} => SeenTickers \subseteq Resolved
    /\ run.pc = "done" =>
          /\ CandidateLegs \subseteq Resolved
          /\ run.payload = {Wager(o) : o \in Passed}
          /\ run.refused = [o \in Candidates \ Passed |-> Refusal(o)]
          /\ run.health = Health(run.refused, run.payload)

\* A wager handed over by a run that read everything, and one that was stable
\* then: its fills are all there are and ever will be, and its league and its
\* date are those of the catalogue itself.
Ideal == [t \in Tickers |-> Context(t, {})]

Stable(w) ==
    LET t == TickerOf[w.order]
    IN  /\ w.filled = Range(fills[w.order])
        /\ \A f \in w.filled : f + Window <= clock /\ (run.pc # "idle" => f + Window <= run.now)
        /\ catalogue.booked[w.order] \notin {"unpriced", "feeless"}
        /\ w.sport = ClassifyWithLegs(t, Ideal, Full).sport
        /\ w.sport \in Routed
        /\ IsCombo(Context(t, {})) => w.sport \in ComboRecorders
        /\ w.date = ContestDate(t, Ideal) /\ w.date # Nothing

HandedInv ==
    \A w \in handed : w.clean =>
        /\ w.order \in Orders /\ fills[w.order] # <<>> /\ Head(fills[w.order]) > Cutover
        /\ w.finality = "final_stable" => Stable(w)

IInv == ExchangeInv /\ DataInv /\ ReadInv /\ EvaluatedInv /\ HandedInv

---------------------------------------------------------------------------
(* The exchange moves.                                                     *)

\* What an order's fills may become: themselves, or with one more, now, while
\* the window of the last is not over.
Follows(s, n) ==
    /\ s # <<>> => Last(s) < clock /\ clock < Last(s) + Window
    /\ n = Append(s, clock)

LEMMA Moved ==
    ASSUME ExchangeInv, Exchange
    PROVE  /\ catalogue' = catalogue /\ run' = run /\ handed' = handed
           /\ clock' \in clock..MaxClock /\ archive' \in archive..clock'
           /\ DOMAIN fills' = Orders
           /\ \A o \in Orders : fills'[o] = fills[o] \/ Follows(fills[o], fills'[o])
  <1>0. clock \in Nat /\ archive \in Nat /\ MaxClock \in Nat /\ clock <= MaxClock /\ archive <= clock
    BY Parameters DEF ExchangeInv
  <1>1. CASE Tick
    BY <1>0, <1>1 DEF Tick, ExchangeInv
  <1>2. CASE Archive
    BY <1>0, <1>2 DEF Archive, ExchangeInv
  <1>3. CASE \E o \in Trading : Fill(o)
    BY <1>0, <1>3 DEF Fill, Follows, ExchangeInv
  <1>4. CASE \E t \in Tickers : Close(t)
    BY <1>0, <1>4 DEF Close, ExchangeInv
  <1> QED
    BY <1>1, <1>2, <1>3, <1>4 DEF Exchange

\* An added fill is the last, and no Window before it is empty.
LEMMA StillInOrder ==
    ASSUME NEW s \in Seq(Nat), clock \in Nat, Range(s) \subseteq 0..clock, InOrderOfTime(s),
           NEW n, Follows(s, n)
    PROVE  InOrderOfTime(n)
  <1>1. /\ n # <<>> /\ Range(n) = Range(s) \cup {clock} /\ Last(n) = clock
        /\ Head(n) = IF s = <<>> THEN clock ELSE Head(s)
    BY Appended DEF Follows
  <1>2. /\ Range(s) \subseteq Nat /\ (s = <<>> => Range(s) = {})
        /\ s # <<>> => Head(s) \in Range(s) /\ Last(s) \in Range(s)
    BY EndsAreElements
  <1>3. Window \in Nat \ {0}
    BY Parameters
  <1>4. CASE s = <<>>
    BY <1>1, <1>2, <1>4 DEF InOrderOfTime
  <1>5. CASE s # <<>>
    <2>1. /\ \A f \in Range(s) : Head(s) <= f /\ f <= Last(s)
          /\ \A m \in Nat : (Head(s) < m /\ m <= Last(s)) =>
                \E g \in Range(s) : g < m /\ m < g + Window
      BY <1>5 DEF InOrderOfTime
    <2>2. Last(s) < clock /\ clock < Last(s) + Window
      BY <1>5 DEF Follows
    <2>3. \A f \in Range(n) : Head(n) <= f /\ f <= Last(n)
      BY <1>1, <1>2, <1>5, <2>1, <2>2
    <2>4. ASSUME NEW m \in Nat, Head(n) < m, m <= Last(n)
          PROVE  \E g \in Range(n) : g < m /\ m < g + Window
      <3>1. CASE m <= Last(s)
        BY <1>1, <1>5, <2>1, <2>4, <3>1
      <3>2. CASE ~(m <= Last(s))
        <4>1. Last(s) \in Nat /\ Last(s) \in Range(n)
          BY <1>1, <1>2, <1>5
        <4>2. Last(s) < m /\ m < Last(s) + Window
          BY <1>1, <1>3, <2>2, <2>4, <3>2, <4>1
        <4> QED
          BY <4>1, <4>2
      <3> QED
        BY <3>1, <3>2
    <2> QED
      BY <2>3, <2>4 DEF InOrderOfTime
  <1> QED
    BY <1>4, <1>5

LEMMA ExchangeStep ==
    ASSUME ExchangeInv, [Next]_vars
    PROVE  ExchangeInv'
  <1>1. CASE Exchange
    <2>0. clock \in Nat /\ archive \in Nat /\ MaxClock \in Nat
      BY Parameters DEF ExchangeInv
    <2>1. /\ catalogue' = catalogue /\ DOMAIN fills' = Orders
          /\ clock' \in clock..MaxClock /\ archive' \in archive..clock'
          /\ \A o \in Orders : fills'[o] = fills[o] \/ Follows(fills[o], fills'[o])
      BY <1>1, Moved
    <2>2. ASSUME NEW o \in Orders
          PROVE  /\ fills'[o] \in Seq(Nat) /\ Range(fills'[o]) \subseteq 0..clock'
                 /\ InOrderOfTime(fills'[o])
      <3>1. fills[o] \in Seq(Nat) /\ Range(fills[o]) \subseteq 0..clock /\ InOrderOfTime(fills[o])
        BY DEF ExchangeInv
      <3>2. CASE fills'[o] = fills[o]
        BY <2>0, <2>1, <3>1, <3>2
      <3>3. CASE Follows(fills[o], fills'[o])
        <4>1. InOrderOfTime(fills'[o])
          BY <2>0, <3>1, <3>3, StillInOrder
        <4>2. fills'[o] \in Seq(Nat) /\ Range(fills'[o]) = Range(fills[o]) \cup {clock}
          BY <2>0, <3>1, <3>3, Appended DEF Follows
        <4> QED
          BY <2>0, <2>1, <3>1, <4>1, <4>2
      <3> QED
        BY <2>1, <3>2, <3>3
    <2>3. fills' \in [Orders -> Seq(Nat)]
      <3>1. fills' = [o \in Orders |-> fills'[o]]
        <4>1. CASE \E o \in Trading : Fill(o)
          BY <4>1 DEF Fill, ExchangeInv
        <4>2. CASE fills' = fills
          BY <4>2 DEF ExchangeInv
        <4> QED
          BY <1>1, <4>1, <4>2 DEF Exchange, Tick, Archive, Close
      <3> QED
        BY <2>2, <3>1
    <2>4. (\A o \in Orders : InOrderOfTime(fills[o]))'
      BY <2>2 DEF InOrderOfTime
    <2>5. (\A o \in Orders : Range(fills[o]) \subseteq 0..clock)'
      BY <2>2
    <2>6. catalogue' \in Catalogues /\ clock' \in 0..MaxClock /\ archive' \in 0..clock'
      BY <2>0, <2>1 DEF ExchangeInv
    <2> QED
      BY <2>3, <2>4, <2>5, <2>6 DEF ExchangeInv
  <1>2. CASE Deliver \/ UNCHANGED vars
    <2>1. UNCHANGED exchange
      BY <1>2 DEF vars, Deliver, Start, ReadLive, ReadArchive, ResolveMarket, ReadTaxonomy,
                  ResolveLeg, Evaluate, Finish
    <2> QED
      BY <2>1 DEF exchange, ExchangeInv, InOrderOfTime
  <1> QED
    BY <1>1, <1>2 DEF Next

\* A fill under way reaches every order as a new time of its own, no earlier
\* than now; the first one of an order stays the first.
LEMMA Filled ==
    ASSUME ExchangeInv, Exchange, NEW o \in Orders
    PROVE  /\ Range(fills[o]) \subseteq Range(fills'[o])
           /\ Range(fills'[o]) \subseteq Range(fills[o]) \cup {clock}
           /\ fills[o] # <<>> => fills'[o] # <<>> /\ Head(fills'[o]) = Head(fills[o])
           /\ fills'[o] # fills[o] /\ fills[o] # <<>> => clock < Last(fills[o]) + Window
  <1>1. fills[o] \in Seq(Nat) /\ clock \in Nat
    BY DEF ExchangeInv
  <1>2. fills'[o] = fills[o] \/ Follows(fills[o], fills'[o])
    BY Moved
  <1>3. CASE Follows(fills[o], fills'[o])
    <2>1. /\ fills'[o] # <<>> /\ Range(fills'[o]) = Range(fills[o]) \cup {clock}
          /\ Head(fills'[o]) = IF fills[o] = <<>> THEN clock ELSE Head(fills[o])
      BY <1>1, <1>3, Appended DEF Follows
    <2> QED
      BY <1>3, <2>1 DEF Follows
  <1> QED
    BY <1>2, <1>3

\* What a step of the run may leave alone: what it read of the fills, and of
\* the markets.
KeepsRead == run'.seen = run.seen /\ run'.archiveRead = run.archiveRead /\ run'.now = run.now
KeepsData == run'.contexts = run.contexts /\ run'.lost = run.lost /\ run'.status = run.status

\* What the run read and the catalogue determine.
LEMMA SameRun ==
    ASSUME KeepsRead, KeepsData, run'.taxonomy = run.taxonomy, catalogue' = catalogue
    PROVE  /\ Resolved' = Resolved /\ SeenTickers' = SeenTickers
           /\ Candidates' = Candidates /\ CandidateLegs' = CandidateLegs
           /\ Passed' = Passed
           /\ \A o : Refusal(o)' = Refusal(o) /\ Wager(o)' = Wager(o)
  <1>1. /\ Resolved' = Resolved /\ SeenOrders' = SeenOrders /\ SeenTickers' = SeenTickers
        /\ \A o : IsAfterCutover(o)' = IsAfterCutover(o)
    BY DEF Resolved, SeenOrders, SeenTickers, IsAfterCutover, KeepsRead, KeepsData
  <1>2. Replayed' = Replayed
    BY <1>1 DEF Replayed, KeepsRead, KeepsData
  <1>3. Candidates' = Candidates
    BY <1>1, <1>2 DEF Candidates
  <1>4. CandidateLegs' = CandidateLegs
    BY <1>3 DEF CandidateLegs, KeepsData
  <1>5. \A o : AssessFinality(o)' = AssessFinality(o)
    BY DEF AssessFinality, KeepsRead, KeepsData
  <1>6. \A o : Refusal(o)' = Refusal(o)
    BY <1>5 DEF Refusal, Gates, KeepsData
  <1>7. Unfailing' = Unfailing
    BY <1>1 DEF Unfailing, KeepsRead, KeepsData
  <1>8. \A o : Wager(o)' = Wager(o)
    BY <1>5, <1>7 DEF Wager, KeepsRead, KeepsData
  <1>9. Passed' = Passed
    BY <1>3, <1>6 DEF Passed
  <1> QED
    BY <1>1, <1>3, <1>4, <1>6, <1>8, <1>9

\* A stable order stays what it is while the exchange moves: its window is over.
LEMMA StableOrder ==
    ASSUME ExchangeInv, Exchange, NEW o \in Orders, fills[o] # <<>>,
           \A f \in Range(fills[o]) : f + Window <= clock
    PROVE  fills'[o] = fills[o]
  <1>1. fills[o] \in Seq(Nat) /\ clock \in Nat /\ Window \in Nat
    BY Parameters DEF ExchangeInv
  <1>2. Last(fills[o]) \in Range(fills[o]) /\ Last(fills[o]) \in Nat
    BY <1>1, EndsAreElements
  <1> QED
    BY <1>1, <1>2, Filled

\* What the catalogue determines.
LEMMA SameCatalogue ==
    ASSUME catalogue' = catalogue
    PROVE  /\ Full' = Full /\ Ideal' = Ideal
           /\ \A t, l : Context(t, l)' = Context(t, l)
  BY DEF Full, Ideal, Context

\* What was handed over stays true while the catalogue stands, time goes on
\* and the order's fills stay what they are.
LEMMA StillStable ==
    ASSUME ExchangeInv, NEW w, w.order \in Orders, Stable(w), catalogue' = catalogue,
           clock' \in Nat, clock <= clock', fills'[w.order] = fills[w.order],
           run'.pc # "idle" => \/ run.pc # "idle" /\ run'.now = run.now
                               \/ run'.now = clock
    PROVE  Stable(w)'
  <1> DEFINE t == TickerOf[w.order]
  <1>1. clock \in Nat /\ Window \in Nat /\ w.filled \subseteq Nat
    <2>1. fills[w.order] \in Seq(Nat) /\ clock \in Nat
      BY DEF ExchangeInv
    <2> QED
      BY <2>1, EndsAreElements, Parameters DEF Stable
  <1>2. \A f \in w.filled : f + Window <= clock' /\ (run'.pc # "idle" => f + Window <= run'.now)
    <2> SUFFICES ASSUME NEW f \in w.filled
                 PROVE  f + Window <= clock' /\ (run'.pc # "idle" => f + Window <= run'.now)
      OBVIOUS
    <2>1. f + Window <= clock /\ (run.pc # "idle" => f + Window <= run.now) /\ f + Window \in Nat
      BY <1>1 DEF Stable
    <2> QED
      BY <1>1, <2>1
  <1>3. /\ w.filled = Range(fills'[w.order])
        /\ catalogue'.booked[w.order] \notin {"unpriced", "feeless"}
    BY DEF Stable
  <1>4. /\ w.sport = ClassifyWithLegs(t, Ideal', Full').sport /\ w.sport \in Routed
        /\ IsCombo(Context(t, {})') => w.sport \in ComboRecorders
        /\ w.date = ContestDate(t, Ideal') /\ w.date # Nothing
    BY SameCatalogue DEF Stable
  <1> QED
    BY <1>2, <1>3, <1>4 DEF Stable

\* A step of the exchange keeps what the run and what was handed over says.
LEMMA ExchangeKeeps ==
    ASSUME IInv, Exchange
    PROVE  DataInv' /\ ReadInv' /\ EvaluatedInv' /\ HandedInv'
  <1>0. /\ catalogue' = catalogue /\ run' = run /\ handed' = handed
        /\ clock' \in Nat /\ clock \in Nat /\ clock <= clock' /\ archive \in Nat
        /\ archive' \in Nat /\ archive <= archive' /\ run.now \in Nat /\ run.now <= clock
    BY Parameters, Moved DEF IInv, ExchangeInv, DataInv
  <1>1. DataInv'
    BY <1>0, SameCatalogue DEF IInv, DataInv
  <1>2. ReadInv'
    <2>1. ASSUME NEW o \in Orders
          PROVE  /\ run'.seen[o] \subseteq Range(fills'[o])
                 /\ run'.pc = "archive" =>
                       /\ \A f \in Range(fills'[o]) : f \in run'.seen[o] \/ f < archive' \/ run'.now <= f
                       /\ run'.seen[o] # {} => Head(fills'[o]) \in run'.seen[o] \/ Head(fills'[o]) < archive'
                 /\ run'.archiveRead =>
                       /\ \A f \in Range(fills'[o]) : f \in run'.seen[o] \/ run'.now <= f
                       /\ run'.seen[o] # {} => Head(fills'[o]) \in run'.seen[o]
      <3>1. /\ Range(fills[o]) \subseteq Range(fills'[o])
            /\ Range(fills'[o]) \subseteq Range(fills[o]) \cup {clock}
            /\ fills[o] # <<>> => fills'[o] # <<>> /\ Head(fills'[o]) = Head(fills[o])
        BY Filled DEF IInv
      <3>2. fills[o] \in Seq(Nat) /\ Range(fills[o]) \subseteq 0..clock
        BY DEF IInv, ExchangeInv
      <3>3. /\ (fills[o] = <<>> => Range(fills[o]) = {}) /\ Range(fills[o]) \subseteq Nat
            /\ fills[o] # <<>> => Head(fills[o]) \in Range(fills[o])
        BY <3>2, EndsAreElements
      <3>4. run.seen[o] \subseteq Range(fills[o])
        BY DEF IInv, ReadInv
      <3>5. run.seen[o] # {} => fills[o] # <<>>
        BY <3>3, <3>4
      <3>6. run'.pc = "archive" =>
              /\ \A f \in Range(fills'[o]) : f \in run'.seen[o] \/ f < archive' \/ run'.now <= f
              /\ run'.seen[o] # {} => Head(fills'[o]) \in run'.seen[o] \/ Head(fills'[o]) < archive'
        <4> SUFFICES ASSUME run.pc = "archive"
                     PROVE  /\ \A f \in Range(fills'[o]) : f \in run.seen[o] \/ f < archive' \/ run.now <= f
                            /\ run.seen[o] # {} => Head(fills'[o]) \in run.seen[o] \/ Head(fills'[o]) < archive'
          BY <1>0
        <4>1. /\ \A f \in Range(fills[o]) : f \in run.seen[o] \/ f < archive \/ run.now <= f
              /\ run.seen[o] # {} => Head(fills[o]) \in run.seen[o] \/ Head(fills[o]) < archive
          BY DEF IInv, ReadInv
        <4> QED
          BY <1>0, <3>1, <3>3, <3>5, <4>1
      <3>7. run'.archiveRead =>
              /\ \A f \in Range(fills'[o]) : f \in run'.seen[o] \/ run'.now <= f
              /\ run'.seen[o] # {} => Head(fills'[o]) \in run'.seen[o]
        <4> SUFFICES ASSUME run.archiveRead
                     PROVE  /\ \A f \in Range(fills'[o]) : f \in run.seen[o] \/ run.now <= f
                            /\ run.seen[o] # {} => Head(fills'[o]) \in run.seen[o]
          BY <1>0
        <4>1. /\ \A f \in Range(fills[o]) : f \in run.seen[o] \/ run.now <= f
              /\ run.seen[o] # {} => Head(fills[o]) \in run.seen[o]
          BY DEF IInv, ReadInv
        <4> QED
          BY <1>0, <3>1, <3>3, <3>5, <4>1
      <3> QED
        BY <1>0, <3>1, <3>4, <3>6, <3>7
    <2>2. run'.seen \in [Orders -> SUBSET Nat] /\ (run'.pc \in {"live", "archive"} => run'.archiveRead = FALSE)
      BY <1>0 DEF IInv, ReadInv
    <2> QED
      BY <2>1, <2>2 DEF ReadInv
  <1>3. EvaluatedInv'
    <2>1. /\ Resolved' = Resolved /\ SeenTickers' = SeenTickers
          /\ Candidates' = Candidates /\ CandidateLegs' = CandidateLegs /\ Passed' = Passed
          /\ \A o : Refusal(o)' = Refusal(o) /\ Wager(o)' = Wager(o)
      BY <1>0, SameRun DEF KeepsRead, KeepsData
    <2> QED
      BY <1>0, <2>1 DEF IInv, EvaluatedInv, Apart
  <1>4. HandedInv'
    <2>1. ASSUME NEW w \in handed, w.clean
          PROVE  /\ w.order \in Orders /\ fills'[w.order] # <<>> /\ Head(fills'[w.order]) > Cutover
                 /\ w.finality = "final_stable" => Stable(w)'
      <3>1. /\ w.order \in Orders /\ fills[w.order] # <<>> /\ Head(fills[w.order]) > Cutover
            /\ w.finality = "final_stable" => Stable(w)
        BY <2>1 DEF IInv, HandedInv
      <3>2. fills'[w.order] # <<>> /\ Head(fills'[w.order]) = Head(fills[w.order])
        BY <3>1, Filled DEF IInv
      <3>3. ASSUME Stable(w)
            PROVE  Stable(w)'
        <4>1. \A f \in Range(fills[w.order]) : f + Window <= clock
          BY <3>3 DEF Stable
        <4>2. fills'[w.order] = fills[w.order]
          BY <3>1, <4>1, StableOrder DEF IInv
        <4> QED
          BY <1>0, <3>1, <3>3, <4>2, StillStable DEF IInv
      <3> QED
        BY <3>1, <3>2, <3>3
    <2> QED
      BY <1>0, <2>1 DEF HandedInv
  <1> QED
    BY <1>1, <1>2, <1>3, <1>4

---------------------------------------------------------------------------
(* The run's steps, field by field.                                        *)

LEMMA StartFields ==
    ASSUME Start
    PROVE  /\ RunShape(run') /\ run'.seen = [o \in Orders |-> {}] /\ run'.archiveRead = FALSE
           /\ run'.contexts = <<>> /\ run'.lost = {} /\ run'.taxonomy = NoTaxonomy
           /\ run.pc = "idle" /\ run'.pc = "live" /\ run'.now = clock
           /\ run'.payload = {} /\ run'.refused = <<>>
  BY DEF Start, Fresh, RunShape

LEMMA ReadLiveFields ==
    ASSUME RunShape(run), ReadLive
    PROVE  /\ RunShape(run') /\ run.pc = "live"
           /\ \/ /\ run'.pc = "archive" /\ run'.seen = Observe(run.seen, archive..MaxClock)
                 /\ run'.archiveRead = run.archiveRead /\ run'.now = run.now
                 /\ KeepsData /\ run'.taxonomy = run.taxonomy
                 /\ run'.payload = run.payload /\ run'.refused = run.refused
              \/ /\ run'.pc = "idle" /\ run'.now = 0
                 /\ run'.seen = [o \in Orders |-> {}] /\ run'.archiveRead = FALSE
                 /\ run'.contexts = <<>> /\ run'.lost = {} /\ run'.taxonomy = NoTaxonomy
                 /\ run'.payload = {} /\ run'.refused = <<>>
  <1>1. CASE run' = [run EXCEPT !.seen = Observe(@, archive..MaxClock), !.pc = "archive"]
    BY <1>1 DEF ReadLive, RunShape, KeepsData
  <1>2. CASE run' = [Idle EXCEPT !.health = "failed"]
    BY <1>2 DEF ReadLive, RunShape, Idle, Fresh
  <1> QED
    BY <1>1, <1>2 DEF ReadLive

LEMMA ReadArchiveFields ==
    ASSUME RunShape(run), ReadArchive
    PROVE  /\ RunShape(run') /\ run.pc = "archive" /\ run'.pc = "markets" /\ run'.now = run.now
           /\ KeepsData /\ run'.taxonomy = run.taxonomy
           /\ run'.payload = run.payload /\ run'.refused = run.refused
           /\ \/ run'.seen = Observe(run.seen, 0..(archive - 1)) /\ run'.archiveRead = TRUE
              \/ run'.seen = run.seen /\ run'.archiveRead = run.archiveRead
  BY DEF ReadArchive, RunShape, KeepsData

LEMMA ResolveFields ==
    ASSUME RunShape(run), NEW t, Resolve(t)
    PROVE  /\ RunShape(run') /\ run'.pc = run.pc /\ KeepsRead /\ run'.taxonomy = run.taxonomy
           /\ run'.payload = run.payload /\ run'.refused = run.refused
           /\ run.lost \subseteq run'.lost
           /\ DOMAIN run'.contexts = {t} \cup DOMAIN run.contexts
           /\ run'.contexts[t] = NotFound \/ run'.contexts[t] = Context(t, run'.lost)
           /\ \A u \in DOMAIN run.contexts \ {t} : run'.contexts[u] = run.contexts[u]
  <1>1. CASE run' = [run EXCEPT !.contexts = Cached(@, t, NotFound)]
    <2>1. run'.contexts = Cached(run.contexts, t, NotFound)
      BY <1>1 DEF RunShape
    <2>2. /\ RunShape(run') /\ run'.pc = run.pc /\ KeepsRead /\ run'.taxonomy = run.taxonomy
          /\ run'.payload = run.payload /\ run'.refused = run.refused /\ run'.lost = run.lost
      BY <1>1 DEF RunShape, KeepsRead
    <2>3. /\ DOMAIN run'.contexts = {t} \cup DOMAIN run.contexts /\ run'.contexts[t] = NotFound
          /\ \A u \in DOMAIN run.contexts \ {t} : run'.contexts[u] = run.contexts[u]
      BY ONLY <2>1 DEF Cached
    <2> QED
      BY <2>2, <2>3
  <1>2. CASE \E lost \in SUBSET Lookups(t) :
               run' = [run EXCEPT !.lost = @ \cup lost,
                          !.contexts = Cached(@, t, Context(t, run.lost \cup lost)),
                          !.status = Cached(@, t, IF t \in open THEN "open" ELSE "closed")]
    <2>0. PICK lost \in SUBSET Lookups(t) :
               run' = [run EXCEPT !.lost = @ \cup lost,
                          !.contexts = Cached(@, t, Context(t, run.lost \cup lost)),
                          !.status = Cached(@, t, IF t \in open THEN "open" ELSE "closed")]
      BY <1>2
    <2>1. /\ run'.lost = run.lost \cup lost
          /\ run'.contexts = Cached(run.contexts, t, Context(t, run.lost \cup lost))
      BY <2>0 DEF RunShape
    <2>2. /\ RunShape(run') /\ run'.pc = run.pc /\ KeepsRead /\ run'.taxonomy = run.taxonomy
          /\ run'.payload = run.payload /\ run'.refused = run.refused
      BY <2>0 DEF RunShape, KeepsRead
    <2>3. /\ DOMAIN run'.contexts = {t} \cup DOMAIN run.contexts
          /\ run'.contexts[t] = Context(t, run'.lost)
          /\ \A u \in DOMAIN run.contexts \ {t} : run'.contexts[u] = run.contexts[u]
      BY ONLY <2>1 DEF Cached
    <2> QED
      BY <2>1, <2>2, <2>3
  <1> QED
    BY <1>1, <1>2 DEF Resolve

LEMMA ReadTaxonomyFields ==
    ASSUME RunShape(run), ReadTaxonomy
    PROVE  /\ RunShape(run') /\ run.pc = "markets" /\ run'.pc = "legs" /\ KeepsRead /\ KeepsData
           /\ run'.payload = run.payload /\ run'.refused = run.refused
           /\ run'.taxonomy \in {run.taxonomy, NoTaxonomy, Full}
           /\ SeenTickers \subseteq Resolved
  BY DEF ReadTaxonomy, RunShape, KeepsRead, KeepsData, Full

LEMMA EvaluateFields ==
    ASSUME RunShape(run), Evaluate
    PROVE  /\ RunShape(run') /\ run.pc = "legs" /\ run'.pc = "done" /\ KeepsRead /\ KeepsData
           /\ run'.taxonomy = run.taxonomy /\ CandidateLegs \subseteq Resolved
           /\ run'.payload = {Wager(o) : o \in Passed}
           /\ run'.refused = [o \in Candidates \ Passed |-> Refusal(o)]
           /\ run'.health = Health(run'.refused, run'.payload)
           /\ handed' = handed \cup run'.payload
  <1> DEFINE refusal == [o \in Candidates |-> Refusal(o)]
             kept == Restrict(refusal, {o \in DOMAIN refusal : refusal[o] # Nothing})
             payload == {Wager(o) : o \in DOMAIN refusal \ DOMAIN kept}
  <1>1. kept = [o \in Candidates \ Passed |-> Refusal(o)]
    <2>1. {o \in DOMAIN refusal : refusal[o] # Nothing} = Candidates \ Passed
      BY DEF Passed
    <2>2. \A o \in Candidates \ Passed : refusal[o] = Refusal(o)
      OBVIOUS
    <2> HIDE DEF refusal
    <2> QED
      BY <2>1, <2>2 DEF Restrict
  <1>2. payload = {Wager(o) : o \in Passed}
    <2>1. DOMAIN kept = Candidates \ Passed
      BY <1>1
    <2>2. DOMAIN refusal \ DOMAIN kept = Passed
      <3>1. DOMAIN refusal = Candidates /\ Passed \subseteq Candidates
        BY DEF Passed
      <3> HIDE DEF refusal, kept
      <3> QED
        BY <2>1, <3>1
    <2> HIDE DEF refusal, kept
    <2> QED
      BY <2>2
  <1>3. /\ run.pc = "legs" /\ CandidateLegs \subseteq Resolved
        /\ run' = [run EXCEPT !.pc = "done", !.payload = payload, !.refused = kept,
                              !.health = Health(kept, payload)]
        /\ handed' = handed \cup payload
    BY DEF Evaluate, Settle, Written
  <1> HIDE DEF refusal, kept, payload
  <1>4. /\ RunShape(run') /\ run'.pc = "done" /\ KeepsRead /\ KeepsData
        /\ run'.taxonomy = run.taxonomy /\ run'.payload = payload /\ run'.refused = kept
        /\ run'.health = Health(kept, payload)
    BY <1>3 DEF RunShape, KeepsRead, KeepsData
  <1> QED
    BY <1>1, <1>2, <1>3, <1>4

LEMMA FinishFields ==
    ASSUME RunShape(run), Finish
    PROVE  /\ RunShape(run') /\ run.pc = "done" /\ run'.pc = "idle" /\ KeepsRead /\ KeepsData
           /\ run'.taxonomy = run.taxonomy
           /\ run'.payload = run.payload /\ run'.refused = run.refused
  BY DEF Finish, RunShape, KeepsRead, KeepsData

LEMMA NextMarket ==
    ASSUME NEW tickers, ResolveNext(tickers)
    PROVE  \E t \in Tickers : t \in tickers \ Resolved /\ Resolve(t)
  BY DEF ResolveNext, Awaited, Tickers, Range

LEMMA DeliverKeepsExchange ==
    ASSUME Deliver
    PROVE  UNCHANGED exchange
  BY DEF Deliver, Start, ReadLive, ReadArchive, ResolveMarket, ReadTaxonomy, ResolveLeg,
         Evaluate, Finish

\* The steps of a run after its fills are read, and before it ends.
LEMMA DeliverCases ==
    ASSUME Deliver
    PROVE  \/ Start \/ ReadLive \/ ReadArchive \/ ReadTaxonomy \/ Evaluate \/ Finish
           \/ \E t \in Tickers \ Resolved : Resolve(t) /\ run.pc \in {"markets", "legs"}
  BY NextMarket DEF Deliver, ResolveMarket, ResolveLeg

\* The market data of a run stays what the catalogue says, less its failures.
LEMMA DeliverData ==
    ASSUME IInv, Deliver
    PROVE  DataInv'
  <1>0. RunShape(run) /\ run.now \in 0..clock /\ clock \in Nat
    BY DEF IInv, DataInv, ExchangeInv
  <1>1. clock' = clock /\ catalogue' = catalogue
    BY DeliverKeepsExchange DEF exchange
  <1>2. Full' = Full /\ \A t, l : Context(t, l)' = Context(t, l)
    BY <1>1, SameCatalogue
  <1>3. DataInv' <=>
          /\ RunShape(run') /\ run'.now \in 0..clock
          /\ DOMAIN run'.contexts \subseteq Tickers
          /\ \A t \in DOMAIN run'.contexts :
                run'.contexts[t] = NotFound \/ \E l \in SUBSET run'.lost : run'.contexts[t] = Context(t, l)
          /\ run'.taxonomy \in {NoTaxonomy, Full}
    BY <1>1, <1>2 DEF DataInv
  <1>4. /\ DOMAIN run.contexts \subseteq Tickers
        /\ \A t \in DOMAIN run.contexts :
              run.contexts[t] = NotFound \/ \E l \in SUBSET run.lost : run.contexts[t] = Context(t, l)
        /\ run.taxonomy \in {NoTaxonomy, Full}
    BY DEF IInv, DataInv
  <1>5. ASSUME RunShape(run'), run'.contexts = <<>>, run'.taxonomy = NoTaxonomy,
               run'.now \in {clock, 0}
        PROVE  DataInv'
    <2>1. DOMAIN run'.contexts = {}
      BY <1>5
    <2> QED
      BY <1>0, <1>3, <1>5, <2>1
  <1>6. CASE Start \/ ReadLive
    <2>1. CASE /\ RunShape(run') /\ KeepsData /\ run'.now = run.now /\ run'.taxonomy = run.taxonomy
      BY <1>0, <1>3, <1>4, <2>1 DEF KeepsData
    <2> QED
      BY <1>0, <1>5, <1>6, <2>1, StartFields, ReadLiveFields
  <1>7. CASE ReadArchive
    BY <1>0, <1>3, <1>4, <1>7, ReadArchiveFields DEF KeepsData
  <1>8. CASE \E t \in Tickers \ Resolved : Resolve(t) /\ run.pc \in {"markets", "legs"}
    <2>1. PICK t \in Tickers \ Resolved : Resolve(t)
      BY <1>8
    <2>2. /\ RunShape(run') /\ run'.now = run.now /\ run'.taxonomy = run.taxonomy
          /\ run.lost \subseteq run'.lost
          /\ DOMAIN run'.contexts = {t} \cup DOMAIN run.contexts
          /\ run'.contexts[t] = NotFound \/ run'.contexts[t] = Context(t, run'.lost)
          /\ \A u \in DOMAIN run.contexts \ {t} : run'.contexts[u] = run.contexts[u]
      BY <1>0, <2>1, ResolveFields DEF KeepsRead
    <2>3. ASSUME NEW u \in DOMAIN run'.contexts
          PROVE  \/ run'.contexts[u] = NotFound
                 \/ \E l \in SUBSET run'.lost : run'.contexts[u] = Context(u, l)
      <3>1. CASE u = t
        BY <2>2, <3>1
      <3>2. CASE u # t
        <4>1. u \in DOMAIN run.contexts /\ run'.contexts[u] = run.contexts[u]
          BY <2>2, <3>2
        <4> QED
          BY <1>4, <2>2, <4>1
      <3> QED
        BY <3>1, <3>2
    <2> QED
      BY <1>0, <1>3, <1>4, <2>2, <2>3
  <1>9. CASE ReadTaxonomy
    BY <1>0, <1>3, <1>4, <1>9, ReadTaxonomyFields DEF KeepsRead, KeepsData
  <1>10. CASE Evaluate
    BY <1>0, <1>3, <1>4, <1>10, EvaluateFields DEF KeepsRead, KeepsData
  <1>11. CASE Finish
    BY <1>0, <1>3, <1>4, <1>11, FinishFields DEF KeepsRead, KeepsData
  <1> QED
    BY <1>6, <1>7, <1>8, <1>9, <1>10, <1>11, DeliverCases

\* The two walks together miss no fill older than the run, and never the first
\* of an order of which they saw any.
LEMMA DeliverRead ==
    ASSUME IInv, Deliver
    PROVE  ReadInv'
  <1>0. /\ RunShape(run) /\ run.seen \in [Orders -> SUBSET Nat]
        /\ archive \in Nat /\ clock \in Nat /\ clock <= MaxClock /\ MaxClock \in Nat
    BY Parameters DEF IInv, DataInv, ExchangeInv, ReadInv
  <1>1. clock' = clock /\ archive' = archive /\ fills' = fills
    BY DeliverKeepsExchange DEF exchange
  <1>2. ASSUME NEW o \in Orders
        PROVE  /\ Range(fills[o]) \subseteq 0..clock /\ run.seen[o] \subseteq Range(fills[o])
               /\ Range(fills[o]) # {} => Head(fills[o]) \in Range(fills[o])
               /\ \A f \in Range(fills[o]) : Head(fills[o]) <= f
    <2>1. /\ fills[o] \in Seq(Nat) /\ Range(fills[o]) \subseteq 0..clock
          /\ InOrderOfTime(fills[o]) /\ run.seen[o] \subseteq Range(fills[o])
      BY DEF IInv, ExchangeInv, ReadInv
    <2>2. (fills[o] = <<>> => Range(fills[o]) = {}) /\ (fills[o] # <<>> => Head(fills[o]) \in Range(fills[o]))
      BY <2>1, EndsAreElements
    <2> QED
      BY <2>1, <2>2 DEF InOrderOfTime
  <1>3. ASSUME KeepsRead, run'.pc \notin {"live", "archive"}
        PROVE  ReadInv'
    BY <1>1, <1>3 DEF IInv, ReadInv, KeepsRead
  <1>4. ASSUME run'.seen = [o \in Orders |-> {}], run'.archiveRead = FALSE, run'.pc # "archive"
        PROVE  ReadInv'
    BY <1>4 DEF ReadInv
  <1>5. ASSUME NEW served, NEW seen, seen = Observe(run.seen, served)
        PROVE  /\ seen \in [Orders -> SUBSET Nat]
               /\ \A o \in Orders : /\ seen[o] = run.seen[o] \cup (Range(fills[o]) \cap served)
                                    /\ seen[o] \subseteq Range(fills[o])
    <2>1. \A o \in Orders : seen[o] = run.seen[o] \cup (Range(fills[o]) \cap served)
      BY <1>5 DEF Observe
    <2>2. seen = [o \in Orders |-> seen[o]]
      BY <1>5 DEF Observe
    <2>3. \A o \in Orders : seen[o] \subseteq Range(fills[o]) /\ seen[o] \subseteq Nat
      BY <1>0, <1>2, <2>1
    <2> QED
      BY <2>1, <2>2, <2>3
  <1>6. CASE Start
    BY <1>4, <1>6, StartFields
  <1>7. CASE ReadLive
    <2>1. CASE /\ run'.pc = "archive" /\ run'.seen = Observe(run.seen, archive..MaxClock)
               /\ run'.archiveRead = run.archiveRead /\ run'.now = run.now /\ run.pc = "live"
      <3>1. run'.archiveRead = FALSE
        BY <2>1 DEF IInv, ReadInv
      <3>2. /\ run'.seen \in [Orders -> SUBSET Nat]
            /\ \A o \in Orders : /\ run'.seen[o] = run.seen[o] \cup (Range(fills[o]) \cap archive..MaxClock)
                                 /\ run'.seen[o] \subseteq Range(fills[o])
        BY <1>5, <2>1
      <3>3. ASSUME NEW o \in Orders
            PROVE  /\ \A f \in Range(fills[o]) : f \in run'.seen[o] \/ f < archive
                   /\ run'.seen[o] # {} => Head(fills[o]) \in run'.seen[o] \/ Head(fills[o]) < archive
        <4>1. \A f \in Range(fills[o]) : f \in run'.seen[o] \/ f < archive
          BY <1>0, <1>2, <3>2
        <4>2. run'.seen[o] # {} => Range(fills[o]) # {}
          BY <3>2
        <4> QED
          BY <1>2, <4>1, <4>2
      <3> QED
        BY <1>1, <2>1, <3>1, <3>2, <3>3 DEF ReadInv
    <2> QED
      BY <1>0, <1>4, <1>7, <2>1, ReadLiveFields
  <1>8. CASE ReadArchive
    <2>1. CASE run'.seen = Observe(run.seen, 0..(archive - 1)) /\ run'.archiveRead = TRUE
      <3>1. /\ run.pc = "archive" /\ run'.pc = "markets" /\ run'.now = run.now
        BY <1>0, <1>8, ReadArchiveFields
      <3>2. /\ run'.seen \in [Orders -> SUBSET Nat]
            /\ \A o \in Orders : /\ run'.seen[o] = run.seen[o] \cup (Range(fills[o]) \cap 0..(archive - 1))
                                 /\ run'.seen[o] \subseteq Range(fills[o])
        BY <1>5, <2>1
      <3>3. ASSUME NEW o \in Orders
            PROVE  /\ \A f \in Range(fills[o]) : f \in run'.seen[o] \/ run.now <= f
                   /\ run'.seen[o] # {} => Head(fills[o]) \in run'.seen[o]
        <4>1. /\ \A f \in Range(fills[o]) : f \in run.seen[o] \/ f < archive \/ run.now <= f
              /\ run.seen[o] # {} => Head(fills[o]) \in run.seen[o] \/ Head(fills[o]) < archive
          BY <3>1 DEF IInv, ReadInv
        <4>2. \A f \in Range(fills[o]) : f < archive => f \in run'.seen[o]
          BY <1>0, <1>2, <3>2
        <4>3. run.seen[o] \subseteq run'.seen[o]
          BY <3>2
        <4>4. run'.seen[o] # {} => Head(fills[o]) \in run'.seen[o]
          <5> SUFFICES ASSUME NEW f \in run'.seen[o]
                       PROVE  Head(fills[o]) \in run'.seen[o]
            OBVIOUS
          <5>1. f \in Range(fills[o]) /\ Head(fills[o]) \in Range(fills[o]) /\ Head(fills[o]) <= f
            BY <1>2, <3>2
          <5>2. CASE f \in run.seen[o]
            BY <4>1, <4>2, <4>3, <5>1, <5>2
          <5>3. CASE f \notin run.seen[o]
            <6>1. f \in 0..(archive - 1)
              BY <3>2, <5>3
            <6>2. Head(fills[o]) < archive
              BY <1>0, <1>2, <5>1, <6>1
            <6> QED
              BY <4>2, <5>1, <6>2
          <5> QED
            BY <5>2, <5>3
        <4> QED
          BY <4>1, <4>2, <4>3, <4>4
      <3> QED
        BY <1>1, <2>1, <3>1, <3>2, <3>3 DEF ReadInv
    <2>2. CASE run'.seen = run.seen /\ run'.archiveRead = run.archiveRead
      BY <1>0, <1>3, <1>8, <2>2, ReadArchiveFields DEF KeepsRead
    <2> QED
      BY <1>0, <1>8, <2>1, <2>2, ReadArchiveFields
  <1>9. CASE \E t \in Tickers \ Resolved : Resolve(t) /\ run.pc \in {"markets", "legs"}
    BY <1>0, <1>3, <1>9, ResolveFields
  <1>10. CASE ReadTaxonomy
    BY <1>0, <1>3, <1>10, ReadTaxonomyFields
  <1>11. CASE Evaluate
    BY <1>0, <1>3, <1>11, EvaluateFields
  <1>12. CASE Finish
    BY <1>0, <1>3, <1>12, FinishFields
  <1> QED
    BY <1>6, <1>7, <1>8, <1>9, <1>10, <1>11, <1>12, DeliverCases

\* An evaluation finds every market of its candidates resolved, and decides
\* each candidate once.
LEMMA DeliverEvaluated ==
    ASSUME IInv, Deliver
    PROVE  EvaluatedInv'
  <1>0. RunShape(run) /\ catalogue' = catalogue
    BY DeliverKeepsExchange DEF IInv, DataInv, exchange
  <1>1. Apart
    BY DEF IInv, EvaluatedInv
  <1>2. ASSUME run'.payload = run.payload, run'.refused = run.refused, run'.pc \notin {"legs", "done"}
        PROVE  EvaluatedInv'
    BY <1>1, <1>2 DEF EvaluatedInv, Apart
  <1>3. ASSUME run'.payload = {}, run'.pc \notin {"legs", "done"}
        PROVE  EvaluatedInv'
    BY <1>3 DEF EvaluatedInv, Apart
  <1>4. ASSUME run'.payload = run.payload, run'.refused = run.refused, run'.pc = "legs",
               SeenTickers' \subseteq Resolved'
        PROVE  EvaluatedInv'
    BY <1>1, <1>4 DEF EvaluatedInv, Apart
  <1>5. CASE Start
    BY <1>3, <1>5, StartFields
  <1>6. CASE ReadLive
    BY <1>0, <1>2, <1>3, <1>6, ReadLiveFields
  <1>7. CASE ReadArchive
    BY <1>0, <1>2, <1>7, ReadArchiveFields
  <1>8. CASE \E t \in Tickers \ Resolved : Resolve(t) /\ run.pc \in {"markets", "legs"}
    <2>1. PICK t \in Tickers \ Resolved : Resolve(t) /\ run.pc \in {"markets", "legs"}
      BY <1>8
    <2>2. /\ run'.pc = run.pc /\ KeepsRead
          /\ run'.payload = run.payload /\ run'.refused = run.refused
          /\ DOMAIN run.contexts \subseteq DOMAIN run'.contexts
      BY <1>0, <2>1, ResolveFields
    <2>3. CASE run.pc = "markets"
      BY <1>2, <2>2, <2>3
    <2>4. CASE run.pc = "legs"
      <3>1. SeenTickers \subseteq Resolved
        BY <2>4 DEF IInv, EvaluatedInv
      <3>2. SeenTickers' = SeenTickers /\ Resolved \subseteq Resolved'
        BY <2>2 DEF SeenTickers, SeenOrders, Resolved, KeepsRead
      <3> QED
        BY <1>4, <2>2, <2>4, <3>1, <3>2
    <2> QED
      BY <2>1, <2>3, <2>4
  <1>9. CASE ReadTaxonomy
    <2>1. /\ run'.pc = "legs" /\ KeepsRead /\ KeepsData /\ SeenTickers \subseteq Resolved
          /\ run'.payload = run.payload /\ run'.refused = run.refused
      BY <1>0, <1>9, ReadTaxonomyFields
    <2>2. SeenTickers' = SeenTickers /\ Resolved' = Resolved
      BY <2>1 DEF SeenTickers, SeenOrders, Resolved, KeepsRead, KeepsData
    <2> QED
      BY <1>4, <2>1, <2>2
  <1>10. CASE Evaluate
    <2>1. /\ run.pc = "legs" /\ run'.pc = "done" /\ KeepsRead /\ KeepsData
          /\ run'.taxonomy = run.taxonomy /\ CandidateLegs \subseteq Resolved
          /\ run'.payload = {Wager(o) : o \in Passed}
          /\ run'.refused = [o \in Candidates \ Passed |-> Refusal(o)]
          /\ run'.health = Health(run'.refused, run'.payload)
      BY <1>0, <1>10, EvaluateFields
    <2>2. /\ Resolved' = Resolved /\ SeenTickers' = SeenTickers
          /\ Candidates' = Candidates /\ CandidateLegs' = CandidateLegs /\ Passed' = Passed
          /\ \A o : Refusal(o)' = Refusal(o) /\ Wager(o)' = Wager(o)
      BY <1>0, <2>1, SameRun
    <2>3. SeenTickers \subseteq Resolved
      BY <2>1 DEF IInv, EvaluatedInv
    <2>4. Apart'
      <3>1. \A w \in run'.payload : w.order \in Passed
        BY <2>1 DEF Wager
      <3>2. DOMAIN run'.refused = Candidates \ Passed
        BY <2>1
      <3> QED
        BY <3>1, <3>2 DEF Apart
    <2> QED
      BY <2>1, <2>2, <2>3, <2>4 DEF EvaluatedInv
  <1>11. CASE Finish
    BY <1>0, <1>2, <1>11, FinishFields
  <1> QED
    BY <1>5, <1>6, <1>7, <1>8, <1>9, <1>10, <1>11, DeliverCases

---------------------------------------------------------------------------
(* What an evaluation hands over.                                          *)

\* The gates an order passed.
LEMMA GatesPassed ==
    ASSUME NEW o, Refusal(o) = Nothing
    PROVE  LET t == TickerOf[o]
               sport == ClassifyWithLegs(t, run.contexts, run.taxonomy).sport
           IN  /\ catalogue.booked[o] \notin {"unpriced", "feeless"}
               /\ sport \in Routed
               /\ IsCombo(run.contexts[t]) => sport \in ComboRecorders
               /\ ContestDate(t, run.contexts) # Nothing
  BY DEF Refusal, Gates, Nothing

\* A candidate's market is resolved, and so are the legs it states.
LEMMA CandidateResolved ==
    ASSUME DataInv, SeenTickers \subseteq Resolved, CandidateLegs \subseteq Resolved,
           NEW o \in Candidates
    PROVE  LET t == TickerOf[o]
           IN  /\ t \in Resolved /\ t \in Tickers
               /\ LegsStated(run.contexts[t]) => run.contexts[t].legs \subseteq Resolved
  <1>1. o \in SeenOrders /\ TickerOf[o] \in Resolved /\ Resolved \subseteq Tickers
    BY DEF Candidates, SeenTickers, Resolved, DataInv
  <1>2. LegsStated(run.contexts[TickerOf[o]]) => run.contexts[TickerOf[o]].legs \subseteq CandidateLegs
    BY DEF CandidateLegs
  <1> QED
    BY <1>1, <1>2

\* A combo has a date only when its legs are stated.
LEMMA DatedCombo ==
    ASSUME NEW t, NEW ctxs, ContestDate(t, ctxs) # Nothing, IsCombo(ctxs[t])
    PROVE  LegsStated(ctxs[t])
  BY DEF ContestDate, ComboGameDate

\* When every call was answered, what the run resolved is what the catalogue
\* says, and so are a candidate's league and date.
LEMMA AsInCatalogue ==
    ASSUME DataInv, Unfailing, NEW t \in Resolved,
           LegsStated(run.contexts[t]) => run.contexts[t].legs \subseteq Resolved,
           \/ ContestDate(t, run.contexts) # Nothing
           \/ ContestDate(t, Ideal) # Nothing
    PROVE  /\ run.contexts[t] = Context(t, {})
           /\ ContestDate(t, run.contexts) = ContestDate(t, Ideal)
           /\ ClassifyWithLegs(t, run.contexts, run.taxonomy) = ClassifyWithLegs(t, Ideal, Full)
  <1>1. ASSUME NEW u \in Resolved
        PROVE  run.contexts[u] = Ideal[u] /\ Ideal[u] = Context(u, {})
    <2>1. run.contexts[u].found /\ u \in Tickers /\ run.lost = {}
      BY DEF Unfailing, DataInv, Resolved
    <2>2. run.contexts[u] # NotFound
      BY <2>1 DEF NotFound
    <2>3. \E l \in SUBSET run.lost : run.contexts[u] = Context(u, l)
      BY <2>2 DEF DataInv, Resolved
    <2>4. run.contexts[u] = Context(u, {})
      BY <2>1, <2>3
    <2> QED
      BY <2>1, <2>4 DEF Ideal
  <1>2. run.taxonomy = Full
    BY DEF Unfailing, DataInv, NoTaxonomy
  <1>3. run.contexts[t] = Ideal[t] /\ Ideal[t] = Context(t, {})
    BY <1>1
  <1>4. CASE ~IsCombo(Ideal[t])
    BY <1>2, <1>3, <1>4 DEF ClassifyWithLegs, ContestDate
  <1>5. CASE IsCombo(Ideal[t])
    <2>1. LegsStated(Ideal[t])
      BY <1>3, <1>5, DatedCombo
    <2>2. \A l \in Ideal[t].legs : run.contexts[l] = Ideal[l]
      BY <1>1, <1>3, <2>1
    <2>3. {GameDate(run.contexts[l]) : l \in Ideal[t].legs} = {GameDate(Ideal[l]) : l \in Ideal[t].legs}
      BY <2>2
    <2>4. ContestDate(t, run.contexts) = ContestDate(t, Ideal)
      <3> DEFINE own == {GameDate(run.contexts[l]) : l \in Ideal[t].legs}
                 true == {GameDate(Ideal[l]) : l \in Ideal[t].legs}
      <3>1. ContestDate(t, run.contexts) = IF LegsStated(Ideal[t]) /\ Cardinality(own) = 1
                                           THEN CHOOSE d \in own : TRUE ELSE Nothing
        BY <1>3, <1>5 DEF ContestDate, ComboGameDate
      <3>2. ContestDate(t, Ideal) = IF LegsStated(Ideal[t]) /\ Cardinality(true) = 1
                                    THEN CHOOSE d \in true : TRUE ELSE Nothing
        BY <1>5 DEF ContestDate, ComboGameDate
      <3>3. own = true
        BY <2>3
      <3> HIDE DEF own, true
      <3> QED
        BY <3>1, <3>2, <3>3
    <2>5. /\ {ClassifyMarket(run.contexts[l], Full).sport : l \in Ideal[t].legs}
               = {ClassifyMarket(Ideal[l], Full).sport : l \in Ideal[t].legs}
          /\ (\E l \in Ideal[t].legs : IsCombo(run.contexts[l]))
               <=> (\E l \in Ideal[t].legs : IsCombo(Ideal[l]))
      BY <2>2
    <2>6. ClassifyWithLegs(t, run.contexts, Full) = ClassifyWithLegs(t, Ideal, Full)
      BY <1>3, <1>5, <2>5 DEF ClassifyWithLegs
    <2> QED
      BY <1>2, <1>3, <2>4, <2>6
  <1> QED
    BY <1>4, <1>5

\* The greatest of the fills a run saw is one of them.
LEMMA LastSeen ==
    ASSUME ExchangeInv, ReadInv, NEW o \in Orders, run.seen[o] # {}
    PROVE  /\ run.seen[o] \subseteq 0..clock /\ clock \in Nat
           /\ Max(run.seen[o]) \in run.seen[o] /\ \A f \in run.seen[o] : f <= Max(run.seen[o])
           /\ Min(run.seen[o]) \in run.seen[o] /\ \A f \in run.seen[o] : Min(run.seen[o]) <= f
  <1>1. run.seen[o] \subseteq 0..clock /\ clock \in Nat
    BY DEF ExchangeInv, ReadInv
  <1>2. run.seen[o] \subseteq Nat /\ \A f \in run.seen[o] : f <= clock
    BY <1>1
  <1> QED
    BY <1>1, <1>2, MaxIsGreatest, MinIsLeast

\* A run that read both routes and finds an order stable has seen all of it: a
\* fill since it began would have had one shortly before.
LEMMA StableIsWhole ==
    ASSUME ExchangeInv, ReadInv, DataInv, run.archiveRead, NEW o \in Orders, run.seen[o] # {},
           run.now - Max(run.seen[o]) >= Window
    PROVE  /\ run.seen[o] = Range(fills[o])
           /\ \A f \in Range(fills[o]) : f + Window <= run.now
  <1>1. /\ run.seen[o] \subseteq 0..clock /\ clock \in Nat
        /\ Max(run.seen[o]) \in run.seen[o] /\ \A f \in run.seen[o] : f <= Max(run.seen[o])
    BY LastSeen
  <1>2. run.now \in Nat /\ Window \in Nat /\ Window > 0
    BY <1>1, Parameters DEF DataInv
  <1>3. /\ fills[o] \in Seq(Nat) /\ Range(fills[o]) \subseteq 0..clock
        /\ InOrderOfTime(fills[o]) /\ run.seen[o] \subseteq Range(fills[o])
    BY DEF ExchangeInv, ReadInv
  <1>4. /\ \A f \in Range(fills[o]) : f \in run.seen[o] \/ run.now <= f
        /\ Head(fills[o]) \in run.seen[o]
    BY DEF ReadInv
  <1>5. \A f \in run.seen[o] : f + Window <= run.now
    BY <1>1, <1>2
  <1>6. ASSUME NEW f \in Range(fills[o]), run.now <= f PROVE FALSE
    <2>1. fills[o] # <<>>
      BY <1>3, EndsAreElements
    <2>2. Last(fills[o]) \in Nat /\ f \in Nat /\ f <= Last(fills[o])
      BY <1>3, <2>1, EndsAreElements DEF InOrderOfTime
    <2>3. Head(fills[o]) \in Nat /\ Head(fills[o]) < run.now
      BY <1>1, <1>2, <1>4, <1>5
    <2>4. PICK g \in Range(fills[o]) : g < run.now /\ run.now < g + Window
      <3>1. \A n \in Nat : (Head(fills[o]) < n /\ n <= Last(fills[o])) =>
               \E g \in Range(fills[o]) : g < n /\ n < g + Window
        BY <1>3, <2>1 DEF InOrderOfTime
      <3>2. run.now <= Last(fills[o])
        BY <1>2, <1>6, <2>2
      <3> QED
        BY <1>2, <2>3, <3>1, <3>2
    <2>5. g \in run.seen[o] /\ g \in Nat
      BY <1>2, <1>3, <1>4, <2>4
    <2> QED
      BY <1>2, <1>5, <2>4, <2>5
  <1>7. Range(fills[o]) = run.seen[o]
    BY <1>3, <1>4, <1>6
  <1> QED
    BY <1>5, <1>7

\* What a run that was answered every call hands over.
LEMMA HandsOver ==
    ASSUME IInv, run.pc = "legs", CandidateLegs \subseteq Resolved, Unfailing, NEW o \in Passed
    PROVE  /\ o \in Orders /\ fills[o] # <<>> /\ Head(fills[o]) > Cutover
           /\ AssessFinality(o) = "final_stable" => Stable(Wager(o))
  <1>0. ExchangeInv /\ DataInv /\ ReadInv /\ SeenTickers \subseteq Resolved
    BY DEF IInv, EvaluatedInv
  <1>1. /\ o \in Orders /\ o \in Candidates /\ run.seen[o] # {} /\ Min(run.seen[o]) > Cutover
        /\ Refusal(o) = Nothing
    BY DEF Passed, Candidates, SeenOrders, IsAfterCutover
  <1>2. run.archiveRead
    BY DEF Unfailing
  <1>3. Head(fills[o]) \in run.seen[o] /\ run.seen[o] \subseteq Range(fills[o])
    BY <1>0, <1>1, <1>2 DEF ReadInv
  <1>4. Head(fills[o]) > Cutover
    <2>1. /\ Min(run.seen[o]) <= Head(fills[o]) /\ Min(run.seen[o]) \in Nat /\ Head(fills[o]) \in Nat
      BY <1>0, <1>1, <1>3, LastSeen
    <2> QED
      BY <1>1, <2>1, Parameters
  <1>5. fills[o] # <<>>
    <2>1. fills[o] \in Seq(Nat)
      BY <1>0, <1>1 DEF ExchangeInv
    <2> QED
      BY <1>3, <2>1, EndsAreElements
  <1>6. ASSUME AssessFinality(o) = "final_stable"
        PROVE  Stable(Wager(o))
    <2> DEFINE t == TickerOf[o]
               w == Wager(o)
    <2>1. run.now - Max(run.seen[o]) >= Window
      BY <1>6 DEF AssessFinality
    <2>2. run.seen[o] = Range(fills[o]) /\ \A f \in Range(fills[o]) : f + Window <= run.now
      BY <1>0, <1>1, <1>2, <2>1, StableIsWhole
    <2>3. \A f \in Range(fills[o]) : f + Window <= clock
      <3>1. run.now \in Nat /\ clock \in Nat /\ run.now <= clock /\ Window \in Nat
        BY <1>0, Parameters DEF DataInv, ExchangeInv
      <3>2. Range(fills[o]) \subseteq Nat
        BY <1>0, <1>1 DEF ExchangeInv
      <3> QED
        BY <2>2, <3>1, <3>2
    <2>4. /\ catalogue.booked[o] \notin {"unpriced", "feeless"}
          /\ ClassifyWithLegs(t, run.contexts, run.taxonomy).sport \in Routed
          /\ IsCombo(run.contexts[t]) =>
                ClassifyWithLegs(t, run.contexts, run.taxonomy).sport \in ComboRecorders
          /\ ContestDate(t, run.contexts) # Nothing
      BY <1>1, GatesPassed
    <2>5. /\ t \in Resolved
          /\ LegsStated(run.contexts[t]) => run.contexts[t].legs \subseteq Resolved
      BY <1>0, <1>1, CandidateResolved
    <2>6. /\ run.contexts[t] = Context(t, {})
          /\ ContestDate(t, run.contexts) = ContestDate(t, Ideal)
          /\ ClassifyWithLegs(t, run.contexts, run.taxonomy) = ClassifyWithLegs(t, Ideal, Full)
      BY <1>0, <2>4, <2>5, AsInCatalogue
    <2>7. /\ w.order = o /\ w.filled = run.seen[o] /\ w.date = ContestDate(t, run.contexts)
          /\ w.sport = ClassifyWithLegs(t, run.contexts, run.taxonomy).sport
      BY DEF Wager
    <2> HIDE DEF w
    <2>8. Stable(w)
      BY <2>2, <2>3, <2>4, <2>6, <2>7 DEF Stable
    <2> QED
      BY <2>8 DEF w
  <1> QED
    BY <1>1, <1>4, <1>5, <1>6

\* What was handed over stays what it is through every step of a run, and what
\* is handed over now is as HandsOver says.
LEMMA DeliverHanded ==
    ASSUME IInv, Deliver
    PROVE  HandedInv'
  <1>0. /\ catalogue' = catalogue /\ clock' = clock /\ fills' = fills /\ RunShape(run)
        /\ clock \in Nat
    BY DeliverKeepsExchange DEF IInv, DataInv, ExchangeInv, exchange
  <1>1. run'.pc # "idle" => \/ run.pc # "idle" /\ run'.now = run.now
                            \/ run'.now = clock
    <2>1. CASE Start
      BY <2>1, StartFields
    <2>2. CASE ReadLive
      BY <1>0, <2>2, ReadLiveFields
    <2>3. CASE ReadArchive
      BY <1>0, <2>3, ReadArchiveFields
    <2>4. CASE \E t \in Tickers \ Resolved : Resolve(t) /\ run.pc \in {"markets", "legs"}
      BY <1>0, <2>4, ResolveFields DEF KeepsRead
    <2>5. CASE ReadTaxonomy
      BY <1>0, <2>5, ReadTaxonomyFields DEF KeepsRead
    <2>6. CASE Evaluate
      BY <1>0, <2>6, EvaluateFields DEF KeepsRead
    <2>7. CASE Finish
      BY <1>0, <2>7, FinishFields
    <2> QED
      BY <2>1, <2>2, <2>3, <2>4, <2>5, <2>6, <2>7, DeliverCases
  <1>2. ASSUME NEW w, w.order \in Orders, Stable(w)
        PROVE  Stable(w)'
    BY <1>0, <1>1, <1>2, StillStable DEF IInv
  <1>3. ASSUME NEW w \in handed'
        PROVE  \/ w \in handed
               \/ /\ run.pc = "legs" /\ CandidateLegs \subseteq Resolved
                  /\ \E o \in Passed : w = Wager(o)
    <2>1. CASE Evaluate
      BY <1>0, <1>3, <2>1, EvaluateFields
    <2>2. CASE ~Evaluate
      BY <1>3, <2>2 DEF Deliver, Start, ReadLive, ReadArchive, ResolveMarket, ReadTaxonomy,
                        ResolveLeg, Finish
    <2> QED
      BY <2>1, <2>2
  <1>4. ASSUME NEW w \in handed', w.clean
        PROVE  /\ w.order \in Orders /\ fills[w.order] # <<>> /\ Head(fills[w.order]) > Cutover
               /\ w.finality = "final_stable" => Stable(w)
    <2>1. CASE w \in handed
      BY <1>4, <2>1 DEF IInv, HandedInv
    <2>2. CASE /\ run.pc = "legs" /\ CandidateLegs \subseteq Resolved
               /\ \E o \in Passed : w = Wager(o)
      <3>1. PICK o \in Passed : w = Wager(o)
        BY <2>2
      <3>2. w.order = o /\ w.finality = AssessFinality(o) /\ (w.clean <=> Unfailing)
        BY <3>1 DEF Wager
      <3>3. Unfailing
        BY <1>4, <3>2
      <3> QED
        BY <2>2, <3>1, <3>2, <3>3, HandsOver
    <2> QED
      BY <1>3, <2>1, <2>2
  <1>5. ASSUME NEW w \in handed', w.clean
        PROVE  /\ w.order \in Orders /\ fills'[w.order] # <<>> /\ Head(fills'[w.order]) > Cutover
               /\ w.finality = "final_stable" => Stable(w)'
    BY <1>0, <1>2, <1>4, <1>5
  <1> QED
    BY <1>5 DEF HandedInv

---------------------------------------------------------------------------
(* The theorems.                                                           *)

LEMMA InitiallySound == Init => IInv
  <1> SUFFICES ASSUME Init PROVE IInv
    OBVIOUS
  <1>0. /\ MaxClock \in Nat /\ Cutover \in Nat /\ Cutover + 1 <= MaxClock
        /\ Lively \subseteq Catalogues
    BY Parameters
  <1>1. /\ run = Idle /\ handed = {} /\ archive = 0 /\ catalogue \in Catalogues
        /\ \/ clock = 0 /\ fills = [o \in Orders |-> <<>>]
           \/ clock = MaxClock /\ fills = [o \in Orders |-> <<Cutover + 1>>]
    BY <1>0 DEF Init
  <1>2. /\ RunShape(run) /\ run.pc = "idle" /\ run.now = 0 /\ run.seen = [o \in Orders |-> {}]
        /\ run.archiveRead = FALSE /\ run.contexts = <<>> /\ run.taxonomy = NoTaxonomy
        /\ run.payload = {}
    BY <1>1 DEF Idle, Fresh, RunShape
  <1>3. ASSUME NEW o \in Orders
        PROVE  /\ fills[o] \in Seq(Nat) /\ Range(fills[o]) \subseteq 0..clock
               /\ InOrderOfTime(fills[o])
    <2>1. CASE fills[o] = <<>>
      BY <2>1 DEF Range, InOrderOfTime
    <2>2. CASE fills[o] = <<Cutover + 1>> /\ clock = MaxClock
      <3> DEFINE x == Cutover + 1
      <3>1. x \in Nat /\ x \in 0..clock
        BY <1>0, <2>2
      <3>2. fills[o] \in Seq(Nat)
        BY <1>0, <2>2
      <3>3. Range(fills[o]) = {x} /\ Head(fills[o]) = x /\ Last(fills[o]) = x
        BY <2>2 DEF Range, Last
      <3> HIDE DEF x
      <3> QED
        BY <3>1, <3>2, <3>3 DEF InOrderOfTime
    <2> QED
      BY <1>1, <2>1, <2>2
  <1>4. ExchangeInv
    <2>1. fills \in [Orders -> Seq(Nat)]
      <3>1. fills = [o \in Orders |-> fills[o]]
        BY <1>1
      <3> QED
        BY <1>3, <3>1
    <2> QED
      BY <1>0, <1>1, <1>3, <2>1 DEF ExchangeInv
  <1>5. DataInv
    <2>1. DOMAIN run.contexts = {}
      BY <1>2
    <2>2. clock \in Nat
      BY <1>0, <1>1
    <2> QED
      BY <1>2, <2>1, <2>2 DEF DataInv
  <1>6. ReadInv
    BY <1>2 DEF ReadInv
  <1>7. EvaluatedInv
    BY <1>2 DEF EvaluatedInv, Apart
  <1>8. HandedInv
    BY <1>1 DEF HandedInv
  <1> QED
    BY <1>4, <1>5, <1>6, <1>7, <1>8 DEF IInv

LEMMA NextKeeps == IInv /\ [Next]_vars => IInv'
  <1> SUFFICES ASSUME IInv, [Next]_vars PROVE IInv'
    OBVIOUS
  <1>1. ExchangeInv'
    BY ExchangeStep DEF IInv
  <1>2. CASE Exchange
    BY <1>1, <1>2, ExchangeKeeps DEF IInv
  <1>3. CASE Deliver
    BY <1>1, <1>3, DeliverData, DeliverRead, DeliverEvaluated, DeliverHanded DEF IInv
  <1>4. CASE UNCHANGED vars
    <2>1. /\ catalogue' = catalogue /\ clock' = clock /\ fills' = fills /\ archive' = archive
          /\ run' = run /\ handed' = handed /\ clock \in Nat
      BY <1>4 DEF vars, exchange, IInv, ExchangeInv
    <2>2. DataInv'
      BY <2>1, SameCatalogue DEF IInv, DataInv
    <2>3. ReadInv'
      BY <2>1 DEF IInv, ReadInv
    <2>4. EvaluatedInv'
      <3>1. /\ Resolved' = Resolved /\ SeenTickers' = SeenTickers
            /\ Candidates' = Candidates /\ CandidateLegs' = CandidateLegs /\ Passed' = Passed
            /\ \A o : Refusal(o)' = Refusal(o) /\ Wager(o)' = Wager(o)
        BY <2>1, SameRun DEF KeepsRead, KeepsData
      <3> QED
        BY <2>1, <3>1 DEF IInv, EvaluatedInv, Apart
    <2>5. HandedInv'
      <3>1. ASSUME NEW w, w.order \in Orders, Stable(w)
            PROVE  Stable(w)'
        BY <2>1, <3>1, StillStable DEF IInv
      <3> QED
        BY <2>1, <3>1 DEF IInv, HandedInv
    <2> QED
      BY <1>1, <2>2, <2>3, <2>4, <2>5 DEF IInv
  <1> QED
    BY <1>2, <1>3, <1>4 DEF Next

LEMMA Inductive == Spec => []IInv
  BY InitiallySound, NextKeeps, PTL DEF Spec

\* What a run resolved of a market, and its taxonomy, are typed.
LEMMA ResolvedIsTyped ==
    ASSUME ExchangeInv, DataInv
    PROVE  /\ \A t \in Resolved : TypedContext(run.contexts[t])
           /\ Usable(run.taxonomy)
  <1>1. catalogue \in Catalogues
    BY DEF ExchangeInv
  <1>2. Usable(Full) /\ Usable(NoTaxonomy)
    BY <1>1, CataloguesAreTyped DEF Usable, Full, NoTaxonomy
  <1>3. TypedContext(NotFound)
    BY DEF NotFound, TypedContext
  <1>4. ASSUME NEW t \in Tickers, NEW l
        PROVE  TypedContext(Context(t, l))
    <2> DEFINE m == catalogue.markets[t]
    <2>1. m \in MarketFacts
      BY <1>1, CataloguesAreTyped
    <2>2. /\ m.seriesMarks \subseteq TextMarks /\ m.eventMarks \subseteq TextMarks
          /\ m.registry \in Leagues \cup {Nothing} /\ m.legs \subseteq Tickers
      BY <2>1, Zenon DEF MarketFacts
    <2> QED
      BY <2>2 DEF Context, TypedContext
  <1>5. ASSUME NEW t \in Resolved
        PROVE  TypedContext(run.contexts[t])
    <2>1. t \in Tickers /\ (run.contexts[t] = NotFound \/ \E l : run.contexts[t] = Context(t, l))
      BY DEF DataInv, Resolved
    <2> QED
      BY <1>3, <1>4, <2>1
  <1>6. run.taxonomy \in {NoTaxonomy, Full}
    BY DEF DataInv
  <1> QED
    BY <1>2, <1>5, <1>6

\* No order first filled before production began is ever handed over by a run
\* that could read the archive (production.py: is_after_cutover, measured on
\* the first execution).
THEOREM OldOrdersStayOut == Spec => []HistoryStaysHistory
  <1>1. IInv => HistoryStaysHistory
    BY DEF IInv, HandedInv, HistoryStaysHistory
  <1> QED
    BY <1>1, Inductive, PTL

\* Every candidate's classification is a league, no decision, or another sport.
LEMMA ClassifiedIsSport ==
    ASSUME ExchangeInv, DataInv, SeenTickers \subseteq Resolved, CandidateLegs \subseteq Resolved,
           NEW o \in Candidates
    PROVE  ClassifyWithLegs(TickerOf[o], run.contexts, run.taxonomy).sport \in Sports
  <1> DEFINE t == TickerOf[o]
             ctx == run.contexts[t]
             base == ClassifyMarket(ctx, run.taxonomy)
             sports == {ClassifyMarket(run.contexts[l], run.taxonomy).sport : l \in ctx.legs}
             nested == \E l \in ctx.legs : IsCombo(run.contexts[l])
             v == JudgeCombo(ctx, base, sports, nested)
  <1>1. TypedContext(ctx) /\ Usable(run.taxonomy)
    BY CandidateResolved, ResolvedIsTyped
  <1>2. base.sport \in Sports
    BY <1>1, MarketClassified
  <1>3. v.sport \in Sports
    <2> HIDE DEF base, sports, nested
    <2>1. (nested) \in BOOLEAN
      BY DEF nested
    <2> QED
      BY <1>2, <2>1, ComboJudged
  <1>4. ClassifyWithLegs(t, run.contexts, run.taxonomy) = IF ~IsCombo(ctx) THEN base ELSE v
    BY DEF ClassifyWithLegs
  <1> HIDE DEF base, v, t, ctx
  <1>5. ClassifyWithLegs(t, run.contexts, run.taxonomy).sport \in Sports
    BY <1>2, <1>3, <1>4
  <1> QED
    BY <1>5 DEF t

\* A run that asks nobody for attention and waits for nothing has handed over
\* every order placed since the cutover that it read, but for leagues no
\* destination has a row shape for; and no run counts as refused what it wrote
\* (production.py: evaluate_production, ProductionDiagnostics.health).
THEOREM HealthHolds == Spec => []HealthIsHonest
  <1>1. ASSUME IInv
        PROVE  HealthIsHonest
    <2>0. ExchangeInv /\ DataInv /\ EvaluatedInv
      BY <1>1 DEF IInv
    <2>1. ASSUME run.pc = "done", Replayed, run.health \notin {"blocked", "deferred"},
                 NEW o \in SeenOrders, IsAfterCutover(o)
          PROVE  \/ \E w \in run.payload : w.order = o
                 \/ ClassifyWithLegs(TickerOf[o], run.contexts, run.taxonomy).sport \in Leagues \ Shaped
      <3>1. /\ SeenTickers \subseteq Resolved /\ CandidateLegs \subseteq Resolved
            /\ run.payload = {Wager(p) : p \in Passed}
            /\ run.refused = [p \in Candidates \ Passed |-> Refusal(p)]
            /\ run.health = Health(run.refused, run.payload)
        BY <2>0, <2>1 DEF EvaluatedInv
      <3>2. o \in Candidates
        BY <2>1 DEF Candidates
      <3>3. CASE o \in Passed
        <4>1. Wager(o).order = o
          BY DEF Wager
        <4>2. Wager(o) \in run.payload
          BY <3>1, <3>3
        <4> QED
          BY <4>1, <4>2
      <3>4. CASE o \notin Passed
        <4> DEFINE sport == ClassifyWithLegs(TickerOf[o], run.contexts, run.taxonomy).sport
        <4>1. /\ o \in DOMAIN run.refused /\ run.refused[o] = Refusal(o) /\ Refusal(o) # Nothing
          BY <3>1, <3>2, <3>4 DEF Passed
        <4>2. ~NeedsAttention(Refusal(o)) /\ Refusal(o) \notin SelfResolving
          BY <2>1, <3>1, <4>1 DEF Health
        <4>3. Refusal(o) = "no_destination_importer"
          BY <4>2 DEF NeedsAttention, ByDesign
        <4>4. sport \in Sports
          BY <2>0, <3>1, <3>2, ClassifiedIsSport
        <4>5. sport \notin {Nothing, "OTHER"} /\ sport \notin Shaped
          BY <4>3 DEF Refusal, Gates, Nothing
        <4> QED
          BY <4>4, <4>5 DEF Sports
      <3> QED
        BY <3>3, <3>4
    <2> QED
      BY <2>0, <2>1 DEF HealthIsHonest, EvaluatedInv, Apart
  <1> QED
    BY <1>1, Inductive, PTL

\* A wager is handed over only on evidence that agrees, of its own market and
\* of every leg of a combo (classify.py: classify_context, classify_with_legs;
\* combo_decode.py: resolve_combo_game_date).
THEOREM RoutedOnAgreement == Spec => []RoutedOnUnanimousEvidence
  <1>1. ASSUME IInv
        PROVE  RoutedOnUnanimousEvidence
    <2>1. ASSUME run.pc = "done", NEW w \in run.payload
          PROVE  LET own == run.contexts[TickerOf[w.order]]
                 IN  /\ Supports(own, run.taxonomy, w.sport)
                     /\ IsCombo(own) => LegsStated(own)
                     /\ IsCombo(own) => \A l \in own.legs :
                           /\ ~IsCombo(run.contexts[l])
                           /\ Supports(run.contexts[l], run.taxonomy, w.sport)
                           /\ ClassifyMarket(run.contexts[l], run.taxonomy).sport = w.sport
                           /\ GameDate(run.contexts[l]) = w.date
      <3>1. /\ SeenTickers \subseteq Resolved /\ CandidateLegs \subseteq Resolved
            /\ run.payload = {Wager(p) : p \in Passed} /\ ExchangeInv /\ DataInv
        BY <1>1, <2>1 DEF IInv, EvaluatedInv
      <3>2. PICK o \in Passed : w = Wager(o)
        BY <2>1, <3>1
      <3> DEFINE t == TickerOf[o]
                 ctx == run.contexts[t]
                 base == ClassifyMarket(ctx, run.taxonomy)
                 sports == {ClassifyMarket(run.contexts[l], run.taxonomy).sport : l \in ctx.legs}
                 nested == \E l \in ctx.legs : IsCombo(run.contexts[l])
                 v == JudgeCombo(ctx, base, sports, nested)
                 league == ClassifyWithLegs(t, run.contexts, run.taxonomy).sport
      <3>3. /\ w.order = o /\ w.sport = league /\ w.date = ContestDate(t, run.contexts)
        BY <3>2 DEF Wager
      <3>4. o \in Candidates /\ Refusal(o) = Nothing
        BY DEF Passed
      <3>5. league \in Leagues /\ ContestDate(t, run.contexts) # Nothing
        BY <3>4, GatesPassed, Parameters
      <3>6. /\ t \in Resolved
            /\ LegsStated(ctx) => ctx.legs \subseteq Resolved
        BY <3>1, <3>4, CandidateResolved
      <3>7. /\ \A u \in Resolved : TypedContext(run.contexts[u])
            /\ Usable(run.taxonomy)
        BY <3>1, ResolvedIsTyped
      <3>8. /\ base.sport \in Sports
            /\ base.sport = league => Supports(ctx, run.taxonomy, league)
            /\ (base.sport = Nothing /\ base.why \in ComboCompletable) =>
                  Supports(ctx, run.taxonomy, league)
        <4>1. TypedContext(ctx)
          BY <3>6, <3>7
        <4>2. /\ base.sport \in Sports
              /\ \A k \in Leagues : base.sport = k => Supports(ctx, run.taxonomy, k)
              /\ (base.sport = Nothing /\ base.why \in ComboCompletable) =>
                    \A k : Supports(ctx, run.taxonomy, k)
          BY <3>7, <4>1, MarketClassified
        <4> HIDE DEF base, league
        <4> QED
          BY <3>5, <4>2
      <3>9. CASE ~IsCombo(ctx)
        <4>1. league = base.sport
          BY <3>9 DEF ClassifyWithLegs
        <4> QED
          BY <3>3, <3>8, <3>9, <4>1
      <3>10. CASE IsCombo(ctx)
        <4>1. LegsStated(ctx) /\ ctx.legs \subseteq Resolved
          BY <3>5, <3>6, <3>10, DatedCombo
        <4>2. league = v.sport
          BY <3>10 DEF ClassifyWithLegs
        <4>3. /\ \/ base.sport = league
                 \/ base.sport = Nothing /\ base.why \in ComboCompletable
              /\ ~nested /\ sports = {league}
          <5> HIDE DEF base, sports, nested, league, ctx
          <5>1. (nested) \in BOOLEAN
            BY DEF nested
          <5> QED
            BY <3>5, <3>8, <4>1, <4>2, <5>1, ComboJudged
        <4>4. Supports(ctx, run.taxonomy, league)
          BY <3>8, <4>3
        <4>5. ASSUME NEW l \in ctx.legs
              PROVE  /\ ~IsCombo(run.contexts[l])
                     /\ ClassifyMarket(run.contexts[l], run.taxonomy).sport = league
                     /\ Supports(run.contexts[l], run.taxonomy, league)
          <5>1. ~IsCombo(run.contexts[l]) /\ ClassifyMarket(run.contexts[l], run.taxonomy).sport = league
            BY <4>3
          <5>2. TypedContext(run.contexts[l])
            BY <3>7, <4>1
          <5> HIDE DEF league
          <5> QED
            BY <3>5, <3>7, <5>1, <5>2, MarketClassified
        <4>6. ASSUME NEW l \in ctx.legs
              PROVE  GameDate(run.contexts[l]) = w.date
          <5> DEFINE g == [k \in ctx.legs |-> GameDate(run.contexts[k])]
                     dates == {GameDate(run.contexts[k]) : k \in ctx.legs}
          <5>1. dates = {g[k] : k \in ctx.legs}
            OBVIOUS
          <5>2. IsFiniteSet(ctx.legs)
            <6>1. IsFiniteSet(Tickers)
              <7>1. IsFiniteSet(DOMAIN TickerOrder)
                <8>1. DOMAIN TickerOrder = 1..Len(TickerOrder) /\ Len(TickerOrder) \in Nat
                  BY Parameters
                <8> QED
                  BY <8>1, FS_Interval
              <7>2. Tickers = {TickerOrder[i] : i \in DOMAIN TickerOrder}
                BY DEF Tickers, Range
              <7> QED
                BY <7>1, <7>2, FiniteImage
            <6>2. ctx.legs \in SUBSET Tickers
              BY <3>6, <3>7 DEF TypedContext
            <6> QED
              BY <6>1, <6>2, FS_Subset
          <5>3. IsFiniteSet(dates)
            <6> HIDE DEF g, dates, ctx
            <6> QED
              BY <5>1, <5>2, FiniteImage
          <5>4. w.date = (CHOOSE d \in dates : TRUE) /\ Cardinality(dates) = 1
            BY <3>3, <3>5, <3>10 DEF ContestDate, ComboGameDate
          <5>5. GameDate(run.contexts[l]) \in dates
            OBVIOUS
          <5> HIDE DEF dates
          <5>6. PICK d : dates = {d}
            BY <5>3, <5>4, FS_Singleton
          <5>7. (CHOOSE x \in dates : TRUE) = d
            BY <5>6
          <5> QED
            BY <5>4, <5>5, <5>6, <5>7
        <4> HIDE DEF league, base, sports, nested
        <4> QED
          BY <3>3, <4>1, <4>4, <4>5, <4>6
      <3> QED
        BY <3>9, <3>10
    <2> QED
      BY <2>1 DEF RoutedOnUnanimousEvidence
  <1> QED
    BY <1>1, Inductive, PTL

\* A wager handed over as stable by a run that read everything is handed over
\* unchanged by every later such run (finality.py: assess_finality; audit.py:
\* the archive is read after the live route, the time is taken before both).
THEOREM StableWagersStand == Spec => StableWagerNeverChanges
  <1>1. ASSUME IInv, [Next]_vars, run.pc = "legs", run'.pc = "done", Unfailing, Replayed,
               NEW w \in handed, w.clean, w.finality = "final_stable"
        PROVE  \E v \in run'.payload : /\ v.order = w.order /\ v.sport = w.sport
                                       /\ v.date = w.date /\ v.filled = w.filled
    <2> DEFINE o == w.order
               t == TickerOf[o]
    <2>0. /\ ExchangeInv /\ DataInv /\ ReadInv /\ RunShape(run) /\ SeenTickers \subseteq Resolved
      BY <1>1 DEF IInv, DataInv, EvaluatedInv
    <2>1. Evaluate
      <3>1. Deliver
        BY <1>1, <2>0, Moved DEF Next, vars
      <3>2. ~Start /\ ~ReadLive /\ ~ReadArchive /\ ~ReadTaxonomy /\ ~Finish
        BY <1>1, <2>0, StartFields, ReadLiveFields, ReadArchiveFields, ReadTaxonomyFields, FinishFields
      <3>3. \A u \in Tickers \ Resolved : ~Resolve(u)
        BY <1>1, <2>0, ResolveFields
      <3> QED
        BY <3>1, <3>2, <3>3, DeliverCases
    <2>2. CandidateLegs \subseteq Resolved /\ run'.payload = {Wager(p) : p \in Passed}
      BY <2>0, <2>1, EvaluateFields
    <2>3. /\ o \in Orders /\ fills[o] # <<>> /\ Head(fills[o]) > Cutover /\ Stable(w)
      BY <1>1 DEF IInv, HandedInv
    <2>4. /\ w.filled = Range(fills[o]) /\ \A f \in Range(fills[o]) : f + Window <= run.now
          /\ catalogue.booked[o] \notin {"unpriced", "feeless"}
          /\ w.sport = ClassifyWithLegs(t, Ideal, Full).sport /\ w.sport \in Routed
          /\ IsCombo(Context(t, {})) => w.sport \in ComboRecorders
          /\ w.date = ContestDate(t, Ideal) /\ w.date # Nothing
      BY <1>1, <2>3 DEF Stable
    <2>5. /\ fills[o] \in Seq(Nat) /\ run.now \in Nat /\ Window \in Nat /\ Window > 0 /\ clock \in Nat
          /\ InOrderOfTime(fills[o]) /\ run.seen[o] \subseteq Range(fills[o])
      BY <2>0, <2>3, Parameters DEF ExchangeInv, ReadInv, DataInv
    <2>6. Range(fills[o]) \subseteq Nat /\ Head(fills[o]) \in Range(fills[o])
      BY <2>3, <2>5, EndsAreElements
    <2>7. run.seen[o] = Range(fills[o]) /\ run.seen[o] # {}
      <3>1. \A f \in Range(fills[o]) : f \in run.seen[o] \/ run.now <= f
        BY <1>1, <2>0, <2>3 DEF Unfailing, ReadInv
      <3>2. \A f \in Range(fills[o]) : ~(run.now <= f)
        BY <2>4, <2>5, <2>6
      <3> QED
        BY <2>5, <2>6, <3>1, <3>2
    <2>8. o \in Candidates
      <3>1. Min(run.seen[o]) \in Range(fills[o])
        BY <2>0, <2>3, <2>7, LastSeen
      <3>2. Head(fills[o]) <= Min(run.seen[o])
        BY <2>3, <2>5, <3>1 DEF InOrderOfTime
      <3>3. Min(run.seen[o]) > Cutover
        BY <2>3, <2>6, <3>1, <3>2, Parameters
      <3> QED
        BY <1>1, <2>3, <2>7, <3>3 DEF Candidates, SeenOrders, IsAfterCutover
    <2>9. /\ t \in Resolved
          /\ LegsStated(run.contexts[t]) => run.contexts[t].legs \subseteq Resolved
      BY <2>0, <2>2, <2>8, CandidateResolved
    <2>10. /\ run.contexts[t] = Context(t, {})
           /\ ContestDate(t, run.contexts) = ContestDate(t, Ideal)
           /\ ClassifyWithLegs(t, run.contexts, run.taxonomy) = ClassifyWithLegs(t, Ideal, Full)
      BY <1>1, <2>0, <2>4, <2>9, AsInCatalogue
    <2>11. AssessFinality(o) # "pending_recent_fill"
      <3>1. Max(run.seen[o]) \in Range(fills[o])
        BY <2>0, <2>3, <2>7, LastSeen
      <3>2. run.now - Max(run.seen[o]) >= Window
        BY <2>4, <2>5, <2>6, <3>1
      <3> QED
        BY <3>2 DEF AssessFinality
    <2>12. ClassifyWithLegs(t, run.contexts, run.taxonomy).sport \notin {Nothing, "OTHER"}
      BY <2>4, <2>10, Parameters, NamesAreDistinct
    <2>13. Refusal(o) = Nothing
      BY <2>4, <2>10, <2>11, <2>12 DEF Refusal, Gates
    <2>14. Wager(o) \in run'.payload
      BY <2>2, <2>8, <2>13 DEF Passed
    <2>15. /\ Wager(o).order = w.order /\ Wager(o).sport = w.sport
           /\ Wager(o).date = w.date /\ Wager(o).filled = w.filled
      BY <2>4, <2>7, <2>10 DEF Wager
    <2> QED
      BY <2>14, <2>15
  <1>2. IInv /\ [Next]_vars =>
          (run.pc = "legs" /\ run'.pc = "done" /\ Unfailing /\ Replayed =>
             \A w \in handed : (w.clean /\ w.finality = "final_stable") =>
                \E v \in run'.payload : /\ v.order = w.order /\ v.sport = w.sport
                                        /\ v.date = w.date /\ v.filled = w.filled)
    BY <1>1
  <1> QED
    BY <1>2, Inductive, PTL DEF Spec, StableWagerNeverChanges
=============================================================================
