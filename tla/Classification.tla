--------------------------- MODULE Classification ---------------------------
(***************************************************************************)
(* Which league a market belongs to.  classify.py weighs the levels of     *)
(* evidence the exchange publishes about one market, competitions.py says  *)
(* what a competition or a sport name can mean, taxonomy.py who claims a   *)
(* competition name, and a combo inherits its legs' verdict.               *)
(*                                                                         *)
(* Names are compared normalised, so a name is a string here; the tables   *)
(* of competitions.py are constants.  A text field is what _scan_text      *)
(* finds in it: the leagues it names and whether it names a rival sport,   *)
(* an ambiguous family or a category that is no sport.                     *)
(***************************************************************************)
EXTENDS Naturals, FiniteSets

CONSTANTS
    Leagues,        \* ROUTABLE_SPORTS
    Direct,         \* competition |-> league or OTHER: sport_from_competition
    FamilyMembers,  \* sport name |-> leagues it holds, {} when out of scope
    SettledBySport, \* sport name |-> league or OTHER: sport_from_taxonomy_sport
    ClosedNames     \* league |-> its only names: CLOSED_VOCABULARY_LEAGUES

Nothing == "none"        \* a level that says nothing, a reason that is not one

\* What the tables hold.  The direct table's names of a closed-vocabulary
\* league are the names that league is known by.
ASSUME TablesAgree ==
    /\ \A c \in DOMAIN Direct : Direct[c] \in Leagues \cup {"OTHER"}
    /\ \A s \in DOMAIN FamilyMembers : FamilyMembers[s] \subseteq Leagues
    /\ \A s \in DOMAIN SettledBySport : SettledBySport[s] \in Leagues \cup {"OTHER"}
    /\ DOMAIN ClosedNames \subseteq Leagues
    /\ \A c \in DOMAIN Direct : Direct[c] \in DOMAIN ClosedNames => c \in ClosedNames[Direct[c]]

\* The names that stand for no league and no competition are none.
ASSUME NamesAreDistinct ==
    /\ IsFiniteSet(Leagues)
    /\ Leagues \cap {Nothing, "OTHER", "rival", "family", "category"} = {}
    /\ DOMAIN Direct \cap {"null", "failed", "malformed"} = {}

TextMarks == Leagues \cup {"rival", "family", "category"}

\* A verdict of one level; SaysNothing is the None the level functions return.
Decides(sport) == [sport |-> sport, why |-> Nothing]
Refuses(why) == [sport |-> Nothing, why |-> why]
SaysNothing == [sport |-> Nothing, why |-> Nothing]

-----------------------------------------------------------------------------
(* The taxonomy: a set of <<sport name, competition>> claims, as published.*)

\* parse_filters_by_sport: every claimant is collected before any name is resolved.
Claimants(claims, c) == {s[1] : s \in {p \in claims : p[2] = c}}

SportFromCompetition(c) == IF c \in DOMAIN Direct THEN Direct[c] ELSE Nothing

\* A league known only by exact names cannot be what another name means.
ClosedVocabularyExcludes(league, c) ==
    league \in DOMAIN ClosedNames /\ c \notin ClosedNames[league]

\* A claimant proven to hold no league this name could mean.
ProvablyIrrelevant(s, c, direct) ==
    \/ FamilyMembers[s] = {}
    \/ /\ direct \notin FamilyMembers[s]
       /\ \A l \in FamilyMembers[s] : ClosedVocabularyExcludes(l, c)

\* The earlier rule the code describes: one claimant is in scope somewhere.
TaxonomyAffirms_SomeoneInScope(claimants, c, direct) ==
    Cardinality({s \in claimants \cap DOMAIN FamilyMembers : FamilyMembers[s] # {}}) = 1

\* _taxonomy_affirms_the_direct_answer: one claimant holds this very answer
\* and every other one is proven irrelevant; an unknown one never is.
TaxonomyAffirms(claimants, c, direct) ==
    /\ direct # Nothing
    /\ claimants \subseteq DOMAIN FamilyMembers
    /\ LET rest == {s \in claimants : ~ProvablyIrrelevant(s, c, direct)}
       IN  Cardinality(rest) = 1 /\ \A s \in rest : direct \in FamilyMembers[s]

-----------------------------------------------------------------------------
(* The verdict of each level about one market.  ctx is what the resolver   *)
(* read of it; taxonomy is [read, claims].                                 *)

\* L1/L2.  "null" is a competition the exchange leaves empty, "failed" a
\* lookup that failed: both say nothing.
MeaningOf(c, direct, claimants) ==
    LET owner == CHOOSE s \in claimants : TRUE
    IN  IF c \in {"null", "failed"} THEN SaysNothing
        ELSE IF Cardinality(claimants) > 1 /\ ~TaxonomyAffirms(claimants, c, direct)
             THEN Refuses("competition_ambiguous")
        ELSE IF direct # Nothing THEN Decides(direct)
        ELSE IF Cardinality(claimants) = 1 /\ owner \in DOMAIN SettledBySport
             THEN Decides(SettledBySport[owner])
        ELSE Refuses("competition_unknown")

CompetitionVerdict(ctx, taxonomy) ==
    MeaningOf(ctx.competition, SportFromCompetition(ctx.competition),
              IF taxonomy.read THEN Claimants(taxonomy.claims, ctx.competition) ELSE {})

\* L4.  One league decides, two refuse; a rival sport beats an ambiguous
\* family, which beats a category that is no sport.
SeriesVerdict(marks) ==
    LET named == marks \cap Leagues
    IN  IF Cardinality(named) > 1 THEN Refuses("evidence_conflict")
        ELSE IF named # {} THEN Decides(CHOOSE l \in named : TRUE)
        ELSE IF "rival" \in marks THEN Decides("OTHER")
        ELSE IF "family" \in marks THEN Refuses("ambiguous_family")
        ELSE IF "category" \in marks THEN Decides("OTHER")
        ELSE SaysNothing

\* L5: this project's own table of series tickers.
RegistryVerdict(ctx) == IF ctx.registry = Nothing THEN SaysNothing ELSE Decides(ctx.registry)

\* The first reason not to decide, when no level decides.
WhyUndecided(ctx, series) ==
    IF series.why # Nothing THEN series.why
    ELSE IF ctx.competition = "null" THEN "competition_absent" ELSE "insufficient"

\* A present but unusable competition is terminal, weaker levels never rescue
\* it; metadata against metadata is a conflict; the registry only ever yields.
Weigh(ctx, comp, series, registry) ==
    IF ~ctx.found THEN Refuses("metadata_lookup_failed")
    ELSE IF ctx.competition = "malformed" THEN Refuses("malformed_event_metadata")
    ELSE IF comp.why # Nothing THEN comp
    ELSE IF Nothing \notin {comp.sport, series.sport} /\ comp.sport # series.sport
         THEN Refuses("evidence_conflict")
    ELSE IF comp.sport # Nothing THEN comp
    ELSE IF series.sport # Nothing THEN series
    ELSE IF registry.sport # Nothing THEN registry
    ELSE Refuses(WhyUndecided(ctx, series))

ClassifyMarket(ctx, taxonomy) ==
    Weigh(ctx, CompetitionVerdict(ctx, taxonomy), SeriesVerdict(ctx.marks), RegistryVerdict(ctx))

-----------------------------------------------------------------------------
(* Combos.  A leg without a market ticker makes the legs unstated.         *)

IsCombo(ctx) == ctx.found /\ (ctx.legs # {} \/ ctx.namelessLeg \/ ctx.collection)

LegsStated(ctx) == ctx.legs # {} /\ ~ctx.namelessLeg

ComboCompletable == {"competition_absent", "insufficient"}

\* base is the combo's own verdict, sports its legs', nested whether a leg is
\* a combo itself.
JudgeCombo(ctx, base, sports, nested) ==
    IF base.sport = Nothing /\ base.why \notin ComboCompletable THEN base
    ELSE IF ~LegsStated(ctx)
         THEN IF base.sport # Nothing THEN base ELSE Refuses("combo_legs_unavailable")
    ELSE IF nested \/ ~(sports \subseteq Leagues) THEN Refuses("combo_leg_unresolved")
    ELSE IF Cardinality(sports) # 1 THEN Refuses("combo_legs_span_sports")
    ELSE IF base.sport # Nothing /\ {base.sport} # sports THEN Refuses("evidence_conflict")
    ELSE Decides(CHOOSE s \in sports : TRUE)

\* ctxs is every market context the run resolved.
ClassifyWithLegs(t, ctxs, taxonomy) ==
    IF ~IsCombo(ctxs[t]) THEN ClassifyMarket(ctxs[t], taxonomy)
    ELSE JudgeCombo(ctxs[t], ClassifyMarket(ctxs[t], taxonomy),
                    {ClassifyMarket(ctxs[l], taxonomy).sport : l \in ctxs[t].legs},
                    \E l \in ctxs[t].legs : IsCombo(ctxs[l]))

-----------------------------------------------------------------------------
(* The contest's own date: an explicit field first, then the ticker's.     *)

GameDate(ctx) == IF ctx.fieldDate # Nothing THEN ctx.fieldDate ELSE ctx.tickerDate

\* resolve_combo_game_date: every leg's date, and they are one date.
ComboGameDate(ctx, ctxs) ==
    LET dates == {GameDate(ctxs[l]) : l \in ctx.legs}
    IN  IF LegsStated(ctx) /\ Cardinality(dates) = 1
        THEN CHOOSE d \in dates : TRUE ELSE Nothing

ContestDate(t, ctxs) ==
    IF IsCombo(ctxs[t]) THEN ComboGameDate(ctxs[t], ctxs) ELSE GameDate(ctxs[t])
=============================================================================
