------------------------------- MODULE Scoping -------------------------------
(***************************************************************************)
(* Threat scoping (app/pipeline/scoping.py): the score, the curators'      *)
(* rules, the ranking and the selection cutoff of one supporting system's  *)
(* threats.  A list of threats is a function from ThreatIDs to records     *)
(* with a type and a grounding band.                                       *)
(*                                                                         *)
(* A context value is what the supporting system's record holds in a       *)
(* field: its text (stripped, in lower case), the number it reads as or    *)
(* Unset, whether it is truthy and whether it is a boolean.                *)
(***************************************************************************)
EXTENDS Integers, FiniteSets, FiniteSetsExt

CONSTANTS
    Rules,           \* the active rows of Config_Threat_Rule
    Context,         \* the supporting system's record: field -> context value
    IdBefore(_, _),  \* the order of ThreatIDs, which are GUIDs
    Unset,           \* None: no cutoff, expected value, number or weight
    Malformed,       \* the weight of a rule whose Metadata cannot be read
    NoType           \* a NULL ThreatTypeID: the threat is not grounded

\* A rule's weight is a number, or Metadata has none, or none that can be read.
ASSUME RulesAssumption ==
    IsFiniteSet(Rules) /\ \A rule \in Rules : rule.weight \in Int \union {Unset, Malformed}

\* Ids in a total order, as GUIDs are: what a proof about the ranking assumes of them.
IdsOrdered(Ids) == \A s, t, u \in Ids :
    /\ ~IdBefore(s, s)
    /\ IdBefore(s, t) /\ IdBefore(t, u) => IdBefore(s, u)
    /\ s = t \/ IdBefore(s, t) \/ IdBefore(t, s)

Bands == {"grounded", "confirm", "flagged"}

BaseScore         == 50
DefaultRuleWeight == 10
ConfidenceWeight  == [grounded |-> 20, confirm |-> 10, flagged |-> 0]

Expects(text) == [text |-> text, num |-> Unset]

\* _RULE_KEY_FIELDS: the field a rule key reads, and what it expects by default.
RuleKeyFields ==
    [internet_facing |-> [field |-> "exposure_level", expected |-> Expects("internet-facing")],
     exposure_level  |-> [field |-> "exposure_level", expected |-> Unset],
     criticality     |-> [field |-> "criticality",    expected |-> Unset],
     subsystem_name  |-> [field |-> "name",           expected |-> Unset]]

\* An unknown key, an absent field or an unknown family: the rule has no effect.
Applies(rule) ==
    /\ rule.key \in DOMAIN RuleKeyFields
    /\ RuleKeyFields[rule.key].field \in DOMAIN Context

Matches(value, expected) ==
    IF expected = Unset THEN value.truthy
    ELSE IF ~value.isBool /\ value.num # Unset /\ expected.num # Unset
         THEN value.num = expected.num
         ELSE value.text = expected.text

\* An empty rule value is a value; only a NULL one falls back on the key's default.
Matched(rule) ==
    LET entry == RuleKeyFields[rule.key]
    IN  Matches(Context[entry.field],
                IF rule.value # Unset THEN rule.value ELSE entry.expected)

RulesFor(threat) ==
    {rule \in Rules : threat.type # NoType /\ rule.type = threat.type /\ Applies(rule)}

PassesGates(threat) ==
    \A rule \in RulesFor(threat) : rule.family = "tech_gate" => Matched(rule)

\* Metadata without a weight gives the default one, malformed Metadata no effect.
Weight(rule) == CASE rule.weight = Unset     -> DefaultRuleWeight
                  [] rule.weight = Malformed -> 0
                  [] OTHER                   -> rule.weight

Relevant(threat) ==
    {rule \in RulesFor(threat) :
        rule.family \in {"relevance_flag", "relevance_context_value"} /\ Matched(rule)}

Score(threat) ==
    BaseScore + ConfidenceWeight[threat.band] + MapThenSumSet(Weight, Relevant(threat))

\* Score descending, ThreatID ascending.
Outranks(list, s, t) ==
    \/ Score(list[s]) > Score(list[t])
    \/ Score(list[s]) = Score(list[t]) /\ IdBefore(s, t)

Rank(list, t) == 1 + Cardinality({s \in DOMAIN list : s # t /\ Outranks(list, s, t)})

\* Past its gates and not below the score threshold.
Eligible(threat, threshold) ==
    PassesGates(threat) /\ (threshold = Unset \/ Score(threat) >= threshold)

\* The counter of score_threats, after each rank: what the top-N cutoff has seen.
Kept(list, threshold) ==
    LET at == [r \in 1..Cardinality(DOMAIN list) |->
                  CHOOSE t \in DOMAIN list : Rank(list, t) = r]
        kept[r \in 0..Cardinality(DOMAIN list)] ==
            IF r = 0 THEN 0
            ELSE kept[r - 1] + (IF Eligible(list[at[r]], threshold) THEN 1 ELSE 0)
    IN  kept

\* score_threats: the ThreatIDs it selects from a list.
Selection(list, threshold, topN) ==
    LET kept == Kept(list, threshold)
    IN  {t \in DOMAIN list :
            /\ Eligible(list[t], threshold)
            /\ topN = Unset \/ kept[Rank(list, t)] <= topN}

-----------------------------------------------------------------------------
\* What the configuration promises of the cutoffs: "Only the highest-scoring N
\* threats get written up as full scenarios; everything past the top N is skipped".
BestOf(list, threshold, topN) ==
    LET eligible == {t \in DOMAIN list : Eligible(list[t], threshold)}
        size == IF topN = Unset \/ topN > Cardinality(eligible) THEN Cardinality(eligible)
                                                                ELSE topN
    IN  CHOOSE best \in SUBSET eligible :
            /\ Cardinality(best) = size
            /\ \A s \in best, t \in eligible \ best : Outranks(list, s, t)
=============================================================================
