------------------------------ MODULE MCOutputs ------------------------------
EXTENDS Outputs, TLC

MCCategoryOf == [A |-> "C", B |-> "D"]

\* Grounded, or not at all; B is a type that nothing was grounded to yet.
MCGroundings == {[type |-> "A", band |-> "confirm"], [type |-> NoType, band |-> "flagged"]}

\* Type A passes its gate and has a rule with a weight and one that is malformed; B
\* scores higher and fails its gate; a rule on a field that the record lacks is void.
MCContext == [exposure_level |-> [text |-> "internet-facing", num |-> Unset,
                                  truthy |-> TRUE, isBool |-> FALSE],
              criticality |-> [text |-> "5", num |-> 5, truthy |-> TRUE, isBool |-> FALSE]]
MCRules ==
    {[type |-> "A", key |-> "criticality", family |-> "tech_gate",
      value |-> [text |-> "05", num |-> 5], weight |-> Unset],
     [type |-> "A", key |-> "exposure_level", family |-> "relevance_context_value",
      value |-> Expects("internal"), weight |-> 40],
     [type |-> "A", key |-> "criticality", family |-> "relevance_flag",
      value |-> Unset, weight |-> Malformed],
     [type |-> "A", key |-> "subsystem_name", family |-> "tech_gate",
      value |-> Expects("gateway"), weight |-> Unset],
     [type |-> "B", key |-> "internet_facing", family |-> "relevance_flag",
      value |-> Unset, weight |-> Unset],
     [type |-> "B", key |-> "criticality", family |-> "tech_gate",
      value |-> Expects("high"), weight |-> Unset]}

MCCutoffs == {[threshold |-> Unset, topN |-> Unset], [threshold |-> 55, topN |-> 1]}

\* GUIDs: neither older nor newer rows come first.
MCIdBefore(s, t) == s % 2 > t % 2 \/ (s % 2 = t % 2 /\ s < t)

ASSUME IdsAreOrdered == IdsOrdered(0..30)

\* The selection loop against its reference, for every list of up to three threats.
ASSUME SelectionIsBest ==
    \A n \in 0..3, threshold \in {Unset, 55}, topN \in {Unset, 0, 1, 2} :
        \A list \in [1..n -> [type : {"A", "B", NoType}, band : Bands]] :
            Selection(list, threshold, topN) = BestOf(list, threshold, topN)
=============================================================================
