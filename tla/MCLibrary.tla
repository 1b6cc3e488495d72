----------------------------- MODULE MCLibrary -----------------------------
EXTENDS Library, TLC

CONSTANTS s1, s2

\* Two assets in sub-sectors of one sector.
MCSessions  == {s1, s2}
MCSectorIds == s1 :> <<"sub1", "par">> @@ s2 :> <<"sub2", "par">>

\* A proposal of an unknown category with a name, and one of a known category without.
MCProposals ==
    {[category |-> "other", type |-> "T", name |-> "N", actors |-> {}],
     [category |-> "known", type |-> "U", name |-> None, actors |-> {"A", "X"}]}
MCCategoryIdOf == [known |-> "k"]

\* One type of the known category, of the first sub-sector, with a name and an actor.
MCType  == <<TypeKeyOf("S", "k", "sub1"), 1>>
MCActor == <<ActorKeyOf("A"), 1>>
MCSeedRows ==
    {MCType, MCActor, <<NameKeyOf(MCType, "M", None), 1>>, <<LinkKeyOf(MCType, MCActor), 1>>}
=============================================================================
