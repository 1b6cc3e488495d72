----------------------------- MODULE MCAdmission -----------------------------
EXTENDS Admission, TLC

\* One key for two assets, a request without a key, another entity with the same key.
MCBodies == {[entity |-> "e1", asset |-> "a1", key |-> "k1"],
             [entity |-> "e1", asset |-> "a2", key |-> "k1"],
             [entity |-> "e1", asset |-> "a1", key |-> "none"],
             [entity |-> "e2", asset |-> "a1", key |-> "k1"]}
ServerSymmetry == Permutations(Servers)
=============================================================================
