---------------------------- MODULE MCTsgSession ----------------------------
EXTENDS TsgSession, TLC

WorkerSymmetry == Permutations(Workers)
=============================================================================
