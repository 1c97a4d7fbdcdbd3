--------------------------- MODULE MCRunExecution ---------------------------
EXTENDS RunExecution, TLC
RunSymmetry == Permutations(Runs)
=============================================================================
