------------------------- MODULE MCRequestReceipts -------------------------
EXTENDS RequestReceipts, TLC
MCSizes == {1, 2}
MCSymmetry == Permutations(Calls) \cup Permutations(Ids) \cup Permutations(Procs) \cup Permutations(Contents)
============================================================================
