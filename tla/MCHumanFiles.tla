---------------------------- MODULE MCHumanFiles ----------------------------
EXTENDS HumanFiles, TLC

CONSTANTS small, large

Sizes == [z \in {small, large} |-> IF z = small THEN 1 ELSE 2]
Requests == Permutations(Calls) \cup Permutations(Sessions)
=============================================================================
