----------------------------- MODULE MCTurnSetup -----------------------------
EXTENDS TurnSetup, TLC

Symmetry == Permutations(Requests) \cup Permutations(Accounts)
=============================================================================
