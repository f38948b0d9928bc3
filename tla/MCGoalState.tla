----------------------------- MODULE MCGoalState -----------------------------
EXTENDS GoalState, TLC

MCSymmetry == Permutations(Managers) \cup Permutations(Changes)
=============================================================================
