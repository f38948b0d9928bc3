--------------------------- MODULE MCCliDelegate ----------------------------
EXTENDS CliDelegate, TLC

MCSymmetry == Permutations(Callers) \cup Permutations(References)
=============================================================================
