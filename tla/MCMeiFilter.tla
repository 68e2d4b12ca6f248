---------------------------- MODULE MCMeiFilter -----------------------------
EXTENDS MeiFilter, TLC

CONSTANTS s1, s2

TwoSenders == {s1, s2}
SenderSymmetry == Permutations(TwoSenders)
=============================================================================
