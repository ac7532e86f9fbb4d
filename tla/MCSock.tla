------------------------------- MODULE MCSock -------------------------------
EXTENDS Sock, TLC

CONSTANTS t1, t2, f1

MCThreads == {t1, t2}
MCForeign == {f1}
Symmetry == Permutations(MCThreads)
=============================================================================
