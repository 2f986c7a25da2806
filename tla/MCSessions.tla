---------------------------- MODULE MCSessions ----------------------------
EXTENDS Sessions, TLC

\* Calls and tabs are interchangeable in every definition of Sessions.
Symmetry == Permutations(Calls) \cup Permutations(Tabs)
===========================================================================
