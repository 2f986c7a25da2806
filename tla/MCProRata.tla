------------------------------ MODULE MCProRata ------------------------------
(* Bounds for TLC: three months across the end of a year.                   *)
EXTENDS ProRata, TLC

TurnOfTheYear == {<<2025, 12>>, <<2026, 1>>, <<2026, 2>>}

\* A total that does not divide evenly, and one smaller than the spread.
UnevenAndSmall == {2, 5}

Symmetric == Permutations(Workers) \cup Permutations(Groups)
==============================================================================
