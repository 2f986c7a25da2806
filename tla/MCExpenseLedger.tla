--------------------------- MODULE MCExpenseLedger ---------------------------
(***************************************************************************)
(* Instances of the expense ledger for TLC.                                *)
(***************************************************************************)
EXTENDS ExpenseHistory, TLC

\* Workers are interchangeable: no definition tells one from another.
WorkerSymmetry == Permutations(Workers)

\* Reporting amounts: conversions that never round to zero, and those that may.
Rounded == {1}
RoundedToZero == {0, 1}
==============================================================================
