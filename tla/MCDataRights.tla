---------------------------- MODULE MCDataRights ----------------------------
(* Users and handlers are interchangeable: no definition tells them apart.  *)
EXTENDS DataRights, TLC

Symmetric == Permutations(Users) \cup Permutations(Handlers)
=============================================================================
