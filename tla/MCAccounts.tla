---------------------------- MODULE MCAccounts ----------------------------
EXTENDS Accounts, TLC

MCTexts == {"ann", "Ann", "bob", "bills", "food", "Food", "gym"}
MCFolded == [x \in MCTexts |-> CASE x = "Ann" -> "ann" [] x = "Food" -> "food" [] OTHER -> x]
MCDefaultTags == <<"bills", "Food">>

\* Handlers are interchangeable in every definition of Accounts.
Symmetry == Permutations(Handlers)
===========================================================================
