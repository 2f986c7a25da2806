--------------------------- MODULE ExpenseHistory ---------------------------
(***************************************************************************)
(* GetCorrectionHistory: the walk over corrects_id from any row of a       *)
(* correction chain, back to its root and forward to its latest entry, as  *)
(* the repository does it.  All rows read are assumed to carry their       *)
(* snapshot fields (a row that does not turns the whole answer into an     *)
(* error).                                                                 *)
(***************************************************************************)
EXTENDS ExpenseLedger

\* The rows a user's query by id, or by corrects_id, can return.
Visible(u, i) == i \in DOMAIN ledger /\ ledger[i].user = u

\* Walking back: the rows visited from row i, the root last.
WalkBack(u, i) ==
  LET trail[j \in DOMAIN ledger] ==
        IF Visible(u, ledger[j].corrects)
        THEN << j >> \o trail[ledger[j].corrects]
        ELSE << j >>
  IN trail[i]

Corrections(u, i) == {j \in DOMAIN ledger : ledger[j].corrects = i /\ Visible(u, j)}

\* Mutated walk: a correction is only followed while it is still active.
CorrectionsActive(u, i) == {j \in Corrections(u, i) : ledger[j].status = "active"}

\* The rows one forward query returns.
NextQuery(u, i) == Corrections(u, i)

\* The answer for row i: from the root forward, stopping where no row
\* corrects the current one or the one found was visited before.  "visited"
\* still holds the rows of the walk back.
CorrectionHistory(u, i) ==
  LET back == WalkBack(u, i)
      chain[n \in 1..Len(ledger)] ==
        IF n = 1 THEN << back[Len(back)] >>
        ELSE LET sofar == chain[n - 1]
                 found == NextQuery(u, sofar[Len(sofar)])
                 next  == CHOOSE j \in found : TRUE
                 seen  == {back[k] : k \in DOMAIN back} \cup {sofar[k] : k \in DOMAIN sofar}
             IN IF found = {} \/ next \in seen THEN sofar ELSE Append(sofar, next)
  IN chain[Len(ledger)]

\* The reference: every row that shares a root with row i.
RootOf(u, i) == LET back == WalkBack(u, i) IN back[Len(back)]

ChainOf(u, i) == {j \in DOMAIN ledger : Visible(u, j) /\ RootOf(u, j) = RootOf(u, i)}

ListsChain(u, i) ==
  LET answer == CorrectionHistory(u, i)
  IN /\ {answer[k] : k \in DOMAIN answer} = ChainOf(u, i)
     /\ \A k \in 1..(Len(answer) - 1) : ledger[answer[k + 1]].corrects = answer[k]
-----------------------------------------------------------------------------
\* A chain has at most one active row, so an expense that was corrected any
\* number of times enters the period's totals at most once.
AtMostOneActivePerChain ==
  \A u \in Users : \A i, j \in DOMAIN ledger :
    /\ Visible(u, i) /\ ledger[i].status = "active"
    /\ Visible(u, j) /\ ledger[j].status = "active"
    /\ RootOf(u, i) = RootOf(u, j)
    => i = j

\* Asked for the first entry of a chain, GetCorrectionHistory returns the
\* whole chain, each entry after the one it corrects.
HistoryFromFirstEntry ==
  \A u \in Users : \A i \in DOMAIN ledger :
    Visible(u, i) /\ RootOf(u, i) = i => ListsChain(u, i)

\* Asked for any entry, it does: what the interface promises.
HistoryFromAnyEntry ==
  \A u \in Users : \A i \in DOMAIN ledger : Visible(u, i) => ListsChain(u, i)
=============================================================================
