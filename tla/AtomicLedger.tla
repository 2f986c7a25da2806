---------------------------- MODULE AtomicLedger ----------------------------
(***************************************************************************)
(* What the expense ledger promises its callers, with every operation in   *)
(* one step: an entry is created at most once per idempotency key, a       *)
(* correction supersedes an active entry and appends its replacement, a    *)
(* deletion retires an active entry, an erasure redacts everything a user  *)
(* has.  ExpenseLedger is the multi-statement program behind it.           *)
(***************************************************************************)
EXTENDS Naturals, Sequences

CONSTANTS Users, Keys, Periods,
          NoKey,      \* the key of rows that no client request created
          Deleted     \* the user id an erased row carries

VARIABLE entries      \* the rows in commit order; a row's id is its position

Entry == [user : Users \cup {Deleted}, status : {"active", "corrected", "redacted"},
          corrects : Nat, period : Periods, key : Keys \cup {NoKey}]

Init == entries = << >>

Create(u, k, p) ==
  /\ k # NoKey => \A i \in DOMAIN entries : ~(entries[i].user = u /\ entries[i].key = k)
  /\ entries' = Append(entries, [user |-> u, status |-> "active", corrects |-> 0,
                                 period |-> p, key |-> k])

Correct(i) ==
  /\ entries[i].status = "active"
  /\ entries' = Append([entries EXCEPT ![i].status = "corrected"],
                       [user |-> entries[i].user, status |-> "active", corrects |-> i,
                        period |-> entries[i].period, key |-> NoKey])

Delete(i) ==
  /\ entries[i].status = "active"
  /\ entries' = [entries EXCEPT ![i].status = "corrected"]

Erase(u) ==
  entries' = [i \in DOMAIN entries |->
                IF entries[i].user = u
                THEN [entries[i] EXCEPT !.user = Deleted, !.status = "redacted"]
                ELSE entries[i]]

Next ==
  \/ \E u \in Users, k \in Keys \cup {NoKey}, p \in Periods : Create(u, k, p)
  \/ \E i \in DOMAIN entries : Correct(i) \/ Delete(i)
  \/ \E u \in Users : Erase(u)

Spec == Init /\ [][Next]_entries
=============================================================================
