---------------------------- MODULE ExpenseLedger ----------------------------
(***************************************************************************)
(* The expense service's write path over the immudb table "expenses":      *)
(* CreateExpense with its idempotency lookup, CorrectExpense,              *)
(* DeleteExpense, the Finance-originated CreateProRataInstallment and      *)
(* AnonymizeAllUserExpenses.  A request handler is a worker: every SQL     *)
(* statement and every call of another service is a step of its own, so    *)
(* handlers interleave, fail or crash between any two statements.          *)
(*                                                                         *)
(* A row's id is its position in commit order.  The uuid of the code is    *)
(* only ever compared for equality; where the code takes Rows[0] of a      *)
(* result the choice among the matches is left open.                       *)
(***************************************************************************)
EXTENDS Naturals, Sequences

CONSTANTS Users, Keys, Workers,
          NoKey,      \* the empty idempotency key
          Deleted,    \* the user id 'DELETED' an erased row carries
          Converted,  \* the reporting amounts a conversion can yield
          MaxRows,    \* bound: rows the table may grow to
          MaxMonth    \* bound: calendar months that pass

ASSUME LedgerAssumption ==
  /\ NoKey \notin Keys
  /\ Deleted \notin Users
  /\ Converted \subseteq Nat
  /\ MaxRows \in Nat
  /\ MaxMonth \in Nat \ {0}

VARIABLES ledger,     \* the table, in commit order
          month,      \* the wall clock's year and month
          pc,         \* what each worker does next
          req         \* the locals of each worker's handler

vars == <<ledger, month, pc, req>>

Months == 1..MaxMonth
Status == {"active", "corrected", "redacted"}

Row == [user : Users \cup {Deleted}, status : Status, corrects : Nat,
        period : Months, created : Months, key : Keys \cup {NoKey}, reporting : Nat]

Request == [op : {"none", "create", "installment", "correct", "delete"},
            user : Users \cup {Deleted}, key : Keys \cup {NoKey}, target : Nat,
            period : Months, now : Months, reporting : Nat]

\* The locals of a worker that handles nothing.
NoRequest == [op |-> "none", user |-> Deleted, key |-> NoKey, target |-> 0,
              period |-> 1, now |-> 1, reporting |-> 0]

Point == {"idle", "lookup", "period", "convert", "mark", "insert", "deactivate"}

Init ==
  /\ ledger = << >>
  /\ month = 1
  /\ pc = [w \in Workers |-> "idle"]
  /\ req = [w \in Workers |-> NoRequest]
------------------------------------------------------------------------------
(* What a statement reads or writes.                                       *)

\* A row without its snapshot fields is refused by every read that maps it.
Readable(row) == row.reporting # 0

\* Mutated lookup: it only sees rows that are still active.
MatchesActiveOnly(u, k) ==
  {i \in DOMAIN ledger : /\ ledger[i].user = u /\ ledger[i].key = k
                         /\ ledger[i].status = "active"}

\* The rows the idempotency lookup finds, whatever their status.
Matches(u, k) == {i \in DOMAIN ledger : ledger[i].user = u /\ ledger[i].key = k}

\* Mutated lock: any period may be corrected.
PeriodOpenAlways(row) == TRUE

\* The period lock: only rows of the current month may change.
PeriodOpen(row) == row.period = month

\* Mutated check: the status of the row is not looked at.
ChangeableAnyStatus(u, i) ==
  ledger[i].user = u /\ Readable(ledger[i]) /\ PeriodOpen(ledger[i])

\* The row a correction or a deletion may start from, as its handler reads it.
Changeable(u, i) ==
  /\ ledger[i].user = u
  /\ Readable(ledger[i])
  /\ ledger[i].status = "active"
  /\ PeriodOpen(ledger[i])

\* Mutated row: the creation time is left out.
NewRowUnstamped(r) ==
  [user |-> r.user, status |-> "active",
   corrects |-> IF r.op = "correct" THEN r.target ELSE 0,
   period |-> r.period, created |-> 0, key |-> r.key, reporting |-> r.reporting]

\* The row the handler inserts.
NewRow(r) ==
  [user |-> r.user, status |-> "active",
   corrects |-> IF r.op = "correct" THEN r.target ELSE 0,
   period |-> r.period, created |-> r.now, key |-> r.key, reporting |-> r.reporting]

\* The redaction of one row.
Redacted(row) ==
  [row EXCEPT !.user = Deleted, !.status = "redacted", !.reporting = 0]

\* Mutated order: the correction is inserted without marking its original.
AfterConvertUnmarked(op) == "insert"

\* The statement that follows the money snapshot.
AfterConvert(op) == IF op = "correct" THEN "mark" ELSE "insert"

\* Mutated failure: a failed insert puts the original back to active.
AfterFailureRestored(w) ==
  IF pc[w] = "insert" /\ req[w].op = "correct"
  THEN [ledger EXCEPT ![req[w].target].status = "active"]
  ELSE ledger

\* What a handler that gives up leaves behind: nothing is undone.
AfterFailure(w) == ledger

------------------------------------------------------------------------------
Begin(w, point, r) ==
  /\ pc[w] = "idle"
  /\ pc' = [pc EXCEPT ![w] = point]
  /\ req' = [req EXCEPT ![w] = r]
  /\ UNCHANGED <<ledger, month>>

Return(w) ==
  /\ pc' = [pc EXCEPT ![w] = "idle"]
  /\ req' = [req EXCEPT ![w] = NoRequest]

BeginCreate(w, u, k, p) ==
  Begin(w, "lookup", [op |-> "create", user |-> u, key |-> k, target |-> 0,
                      period |-> p, now |-> month, reporting |-> 0])

BeginInstallment(w, u, p) ==
  Begin(w, "convert", [op |-> "installment", user |-> u, key |-> NoKey, target |-> 0,
                       period |-> p, now |-> month, reporting |-> 0])

\* GetExpenseByID and the checks on what it returned; the clock is read once
\* and also stamps the correction.
BeginCorrect(w, u, i) ==
  /\ Changeable(u, i)
  /\ Begin(w, "period", [op |-> "correct", user |-> u, key |-> NoKey, target |-> i,
                         period |-> ledger[i].period, now |-> month, reporting |-> 0])

BeginDelete(w, u, i) ==
  /\ Changeable(u, i)
  /\ Begin(w, "deactivate", [op |-> "delete", user |-> u, key |-> NoKey, target |-> i,
                             period |-> ledger[i].period, now |-> month, reporting |-> 0])

\* lookupIdempotentReplay found a row: it is returned (or, unreadable, an
\* error is) and nothing is written.
Replay(w) ==
  /\ pc[w] = "lookup"
  /\ Matches(req[w].user, req[w].key) # {}
  /\ Return(w)
  /\ UNCHANGED <<ledger, month>>

NoReplay(w) ==
  /\ pc[w] = "lookup"
  /\ Matches(req[w].user, req[w].key) = {}
  /\ pc' = [pc EXCEPT ![w] = "period"]
  /\ UNCHANGED <<ledger, month, req>>

\* GetPeriodContext answered; a create reads the clock after it.
LoadPeriod(w) ==
  /\ pc[w] = "period"
  /\ pc' = [pc EXCEPT ![w] = "convert"]
  /\ req' = [req EXCEPT ![w].now = IF req[w].op = "create" THEN month ELSE @]
  /\ UNCHANGED <<ledger, month>>

\* The money snapshot: the amount itself (a positive number, here 1) or what
\* the FX service made of it.
Convert(w, amount) ==
  /\ pc[w] = "convert"
  /\ pc' = [pc EXCEPT ![w] = AfterConvert(req[w].op)]
  /\ req' = [req EXCEPT ![w].reporting = amount]
  /\ UNCHANGED <<ledger, month>>

\* UPDATE expenses SET status = 'corrected' WHERE id = @id
MarkCorrected(w) ==
  /\ pc[w] = "mark"
  /\ ledger' = [ledger EXCEPT ![req[w].target].status = "corrected"]
  /\ pc' = [pc EXCEPT ![w] = "insert"]
  /\ UNCHANGED <<month, req>>

\* INSERT INTO expenses.  Whether the answer reaches the client makes no
\* difference to the service: a client that missed it sends the key again.
InsertRow(w) ==
  /\ pc[w] = "insert"
  /\ Len(ledger) < MaxRows
  /\ ledger' = Append(ledger, NewRow(req[w]))
  /\ Return(w)
  /\ UNCHANGED month

\* UPDATE expenses SET status = 'corrected' WHERE id = @id AND user_id = @user_id
Deactivate(w) ==
  /\ pc[w] = "deactivate"
  /\ ledger' = IF ledger[req[w].target].user = req[w].user
               THEN [ledger EXCEPT ![req[w].target].status = "corrected"]
               ELSE ledger
  /\ Return(w)
  /\ UNCHANGED month

\* Any error return, a cancelled request or the death of the process.
Fail(w) ==
  /\ pc[w] # "idle"
  /\ ledger' = AfterFailure(w)
  /\ Return(w)
  /\ UNCHANGED month

AnonymizeAllUserExpenses(u) ==
  /\ ledger' = [i \in DOMAIN ledger |->
                  IF ledger[i].user = u THEN Redacted(ledger[i]) ELSE ledger[i]]
  /\ UNCHANGED <<month, pc, req>>

NextMonth ==
  /\ month < MaxMonth
  /\ month' = month + 1
  /\ UNCHANGED <<ledger, pc, req>>

Step(w) ==
  \/ \E u \in Users, k \in Keys, p \in Months : BeginCreate(w, u, k, p)
  \/ \E u \in Users, p \in Months : BeginInstallment(w, u, p)
  \/ \E u \in Users, i \in DOMAIN ledger : BeginCorrect(w, u, i)
  \/ \E u \in Users, i \in DOMAIN ledger : BeginDelete(w, u, i)
  \/ Replay(w)
  \/ NoReplay(w)
  \/ LoadPeriod(w)
  \/ \E amount \in Converted \cup {1} : Convert(w, amount)
  \/ MarkCorrected(w)
  \/ InsertRow(w)
  \/ Deactivate(w)
  \/ Fail(w)

Next ==
  \/ \E w \in Workers : Step(w)
  \/ \E u \in Users : AnonymizeAllUserExpenses(u)
  \/ NextMonth

Spec == Init /\ [][Next]_vars
------------------------------------------------------------------------------
(* The premise of repository/correction.go: one user, one request at a     *)
(* time.  Failures and crashes between statements remain.                  *)

Busy(w, u) == pc[w] # "idle" /\ req[w].user = u

Serial == \A w1, w2 \in Workers : \A u \in Users :
             Busy(w1, u) /\ Busy(w2, u) => w1 = w2

SerialNext ==
  \/ \E w \in Workers : Step(w) /\ Serial'
  \/ \E u \in Users : /\ \A w \in Workers : ~Busy(w, u)
                      /\ AnonymizeAllUserExpenses(u)
  \/ NextMonth

SerialSpec == Init /\ [][SerialNext]_vars
------------------------------------------------------------------------------
(* Properties.                                                             *)

\* Every variable keeps the type its declaration names.
TypeOK ==
  /\ ledger \in Seq(Row)
  /\ month \in Months
  /\ pc \in [Workers -> Point]
  /\ req \in [Workers -> Request]

\* A row that has a correction is retired, whatever handlers overlap, fail or
\* crash: it was written earlier, in the same period, for the same user (or
\* has been erased since), and it is not active.  CorrectExpense marks before
\* it inserts, so an amount is never counted twice through one link.
SupersededIsRetired ==
  \A i \in DOMAIN ledger :
    LET j == ledger[i].corrects
    IN j # 0 => /\ j < i
                /\ ledger[j].status # "active"
                /\ ledger[j].period = ledger[i].period
                /\ ledger[j].user \in {ledger[i].user, Deleted}

\* Rows are never removed, never rewritten except by the redaction, and a row
\* that left "active" never returns to it.
RowsOnlyRetire ==
  [][/\ Len(ledger') >= Len(ledger)
     /\ \A i \in DOMAIN ledger :
          /\ ledger[i].status # "active" => ledger'[i].status # "active"
          /\ \/ [ledger'[i] EXCEPT !.status = "active"]
                = [ledger[i] EXCEPT !.status = "active"]
             \/ ledger'[i] = Redacted(ledger[i])]_vars

\* The period lock as the ledger shows it: a correction is stamped with a
\* date of the period it belongs to, even when the month turns while its
\* handler runs.
CorrectionInItsPeriod ==
  \A i \in DOMAIN ledger : ledger[i].corrects # 0 => ledger[i].created = ledger[i].period

\* Sending the same idempotency key again, after any answer or none, leaves one row.
OneRowPerKey ==
  \A i, j \in DOMAIN ledger :
    /\ ledger[i].key # NoKey /\ ledger[i].key = ledger[j].key
    /\ ledger[i].user = ledger[j].user /\ ledger[i].user # Deleted
    => i = j

\* The row of the correction in progress whose original is already marked.
HalfCorrected(i) ==
  \E w \in Workers : pc[w] = "insert" /\ req[w].op = "correct" /\ req[w].target = i

\* The ledger as its callers see it.
Entries ==
  [i \in DOMAIN ledger |->
     [user |-> ledger[i].user, corrects |-> ledger[i].corrects,
      period |-> ledger[i].period, key |-> ledger[i].key,
      status |-> IF HalfCorrected(i) THEN "active" ELSE ledger[i].status]]

Atomic == INSTANCE AtomicLedger WITH Periods <- Months, entries <- Entries

\* One request at a time, the handlers implement the atomic ledger: the
\* UPDATE of a correction only becomes visible with its INSERT, and a
\* correction that stops between the two is the deletion of its original.
ImplementsAtomicLedger == Atomic!Spec
==============================================================================
