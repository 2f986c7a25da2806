------------------------------- MODULE ProRata -------------------------------
(***************************************************************************)
(* The finance service's budget periods and pro-rata schedules:            *)
(* CreateProRataExpense, which writes the first installment to the ledger  *)
(* and stores the others as pending schedules, and CreatePeriodWithProRata,*)
(* which creates the requested period and the months that were missed and  *)
(* applies the schedules of each month it creates.  A request handler is a *)
(* worker; every SQL statement and every call of the expense service is a  *)
(* step of its own.                                                        *)
(*                                                                         *)
(* All rows are keyed by the user, so one user is modelled.  The expense   *)
(* service is its effect: a row appended to the ledger, or not, and an     *)
(* answer that may be lost.                                                *)
(***************************************************************************)
EXTENDS Naturals, Sequences

CONSTANTS Workers, Currencies,
          Groups,     \* the pro-rata group ids that uuid.New can yield
          Months,     \* bound: the periods that are asked for, as <<year, month>>
          Totals,     \* bound: the total amounts that are asked for
          MaxSpread,  \* bound: the longest spread in months
          NoPeriod

\* The month after m, over the end of a year.
AdvanceMonthNoRollover(m) == <<m[1], m[2] + 1>>

AdvanceMonth(m) == IF m[2] = 12 THEN <<m[1] + 1, 1>> ELSE <<m[1], m[2] + 1>>

Before(a, b) == a[1] < b[1] \/ (a[1] = b[1] /\ a[2] < b[2])

\* The number of a month; Months is an interval of the calendar.
Number(m) == 12 * m[1] + m[2]

ASSUME ProRataAssumption ==
  /\ Months \subseteq Nat \X (1..12)
  /\ \A a, b \in Months : \A n \in Number(a)..Number(b) : \E m \in Months : Number(m) = n
  /\ Totals \subseteq Nat \ {0}
  /\ MaxSpread \in Nat
  /\ NoPeriod \notin Currencies
  /\ << >> \notin Groups

VARIABLES periods,   \* the table budget_periods: a month's reporting currency
          schedule,  \* the table pro_rata_schedules, by (pro_rata_group, installment_index)
          ledger,    \* the pro-rata rows of the expense ledger, in commit order
          plan,      \* what the request of a group asked, and how it was answered
          pc,        \* what each worker does next
          req        \* the locals of each worker's handler

vars == <<periods, schedule, ledger, plan, pc, req>>

Ids == Groups \X (2..MaxSpread)
AnyMonth == Nat \X (1..12)

Schedule == [status : {"absent", "pending", "applied", "failed"},
             target : AnyMonth, amount : Nat, covers : SUBSET Currencies]
Installment == [group : Groups, index : 1..MaxSpread, period : AnyMonth, amount : Nat]
Plan == [spread : Nat, total : Nat, outcome : {"none", "open", "created", "failed"}]
Request == [target : AnyMonth, cursor : AnyMonth, latest : AnyMonth \cup {<< >>},
            currency : Currencies \cup {NoPeriod}, auto : Currencies \cup {NoPeriod},
            queue : SUBSET Ids, item : Ids \cup {<< >>}, group : Groups \cup {<< >>},
            index : Nat, covers : SUBSET Currencies]

Point == {"idle", "latest", "create", "load", "apply", "mark",
          "capture", "first", "schedule"}

NoSchedule == [status |-> "absent", target |-> <<0, 1>>, amount |-> 0, covers |-> {}]
NoRequest == [target |-> <<0, 1>>, cursor |-> <<0, 1>>, latest |-> << >>,
              currency |-> NoPeriod, auto |-> NoPeriod, queue |-> {}, item |-> << >>,
              group |-> << >>, index |-> 0, covers |-> {}]

Init ==
  /\ periods = [m \in Months |-> NoPeriod]
  /\ schedule = [id \in Ids |-> NoSchedule]
  /\ ledger = << >>
  /\ plan = [g \in Groups |-> [spread |-> 0, total |-> 0, outcome |-> "none"]]
  /\ pc = [w \in Workers |-> "idle"]
  /\ req = [w \in Workers |-> NoRequest]
------------------------------------------------------------------------------
(* Amounts and months.                                                     *)

\* Mutated division: the remainder is dropped.
CalculateInstallmentsTruncated(total, months) == [k \in 1..months |-> total \div months]

\* The first installment absorbs the remainder of the integer division.
CalculateInstallments(total, months) ==
  LET base == total \div months
  IN [k \in 1..months |-> IF k = 1 THEN base + (total - base * months) ELSE base]

Amount(g, k) == CalculateInstallments(plan[g].total, plan[g].spread)[k]

Existing == {m \in Months : periods[m] # NoPeriod}

\* What ORDER BY year DESC, month DESC LIMIT 1 can return.
LatestPeriod == IF Existing = {} THEN {<< >>}
                ELSE {m \in Existing : \A other \in Existing : ~ Before(m, other)}

\* Mutated walk: the first missed month is jumped over.
NextMonthOvershoot(m, target) ==
  LET next == AdvanceMonth(AdvanceMonth(m))
  IN IF Before(next, target) THEN next ELSE target

\* The month created after m on the way to the target: the missed ones first.
NextMonth(m, target) ==
  IF Before(AdvanceMonth(m), target) THEN AdvanceMonth(m) ELSE target

\* Mutated constraint: the month of a period is not unique.
MonthFreeAlways(m) == TRUE

\* UNIQUE (user_id, year, month)
MonthFree(m) == periods[m] = NoPeriod

Pending(m) == {id \in Ids : schedule[id].status = "pending" /\ schedule[id].target = m}

\* Mutated classification: any error settles the schedule.
StatusAfterErrorApplied(status) == "applied"

\* What an error that is no typed failure leaves of a schedule: it stays pending.
StatusAfterError(status) == status

------------------------------------------------------------------------------
Goto(w, point) == pc' = [pc EXCEPT ![w] = point]

Return(w) ==
  /\ Goto(w, "idle")
  /\ req' = [req EXCEPT ![w] = NoRequest]

\* POST /periods, after its validation.
BeginPeriod(w, m, c) ==
  /\ pc[w] = "idle"
  /\ Goto(w, "latest")
  /\ req' = [req EXCEPT ![w] = [NoRequest EXCEPT !.target = m, !.currency = c]]
  /\ UNCHANGED <<periods, schedule, ledger, plan>>

\* GetLatestPeriod, computeMissedMonths and getPeriodCreationDefaults.
ReadLatest(w, latest, auto) ==
  /\ pc[w] = "latest"
  /\ Goto(w, "create")
  /\ req' = [req EXCEPT
       ![w].auto = auto,
       ![w].latest = latest,
       ![w].cursor = IF latest = << >> THEN req[w].target
                     ELSE NextMonth(latest, req[w].target)]
  /\ UNCHANGED <<periods, schedule, ledger, plan>>

\* INSERT INTO budget_periods: a missed month with the user's defaults, the
\* target with the request's values.  A month that exists ends the request.
CreatePeriod(w) ==
  /\ pc[w] = "create"
  /\ MonthFree(req[w].cursor)
  /\ periods' = [periods EXCEPT ![req[w].cursor] =
                   IF req[w].cursor = req[w].target THEN req[w].currency ELSE req[w].auto]
  /\ Goto(w, "load")
  /\ UNCHANGED <<schedule, ledger, plan, req>>

\* GetPendingProRata; its error is reported and skips the month's schedules.
LoadPending(w, found) ==
  /\ pc[w] = "load"
  /\ found \in {Pending(req[w].cursor), {}}
  /\ req' = [req EXCEPT ![w].queue = found]
  /\ Goto(w, "apply")
  /\ UNCHANGED <<periods, schedule, ledger, plan>>

Covered(w, id) == periods[req[w].cursor] \in schedule[id].covers

Settle(id, status) == schedule' = [schedule EXCEPT ![id].status = status]

\* markProRataFailed: the snapshot lacks the period's currency, or the expense
\* service, which looks at every currency it needs, answers FailedPrecondition.
\* "covers" holds period currencies only, so a covered schedule may fail too.
FailUncovered(w, id) ==
  /\ pc[w] = "apply"
  /\ id \in req[w].queue
  /\ Settle(id, "failed")
  /\ req' = [req EXCEPT ![w].queue = @ \ {id}]
  /\ UNCHANGED <<periods, ledger, plan, pc>>

\* The expense service's check of what it is asked to write.
ValidInstallment(amount) == amount > 0

\* CreateProRataInstallment of the expense service wrote the row.  The order
\* of one month's schedules is left open.
PostInstallment(w, id) ==
  /\ pc[w] = "apply"
  /\ id \in req[w].queue
  /\ Covered(w, id)
  /\ ValidInstallment(schedule[id].amount)
  /\ ledger' = Append(ledger, [group |-> id[1], index |-> id[2],
                               period |-> req[w].cursor, amount |-> schedule[id].amount])
  /\ \/ /\ Goto(w, "mark")
        /\ req' = [req EXCEPT ![w].queue = @ \ {id}, ![w].item = id]
        /\ UNCHANGED schedule
     \/ /\ Settle(id, StatusAfterError(schedule[id].status))  \* the answer was lost
        /\ req' = [req EXCEPT ![w].queue = @ \ {id}]
        /\ UNCHANGED pc
  /\ UNCHANGED <<periods, plan>>

MarkApplied(w) ==
  /\ pc[w] = "mark"
  /\ Settle(req[w].item, "applied")
  /\ Goto(w, "apply")
  /\ UNCHANGED <<periods, ledger, plan, req>>

\* A refused installment (its amount is not positive), an unavailable
\* service, or a status update that failed: reported, and left pending.
LeavePending(w, id) ==
  /\ pc[w] = "apply"
  /\ id \in req[w].queue
  /\ Settle(id, StatusAfterError(schedule[id].status))
  /\ req' = [req EXCEPT ![w].queue = @ \ {id}]
  /\ UNCHANGED <<periods, ledger, plan, pc>>

LeaveUnmarked(w) ==
  /\ pc[w] = "mark"
  /\ Goto(w, "apply")
  /\ UNCHANGED <<periods, schedule, ledger, plan, req>>

\* The month is done: go on to the next one, or answer.
FinishMonth(w) ==
  /\ pc[w] = "apply"
  /\ req[w].queue = {}
  /\ IF req[w].cursor = req[w].target
     THEN Return(w)
     ELSE /\ Goto(w, "create")
          /\ req' = [req EXCEPT ![w].cursor = NextMonth(@, req[w].target)]
  /\ UNCHANGED <<periods, schedule, ledger, plan>>
------------------------------------------------------------------------------
\* POST /prorata, after its validation: the creation period has to exist, and
\* the group id is new.
BeginProRata(w, g, m, total, spread) ==
  /\ pc[w] = "idle"
  /\ periods[m] # NoPeriod
  /\ plan[g].outcome = "none"
  /\ plan' = [plan EXCEPT ![g] = [spread |-> spread, total |-> total, outcome |-> "open"]]
  /\ Goto(w, "capture")
  /\ req' = [req EXCEPT ![w] = [NoRequest EXCEPT !.target = m, !.group = g,
                                                 !.currency = periods[m]]]
  /\ UNCHANGED <<periods, schedule, ledger>>

\* CaptureRateSnapshot answers with the currencies FX supports, the required
\* ones among them; the two services deploy independently.
CaptureSnapshot(w, covers) ==
  /\ pc[w] = "capture"
  /\ req[w].currency \in covers
  /\ Goto(w, "first")
  /\ req' = [req EXCEPT ![w].covers = covers]
  /\ UNCHANGED <<periods, schedule, ledger, plan>>

\* The first installment goes to the ledger; without the answer the request fails.
PostFirst(w) ==
  /\ pc[w] = "first"
  /\ ledger' = Append(ledger, [group |-> req[w].group, index |-> 1, period |-> req[w].target,
                               amount |-> Amount(req[w].group, 1)])
  /\ \/ /\ Goto(w, "schedule")
        /\ req' = [req EXCEPT ![w].index = 2, ![w].cursor = AdvanceMonth(req[w].target)]
        /\ UNCHANGED plan
     \/ /\ plan' = [plan EXCEPT ![req[w].group].outcome = "failed"]
        /\ Return(w)
  /\ UNCHANGED <<periods, schedule>>

\* INSERT INTO pro_rata_schedules, one statement per later month.
CreateSchedule(w) ==
  LET g == req[w].group
      k == req[w].index
  IN /\ pc[w] = "schedule"
     /\ schedule' = [schedule EXCEPT ![<<g, k>>] =
                       [status |-> "pending", target |-> req[w].cursor,
                        amount |-> Amount(g, k), covers |-> req[w].covers]]
     /\ IF k = plan[g].spread
        THEN /\ plan' = [plan EXCEPT ![g].outcome = "created"]
             /\ Return(w)
        ELSE /\ req' = [req EXCEPT ![w].index = k + 1, ![w].cursor = AdvanceMonth(@)]
             /\ UNCHANGED <<plan, pc>>
     /\ UNCHANGED <<periods, ledger>>

\* Any error return, a cancelled request or the death of the process.
Fail(w) ==
  /\ pc[w] # "idle"
  /\ plan' = [g \in Groups |-> IF g = req[w].group
                               THEN [plan[g] EXCEPT !.outcome = "failed"] ELSE plan[g]]
  /\ Return(w)
  /\ UNCHANGED <<periods, schedule, ledger>>

\* What a handler does while nothing dies and no request is cancelled.
Handle(w) ==
  \/ \E latest \in LatestPeriod, auto \in Currencies : ReadLatest(w, latest, auto)
  \/ CreatePeriod(w)
  \/ \E found \in SUBSET Ids : LoadPending(w, found)
  \/ \E id \in Ids : FailUncovered(w, id)
  \/ \E id \in Ids : PostInstallment(w, id)
  \/ MarkApplied(w)
  \/ \E id \in Ids : LeavePending(w, id)
  \/ LeaveUnmarked(w)
  \/ FinishMonth(w)
  \/ \E covers \in SUBSET Currencies : CaptureSnapshot(w, covers)
  \/ PostFirst(w)
  \/ CreateSchedule(w)

AskPeriod(w) == \E m \in Months, c \in Currencies : BeginPeriod(w, m, c)

AskProRata(w) ==
  \E g \in Groups, m \in Months, total \in Totals, spread \in 2..MaxSpread :
    BeginProRata(w, g, m, total, spread)

Next == \E w \in Workers : AskPeriod(w) \/ AskProRata(w) \/ Handle(w) \/ Fail(w)

Spec == Init /\ [][Next]_vars
------------------------------------------------------------------------------
(* Properties.                                                             *)

\* Every variable keeps the type its declaration names; months stay in 1..12
\* across the end of a year.
TypeOK ==
  /\ periods \in [Months -> Currencies \cup {NoPeriod}]
  /\ schedule \in [Ids -> Schedule]
  /\ ledger \in Seq(Installment)
  /\ plan \in [Groups -> Plan]
  /\ pc \in [Workers -> Point]
  /\ req \in [Workers -> Request]

\* An installment reaches the ledger at most once, whatever requests overlap,
\* fail, lose an answer or are sent again: no idempotency key protects the
\* call, only the order of insert, load and mark does.
OneExpensePerInstallment ==
  \A i, j \in DOMAIN ledger :
    ledger[i].group = ledger[j].group /\ ledger[i].index = ledger[j].index => i = j

Posted(id) == \E i \in DOMAIN ledger : ledger[i].group = id[1] /\ ledger[i].index = id[2]

\* A settled schedule tells the truth about the ledger: an applied one has
\* its row, in the month it was meant for, and a failed one has none.
SettledAgreesWithLedger ==
  \A id \in Ids :
    /\ schedule[id].status = "applied" =>
         \E i \in DOMAIN ledger : /\ ledger[i].group = id[1]
                                  /\ ledger[i].index = id[2]
                                  /\ ledger[i].period = schedule[id].target
                                  /\ ledger[i].amount = schedule[id].amount
    /\ schedule[id].status \in {"absent", "failed"} => ~ Posted(id)

\* The status updates carry no guard on the old status, yet a settled
\* schedule is never settled again.
SettledStaysSettled ==
  [][\A id \in Ids : schedule[id].status \in {"applied", "failed"} =>
                       schedule'[id].status = schedule[id].status]_vars

\* A request that was answered with success is whole: its first row is in the
\* ledger, the other installments are scheduled, and together they make up
\* the total to the last minor unit.
CreatedPlansAreWhole ==
  \A g \in Groups : plan[g].outcome = "created" =>
    \E i \in DOMAIN ledger :
      LET rest(k) == schedule[<<g, k>>].amount
          sum[k \in 1..plan[g].spread] == IF k = 1 THEN ledger[i].amount ELSE sum[k - 1] + rest(k)
      IN /\ ledger[i].group = g /\ ledger[i].index = 1
         /\ \A k \in 2..plan[g].spread : schedule[<<g, k>>].status # "absent"
         /\ sum[plan[g].spread] = plan[g].total

\* No month is missing behind a handler that creates periods, whichever other
\* handler creates some of them too.
MissedMonthsAreCreated ==
  \A w \in Workers : pc[w] \in {"create", "load", "apply", "mark"} /\ req[w].latest # << >> =>
    \A m \in Months : Before(req[w].latest, m) /\ Before(m, req[w].cursor) => m \in Existing
==============================================================================
