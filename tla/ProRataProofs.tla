---------------------------- MODULE ProRataProofs ----------------------------
(***************************************************************************)
(* For any users, groups, months, amounts and handlers: the types of       *)
(* ProRata, at most one ledger row per installment, settled schedules that *)
(* agree with the ledger and stay settled, no missing month, and plans     *)
(* that add up to their totals.                                            *)
(***************************************************************************)
EXTENDS ProRata, SequenceTheorems, FiniteSetTheorems, FiniteLemmas, TLAPS

PeriodPoint == {"latest", "create", "load", "apply", "mark"}
PlanPoint == {"capture", "first", "schedule"}

\* What the locals of a handler hold at the point it has reached.
Local(w) ==
  /\ pc[w] \in PeriodPoint => /\ req[w].target \in Months
                              /\ req[w].currency \in Currencies
                              /\ req[w].group = << >>
  /\ pc[w] \in PeriodPoint \ {"latest"} => /\ req[w].cursor \in Months
                                           /\ req[w].auto \in Currencies
  /\ pc[w] = "mark" => req[w].item \in Ids
  /\ pc[w] \notin {"apply", "mark"} => req[w].queue = {}
  /\ pc[w] \in PlanPoint => /\ req[w].target \in Months
                            /\ req[w].group \in Groups
                            /\ plan[req[w].group].outcome = "open"
  /\ pc[w] = "schedule" => req[w].index \in 2..plan[req[w].group].spread

Locals == \A w \in Workers : Local(w)

\* A plan that was begun holds what its request asked.
Plans == \A g \in Groups : plan[g].outcome # "none" =>
           plan[g].total \in Totals /\ plan[g].spread \in 2..MaxSpread

\* A group id belongs to one request.
OneRequestPerGroup ==
  \A v, w \in Workers : pc[v] \in PlanPoint /\ pc[w] \in PlanPoint
                        /\ req[v].group = req[w].group => v = w

TypeInv == TypeOK /\ Locals /\ Plans /\ OneRequestPerGroup
------------------------------------------------------------------------------
(* Months and amounts.                                                     *)

\* What the assumption says of each constant.
LEMMA Constants ==
  /\ MaxSpread \in Nat
  /\ \A total \in Totals : total \in Nat /\ total # 0
  /\ \A m \in Months : m \in AnyMonth
  /\ NoPeriod \notin Currencies
  /\ << >> \notin Groups
BY ProRataAssumption DEF AnyMonth

\* The calendar has twelve months a year, also after December.
LEMMA AdvanceMonthType ==
  ASSUME NEW m \in AnyMonth
  PROVE  AdvanceMonth(m) \in AnyMonth
BY DEF AnyMonth, AdvanceMonth

\* The walk over the missed months does not leave the calendar's interval.
LEMMA NextMonthType ==
  ASSUME NEW m \in Months, NEW target \in Months
  PROVE  NextMonth(m, target) \in Months
<1>1. CASE ~ Before(AdvanceMonth(m), target)
  BY <1>1 DEF NextMonth
<1>2. CASE Before(AdvanceMonth(m), target)
  <2>. DEFINE next == AdvanceMonth(m)
  <2>1. /\ m \in Nat \X (1..12)
        /\ target \in Nat \X (1..12)
    BY ProRataAssumption
  <2>2. next \in Nat \X (1..12) /\ Number(next) = Number(m) + 1
    BY <2>1 DEF AdvanceMonth, Number
  <2>3. Number(next) \in Number(m)..Number(target)
    BY <1>2, <2>1, <2>2 DEF Before, Number
  <2>4. PICK found \in Months : Number(found) = Number(next)
    BY <2>3, ProRataAssumption
  <2>5. found \in Nat \X (1..12)
    BY ProRataAssumption
  <2>6. found = next
    BY <2>2, <2>4, <2>5 DEF Number
  <2>. QED
    BY <1>2, <2>6 DEF NextMonth
<1>. QED
  BY <1>1, <1>2

\* CalculateInstallments: the first installment and the equal rest make up
\* the total, and none of them is negative.
THEOREM InstallmentsAddUp ==
  ASSUME NEW total \in Nat, NEW months \in Nat \ {0}
  PROVE  LET parts == CalculateInstallments(total, months)
         IN /\ parts \in [1..months -> Nat]
            /\ \A k \in 2..months : parts[k] = total \div months
            /\ parts[1] + (months - 1) * (total \div months) = total
<1>. DEFINE base == total \div months
            parts == CalculateInstallments(total, months)
<1>1. /\ base \in Nat
      /\ base * months \in Nat
      /\ base * months <= total
  OBVIOUS
<1>2. (months - 1) * base = base * months - base
  BY <1>1
<1>3. parts = [k \in 1..months |-> IF k = 1 THEN base + (total - base * months) ELSE base]
  BY DEF CalculateInstallments
<1>4. base + (total - base * months) \in Nat
  BY <1>1
<1>5. parts \in [1..months -> Nat]
  BY <1>1, <1>3, <1>4
<1>6. \A k \in 2..months : parts[k] = base
  BY <1>3
<1>7. parts[1] = base + (total - base * months)
  BY <1>3
<1>. QED
  <2>. HIDE DEF base, parts
  <2>1. parts[1] + (months - 1) * base = total
    BY <1>1, <1>2, <1>7
  <2>. QED
    BY <1>5, <1>6, <2>1 DEF base, parts

\* The amount of an installment of a begun plan.
LEMMA AmountType ==
  ASSUME Plans, NEW g \in Groups, plan[g].outcome # "none",
         NEW k \in 1..plan[g].spread
  PROVE  Amount(g, k) \in Nat
<1>1. plan[g].total \in Totals /\ plan[g].spread \in 2..MaxSpread
  BY DEF Plans
<1>2. plan[g].total \in Nat /\ plan[g].spread \in Nat \ {0}
  BY <1>1, Constants
<1>. QED
  BY <1>2, InstallmentsAddUp DEF Amount

------------------------------------------------------------------------------
(* Types.                                                                  *)

\* The empty database and idle handlers.
LEMMA TypeInvInit == Init => TypeInv
<1>. SUFFICES ASSUME Init PROVE TypeInv
  OBVIOUS
<1>1. NoSchedule \in Schedule /\ NoRequest \in Request
  BY DEF NoSchedule, NoRequest, Schedule, Request, AnyMonth
<1>2. ledger \in Seq(Installment)
  BY DEF Init
<1>3. TypeOK
  BY <1>1, <1>2 DEF Init, TypeOK, Plan, Point
<1>4. Locals /\ Plans /\ OneRequestPerGroup
  BY DEF Init, Locals, Local, Plans, OneRequestPerGroup, PeriodPoint, PlanPoint, NoRequest
<1>. QED
  BY <1>3, <1>4 DEF TypeInv

\* A request that ends leaves every handler's locals in order.
LEMMA ReturnTypes ==
  ASSUME TypeInv, NEW w \in Workers, Return(w), periods' = periods,
         schedule' \in [Ids -> Schedule], ledger' \in Seq(Installment),
         \/ plan' = plan
         \/ /\ pc[w] \in PlanPoint
            /\ \E outcome \in {"created", "failed"} :
                 plan' = [plan EXCEPT ![req[w].group].outcome = outcome]
  PROVE  TypeInv'
<1>1. NoRequest \in Request
  BY DEF NoRequest, Request, AnyMonth
<1>2. /\ pc' = [pc EXCEPT ![w] = "idle"]
      /\ req' = [req EXCEPT ![w] = NoRequest]
  BY DEF Return, Goto
<1>3. plan' \in [Groups -> Plan]
  <2>1. plan \in [Groups -> Plan]
    BY DEF TypeInv, TypeOK
  <2>2. ASSUME NEW g \in Groups, NEW outcome \in {"created", "failed"}
        PROVE  [plan[g] EXCEPT !.outcome = outcome] \in Plan
    BY <2>1 DEF Plan
  <2>. QED
    BY <2>1, <2>2
<1>31. ASSUME NEW g \in Groups
       PROVE  /\ plan'[g].total = plan[g].total
              /\ plan'[g].spread = plan[g].spread
              /\ plan[g].outcome = "none" => plan'[g].outcome = "none"
              /\ plan'[g].outcome # "none" => plan[g].outcome # "none"
              /\ plan'[g] # plan[g] => pc[w] \in PlanPoint /\ g = req[w].group
  <2>1. plan[g] \in Plan
    BY DEF TypeInv, TypeOK
  <2>2. CASE plan' = plan
    BY <2>2
  <2>3. ASSUME pc[w] \in PlanPoint, NEW outcome \in {"created", "failed"},
               plan' = [plan EXCEPT ![req[w].group].outcome = outcome]
        PROVE  <1>31!2
    <3>1. req[w].group \in Groups /\ plan[req[w].group].outcome = "open"
      BY <2>3 DEF TypeInv, Locals, Local
    <3>2. CASE g = req[w].group
      BY <2>1, <2>3, <3>1, <3>2 DEF Plan, TypeInv, TypeOK
    <3>3. CASE g # req[w].group
      BY <2>3, <3>3 DEF TypeInv, TypeOK
    <3>. QED
      BY <3>2, <3>3
  <2>. QED
    BY <2>2, <2>3
<1>4. TypeOK'
  BY <1>1, <1>2, <1>3 DEF TypeInv, TypeOK, Point
<1>5. Locals'
  <2>. SUFFICES ASSUME NEW v \in Workers PROVE Local(v)'
    BY DEF Locals
  <2>1. CASE v = w
    BY <1>2, <2>1 DEF Local, TypeInv, TypeOK, PeriodPoint, PlanPoint, NoRequest
  <2>2. CASE v # w
    <3>1. pc'[v] = pc[v] /\ req'[v] = req[v]
      BY <1>2, <2>2 DEF TypeInv, TypeOK
    <3>2. Local(v)
      BY DEF TypeInv, Locals
    <3>3. pc[v] \in PlanPoint => plan'[req[v].group] = plan[req[v].group]
      BY <1>3, <2>2, <3>2 DEF TypeInv, OneRequestPerGroup, Local
    <3>. QED
      BY <3>1, <3>2, <3>3 DEF Local, PlanPoint
  <2>. QED
    BY <2>1, <2>2
<1>6. Plans' /\ OneRequestPerGroup'
  BY <1>2, <1>31 DEF TypeInv, TypeOK, Plans, OneRequestPerGroup, PlanPoint
<1>. QED
  BY <1>4, <1>5, <1>6 DEF TypeInv
\* A handler that moves on without touching the plans.
LEMMA MoveTypes ==
  ASSUME TypeInv, NEW w \in Workers, NEW point \in Point, NEW r \in Request,
         pc' = [pc EXCEPT ![w] = point], req' = [req EXCEPT ![w] = r], plan' = plan,
         periods' \in [Months -> Currencies \cup {NoPeriod}],
         schedule' \in [Ids -> Schedule], ledger' \in Seq(Installment),
         Local(w)', point \in PlanPoint => pc[w] \in PlanPoint /\ r.group = req[w].group
  PROVE  TypeInv'
<1>1. TypeOK'
  BY DEF TypeInv, TypeOK
<1>2. Locals'
  <2>. SUFFICES ASSUME NEW v \in Workers, v # w PROVE Local(v)'
    BY DEF Locals
  <2>1. pc'[v] = pc[v] /\ req'[v] = req[v] /\ Local(v)
    BY DEF TypeInv, TypeOK, Locals
  <2>. QED
    BY <2>1 DEF Local
<1>3. Plans' /\ OneRequestPerGroup'
  BY DEF TypeInv, TypeOK, Plans, OneRequestPerGroup
<1>. QED
  BY <1>1, <1>2, <1>3 DEF TypeInv

\* The types are kept by every step of the period handler.
LEMMA PeriodStepTypes ==
  ASSUME TypeInv, NEW w \in Workers,
         \/ \E m \in Months, c \in Currencies : BeginPeriod(w, m, c)
         \/ \E latest \in LatestPeriod, auto \in Currencies : ReadLatest(w, latest, auto)
         \/ CreatePeriod(w)
         \/ \E found \in SUBSET Ids : LoadPending(w, found)
         \/ \E id \in Ids : FailUncovered(w, id)
         \/ \E id \in Ids : PostInstallment(w, id)
         \/ MarkApplied(w)
         \/ \E id \in Ids : LeavePending(w, id)
         \/ LeaveUnmarked(w)
         \/ FinishMonth(w)
  PROVE  TypeInv'
<1>. USE DEF Goto
<1>1. /\ req[w] \in Request /\ pc[w] \in Point /\ Local(w)
      /\ periods \in [Months -> Currencies \cup {NoPeriod}]
      /\ schedule \in [Ids -> Schedule]
      /\ ledger \in Seq(Installment)
      /\ pc \in [Workers -> Point]
      /\ req \in [Workers -> Request]
  BY DEF TypeInv, TypeOK, Locals
<1>2. \A m \in Months : m \in AnyMonth
  BY Constants
<1>3. ASSUME NEW m \in Months, NEW c \in Currencies, BeginPeriod(w, m, c)
      PROVE  TypeInv'
  <2>. DEFINE r == [NoRequest EXCEPT !.target = m, !.currency = c]
  <2>1. r \in Request
    <3>1. NoRequest \in Request
      BY DEF NoRequest, Request, AnyMonth
    <3>2. [NoRequest EXCEPT !.target = m] \in Request
      BY <1>2, <3>1 DEF Request
    <3>. QED
      BY <3>2 DEF Request
  <2>2. Local(w)'
    BY <1>1, <1>3 DEF BeginPeriod, Local, PeriodPoint, PlanPoint, NoRequest
  <2>. QED
    BY <1>1, <1>3, <2>1, <2>2, MoveTypes DEF BeginPeriod, Point, PlanPoint
<1>4. ASSUME NEW latest \in LatestPeriod, NEW auto \in Currencies, ReadLatest(w, latest, auto)
      PROVE  TypeInv'
  <2>. DEFINE cursor == IF latest = << >> THEN req[w].target
                        ELSE NextMonth(latest, req[w].target)
              r == [req[w] EXCEPT !.auto = auto, !.latest = latest, !.cursor = cursor]
  <2>1. latest = << >> \/ latest \in Months
    BY DEF LatestPeriod, Existing
  <2>2. req[w].target \in Months
    BY <1>1, <1>4 DEF ReadLatest, Local, PeriodPoint
  <2>3. cursor \in Months
    BY <2>1, <2>2, NextMonthType
  <2>. HIDE DEF cursor
  <2>31. latest \in AnyMonth \cup {<< >>} /\ cursor \in AnyMonth
    BY <1>2, <2>1, <2>3
  <2>4. r \in Request
    <3>1. [req[w] EXCEPT !.auto = auto] \in Request
      BY <1>1 DEF Request
    <3>2. [req[w] EXCEPT !.auto = auto, !.latest = latest] \in Request
      BY <2>31, <3>1 DEF Request
    <3>. QED
      BY <2>31, <3>2 DEF Request
  <2>5. /\ req' = [req EXCEPT ![w] = r]
        /\ pc' = [pc EXCEPT ![w] = "create"]
        /\ UNCHANGED <<periods, schedule, ledger, plan>>
    BY <1>4 DEF ReadLatest, cursor
  <2>6. Local(w)'
    <3>1. pc[w] = "latest" /\ pc'[w] = "create" /\ req'[w] = r
      BY <1>1, <1>4, <2>5 DEF ReadLatest
    <3>2. /\ r.target = req[w].target /\ r.currency = req[w].currency
          /\ r.group = req[w].group /\ r.queue = req[w].queue
          /\ r.cursor = cursor /\ r.auto = auto
      BY <1>1 DEF Request
    <3>. QED
      BY <1>1, <2>3, <3>1, <3>2 DEF Local, PeriodPoint, PlanPoint
  <2>. QED
    BY <1>1, <2>4, <2>5, <2>6, MoveTypes DEF Point, PlanPoint
<1>5. ASSUME CreatePeriod(w) PROVE TypeInv'
  <2>1. Local(w)'
    <3>1. pc[w] = "create" /\ pc'[w] = "load" /\ req'[w] = req[w]
      BY <1>1, <1>5 DEF CreatePeriod
    <3>. QED
      BY <1>1, <3>1 DEF Local, PeriodPoint, PlanPoint
  <2>2. req[w].currency \in Currencies /\ req[w].auto \in Currencies
    BY <1>1, <1>5 DEF CreatePeriod, Local, PeriodPoint
  <2>3. periods' \in [Months -> Currencies \cup {NoPeriod}]
    BY <1>1, <1>5, <2>2 DEF CreatePeriod
  <2>4. req' = [req EXCEPT ![w] = req[w]]
    BY <1>1, <1>5 DEF CreatePeriod
  <2>. QED
    BY <1>1, <1>5, <2>1, <2>3, <2>4, MoveTypes DEF CreatePeriod, Point, PlanPoint
<1>6. ASSUME NEW found \in SUBSET Ids, LoadPending(w, found) PROVE TypeInv'
  <2>. DEFINE r == [req[w] EXCEPT !.queue = found]
  <2>1. r \in Request
    BY <1>1 DEF Request
  <2>2. Local(w)'
    BY <1>1, <1>6 DEF LoadPending, Local, PeriodPoint, PlanPoint, Request
  <2>. QED
    BY <1>1, <1>6, <2>1, <2>2, MoveTypes DEF LoadPending, Point, PlanPoint
<1>7. ASSUME NEW id \in Ids, NEW status \in {"pending", "applied", "failed"}
      PROVE  [schedule EXCEPT ![id].status = status] \in [Ids -> Schedule]
  <2>1. [schedule[id] EXCEPT !.status = status] \in Schedule
    BY <1>1 DEF Schedule
  <2>. QED
    BY <1>1, <2>1
<1>8. ASSUME NEW id \in Ids, NEW status \in {"pending", "applied", "failed"},
             schedule' = schedule \/ Settle(id, status),
             ledger' \in Seq(Installment), periods' = periods, plan' = plan,
             pc[w] \in {"apply", "mark"},
             \/ /\ pc' = [pc EXCEPT ![w] = "mark"]
                /\ req' = [req EXCEPT ![w].queue = @ \ {id}, ![w].item = id]
             \/ /\ pc' = [pc EXCEPT ![w] = "apply"]
                /\ req' = [req EXCEPT ![w].queue = @ \ {id}]
             \/ /\ pc' = [pc EXCEPT ![w] = "apply"]
                /\ req' = req
      PROVE  TypeInv'
  <2>1. schedule' \in [Ids -> Schedule]
    <3>1. CASE schedule' = schedule
      BY <1>1, <3>1
    <3>2. CASE Settle(id, status)
      <4>1. schedule' = [schedule EXCEPT ![id].status = status]
        BY <3>2 DEF Settle
      <4>2. [schedule EXCEPT ![id].status = status] \in [Ids -> Schedule]
        BY <1>7
      <4>. QED
        BY <4>1, <4>2
    <3>. QED
      BY <1>8, <3>1, <3>2
  <2>2. req[w].queue \ {id} \in SUBSET Ids
    BY <1>1 DEF Request
  <2>3. PICK point \in {"apply", "mark"}, r \in Request :
          /\ pc' = [pc EXCEPT ![w] = point]
          /\ req' = [req EXCEPT ![w] = r]
          /\ point = "mark" => r.item = id
          /\ r.target = req[w].target /\ r.cursor = req[w].cursor
          /\ r.currency = req[w].currency /\ r.auto = req[w].auto /\ r.group = req[w].group
    <3>1. CASE /\ pc' = [pc EXCEPT ![w] = "mark"]
               /\ req' = [req EXCEPT ![w].queue = @ \ {id}, ![w].item = id]
      <4>. DEFINE r == [req[w] EXCEPT !.queue = req[w].queue \ {id}, !.item = id]
      <4>1. r \in Request
        BY <1>1, <2>2 DEF Request
      <4>. QED
        BY <1>1, <3>1, <4>1 DEF Request
    <3>2. CASE /\ pc' = [pc EXCEPT ![w] = "apply"]
               /\ req' = [req EXCEPT ![w].queue = @ \ {id}]
      <4>. DEFINE r == [req[w] EXCEPT !.queue = req[w].queue \ {id}]
      <4>1. r \in Request
        BY <1>1, <2>2 DEF Request
      <4>. QED
        BY <1>1, <3>2, <4>1 DEF Request
    <3>3. CASE pc' = [pc EXCEPT ![w] = "apply"] /\ req' = req
      BY <1>1, <3>3
    <3>. QED
      BY <1>8, <3>1, <3>2, <3>3
  <2>4. Local(w)'
    BY <1>1, <1>8, <2>3 DEF Local, PeriodPoint, PlanPoint
  <2>. QED
    BY <1>1, <1>8, <2>1, <2>3, <2>4, MoveTypes DEF Point, PlanPoint
<1>9. ASSUME NEW id \in Ids, FailUncovered(w, id) PROVE TypeInv'
  BY <1>1, <1>8, <1>9 DEF FailUncovered
<1>10. ASSUME NEW id \in Ids, PostInstallment(w, id) PROVE TypeInv'
  <2>. DEFINE row == [group |-> id[1], index |-> id[2],
                      period |-> req[w].cursor, amount |-> schedule[id].amount]
  <2>1. req[w].cursor \in AnyMonth /\ schedule[id].amount \in Nat
    BY <1>1 DEF Request, Schedule
  <2>2. id[1] \in Groups /\ id[2] \in 1..MaxSpread
    BY Constants DEF Ids
  <2>3. row \in Installment
    BY <2>1, <2>2 DEF Installment
  <2>4. ledger' \in Seq(Installment)
    BY <1>1, <1>10, <2>3, AppendProperties DEF PostInstallment
  <2>5. id \in req[w].queue /\ pc[w] = "apply" /\ periods' = periods /\ plan' = plan
    BY <1>10 DEF PostInstallment
  <2>6. CASE /\ pc' = [pc EXCEPT ![w] = "mark"]
             /\ req' = [req EXCEPT ![w].queue = @ \ {id}, ![w].item = id]
             /\ schedule' = schedule
    BY <1>8, <2>4, <2>5, <2>6
  <2>7. CASE /\ Settle(id, schedule[id].status)
             /\ req' = [req EXCEPT ![w].queue = @ \ {id}]
             /\ pc' = pc
    <3>1. schedule' = schedule /\ pc' = [pc EXCEPT ![w] = "apply"]
      BY <1>1, <2>5, <2>7 DEF Settle, Schedule
    <3>. QED
      BY <1>8, <2>4, <2>5, <2>7, <3>1
  <2>. QED
    BY <1>10, <2>6, <2>7 DEF PostInstallment, StatusAfterError
<1>11. ASSUME MarkApplied(w) PROVE TypeInv'
  <2>1. req[w].item \in Ids
    BY <1>1, <1>11 DEF MarkApplied, Local
  <2>. QED
    BY <1>1, <1>8, <1>11, <2>1 DEF MarkApplied
<1>12. ASSUME NEW id \in Ids, LeavePending(w, id) PROVE TypeInv'
  <2>1. schedule' = schedule /\ pc' = [pc EXCEPT ![w] = "apply"]
    BY <1>1, <1>12 DEF LeavePending, StatusAfterError, Settle, Schedule
  <2>. QED
    BY <1>1, <1>8, <1>12, <2>1 DEF LeavePending
<1>13. ASSUME LeaveUnmarked(w) PROVE TypeInv'
  <2>1. req[w].item \in Ids
    BY <1>1, <1>13 DEF LeaveUnmarked, Local
  <2>. QED
    BY <1>1, <1>8, <1>13, <2>1 DEF LeaveUnmarked
<1>14. ASSUME FinishMonth(w) PROVE TypeInv'
  <2>1. CASE Return(w)
    BY <1>1, <1>14, <2>1, ReturnTypes DEF FinishMonth
  <2>2. CASE ~ Return(w)
    <3>. DEFINE r == [req[w] EXCEPT !.cursor = NextMonth(req[w].cursor, req[w].target)]
    <3>1. req[w].cursor \in Months /\ req[w].target \in Months
      BY <1>1, <1>14 DEF FinishMonth, Local, PeriodPoint
    <3>2. r.cursor \in Months /\ r \in Request
      BY <1>1, <1>2, <3>1, NextMonthType DEF Request
    <3>3. /\ pc' = [pc EXCEPT ![w] = "create"]
          /\ req' = [req EXCEPT ![w] = r]
          /\ UNCHANGED <<periods, schedule, ledger, plan>>
      BY <1>14, <2>2 DEF FinishMonth
    <3>4. Local(w)'
      BY <1>1, <1>14, <3>2, <3>3 DEF FinishMonth, Local, PeriodPoint, PlanPoint, Request
    <3>. QED
      BY <1>1, <3>2, <3>3, <3>4, MoveTypes DEF Point, PlanPoint
  <2>. QED
    BY <2>1, <2>2
<1>. QED
  BY <1>3, <1>4, <1>5, <1>6, <1>9, <1>10, <1>11, <1>12, <1>13, <1>14

\* The types are kept by every step of the plan handler and by a failure.
LEMMA PlanStepTypes ==
  ASSUME TypeInv, NEW w \in Workers,
         AskProRata(w) \/ (\E covers \in SUBSET Currencies : CaptureSnapshot(w, covers))
         \/ PostFirst(w) \/ CreateSchedule(w) \/ Fail(w)
  PROVE  TypeInv'
<1>. USE DEF Goto
<1>1. /\ req[w] \in Request /\ pc[w] \in Point /\ Local(w)
      /\ periods \in [Months -> Currencies \cup {NoPeriod}]
      /\ schedule \in [Ids -> Schedule]
      /\ ledger \in Seq(Installment)
      /\ plan \in [Groups -> Plan]
      /\ pc \in [Workers -> Point]
      /\ req \in [Workers -> Request]
      /\ Plans
  BY DEF TypeInv, TypeOK, Locals
<1>2. MaxSpread \in Nat /\ (\A m \in Months : m \in AnyMonth)
  BY Constants
<1>3. ASSUME NEW g \in Groups, NEW m \in Months, NEW total \in Totals,
             NEW spread \in 2..MaxSpread, BeginProRata(w, g, m, total, spread)
      PROVE  TypeInv'
  <2>. DEFINE asked == [spread |-> spread, total |-> total, outcome |-> "open"]
              r == [NoRequest EXCEPT !.target = m, !.group = g, !.currency = periods[m]]
  <2>1. asked \in Plan
    BY <1>2, Constants DEF Plan
  <2>2. r \in Request
    <3>1. NoRequest \in Request
      BY DEF NoRequest, Request, AnyMonth
    <3>2. [NoRequest EXCEPT !.target = m] \in Request
      BY <1>2, <3>1 DEF Request
    <3>3. [NoRequest EXCEPT !.target = m, !.group = g] \in Request
      BY <3>2 DEF Request
    <3>4. periods[m] \in Currencies \cup {NoPeriod}
      BY <1>1
    <3>. QED
      BY <3>3, <3>4 DEF Request
  <2>3. /\ pc[w] = "idle" /\ plan[g].outcome = "none"
        /\ plan' = [plan EXCEPT ![g] = asked]
        /\ pc' = [pc EXCEPT ![w] = "capture"]
        /\ req' = [req EXCEPT ![w] = r]
        /\ UNCHANGED <<periods, schedule, ledger>>
    BY <1>3 DEF BeginProRata
  <2>4. r.target = m /\ r.group = g /\ r.queue = {}
    BY DEF NoRequest
  <2>. HIDE DEF asked, r
  <2>5. TypeOK'
    BY <1>1, <2>1, <2>2, <2>3 DEF TypeOK, Point
  <2>6. asked.total \in Totals /\ asked.spread \in 2..MaxSpread /\ asked.outcome = "open"
    BY DEF asked
  <2>7. \A v \in Workers : v # w /\ pc[v] \in PlanPoint => req[v].group # g
    BY <2>3 DEF TypeInv, Locals, Local
  <2>8. Locals'
    <3>. SUFFICES ASSUME NEW v \in Workers PROVE Local(v)'
      BY DEF Locals
    <3>1. CASE v = w
      BY <1>1, <2>3, <2>4, <2>6, <3>1 DEF Local, PeriodPoint, PlanPoint
    <3>2. CASE v # w
      <4>1. pc'[v] = pc[v] /\ req'[v] = req[v] /\ Local(v)
        BY <1>1, <2>3, <3>2 DEF TypeInv, Locals
      <4>2. pc[v] \in PlanPoint => plan'[req[v].group] = plan[req[v].group]
        BY <1>1, <2>3, <2>7, <3>2
      <4>. QED
        BY <4>1, <4>2 DEF Local, PlanPoint
    <3>. QED
      BY <3>1, <3>2
  <2>9. Plans'
    BY <1>1, <2>3, <2>6 DEF Plans
  <2>10. OneRequestPerGroup'
    BY <1>1, <2>3, <2>4, <2>7 DEF TypeInv, OneRequestPerGroup
  <2>. QED
    BY <2>5, <2>8, <2>9, <2>10 DEF TypeInv
<1>4. ASSUME NEW covers \in SUBSET Currencies, CaptureSnapshot(w, covers) PROVE TypeInv'
  <2>. DEFINE r == [req[w] EXCEPT !.covers = covers]
  <2>1. r \in Request /\ r.target = req[w].target /\ r.group = req[w].group
        /\ r.queue = req[w].queue
    BY <1>1 DEF Request
  <2>2. /\ pc[w] = "capture" /\ pc' = [pc EXCEPT ![w] = "first"]
        /\ req' = [req EXCEPT ![w] = r]
        /\ UNCHANGED <<periods, schedule, ledger, plan>>
    BY <1>4 DEF CaptureSnapshot
  <2>. HIDE DEF r
  <2>3. Local(w)'
    BY <1>1, <2>1, <2>2 DEF Local, PeriodPoint, PlanPoint
  <2>. QED
    BY <1>1, <2>1, <2>2, <2>3, MoveTypes DEF Point, PlanPoint
<1>5. ASSUME PostFirst(w) PROVE TypeInv'
  <2>. DEFINE g == req[w].group
              row == [group |-> g, index |-> 1, period |-> req[w].target,
                      amount |-> Amount(g, 1)]
  <2>1. pc[w] = "first" /\ g \in Groups /\ plan[g].outcome = "open"
        /\ req[w].target \in Months
    BY <1>1, <1>5 DEF PostFirst, Local, PlanPoint
  <2>2. plan[g].spread \in 2..MaxSpread
    BY <1>1, <2>1 DEF Plans
  <2>3. 1 \in 1..plan[g].spread /\ 1 \in 1..MaxSpread /\ 2 \in 2..plan[g].spread
    BY <1>2, <2>2
  <2>4. Amount(g, 1) \in Nat
    BY <1>1, <2>1, <2>3, AmountType
  <2>5. row \in Installment
    BY <1>2, <2>1, <2>3, <2>4 DEF Installment
  <2>6. ledger' = Append(ledger, row) /\ UNCHANGED <<periods, schedule>>
    BY <1>5 DEF PostFirst
  <2>. HIDE DEF row
  <2>7. ledger' \in Seq(Installment)
    BY <1>1, <2>5, <2>6, AppendProperties
  <2>8. CASE /\ plan' = [plan EXCEPT ![g].outcome = "failed"]
             /\ Return(w)
    BY <1>1, <2>1, <2>6, <2>7, <2>8, ReturnTypes DEF PlanPoint
  <2>9. CASE /\ pc' = [pc EXCEPT ![w] = "schedule"]
             /\ req' = [req EXCEPT ![w].index = 2, ![w].cursor = AdvanceMonth(req[w].target)]
             /\ plan' = plan
    <3>. DEFINE r == [req[w] EXCEPT !.index = 2, !.cursor = AdvanceMonth(req[w].target)]
    <3>1. AdvanceMonth(req[w].target) \in AnyMonth
      BY <1>2, <2>1, AdvanceMonthType
    <3>2. [req[w] EXCEPT !.index = 2] \in Request
      BY <1>1 DEF Request
    <3>3. r \in Request
      BY <3>1, <3>2 DEF Request
    <3>4. r.target = req[w].target /\ r.group = g /\ r.queue = req[w].queue /\ r.index = 2
      BY <1>1 DEF Request
    <3>5. req' = [req EXCEPT ![w] = r]
      BY <2>9
    <3>. HIDE DEF r
    <3>6. Local(w)'
      BY <1>1, <2>1, <2>3, <2>9, <3>4, <3>5 DEF Local, PeriodPoint, PlanPoint
    <3>. QED
      BY <1>1, <2>1, <2>6, <2>7, <2>9, <3>3, <3>4, <3>5, <3>6, MoveTypes DEF Point, PlanPoint
  <2>10. \/ /\ plan' = [plan EXCEPT ![g].outcome = "failed"]
            /\ Return(w)
         \/ /\ pc' = [pc EXCEPT ![w] = "schedule"]
            /\ req' = [req EXCEPT ![w].index = 2, ![w].cursor = AdvanceMonth(req[w].target)]
            /\ plan' = plan
    BY <1>5 DEF PostFirst
  <2>. QED
    BY <2>8, <2>9, <2>10
<1>6. ASSUME CreateSchedule(w) PROVE TypeInv'
  <2>. DEFINE g == req[w].group
              k == req[w].index
              row == [status |-> "pending", target |-> req[w].cursor,
                      amount |-> Amount(g, k), covers |-> req[w].covers]
  <2>1. pc[w] = "schedule" /\ g \in Groups /\ plan[g].outcome = "open"
        /\ req[w].target \in Months /\ k \in 2..plan[g].spread
    BY <1>1, <1>6 DEF CreateSchedule, Local, PlanPoint
  <2>2. plan[g].spread \in 2..MaxSpread
    BY <1>1, <2>1 DEF Plans
  <2>3. k \in 1..plan[g].spread /\ k \in Nat /\ <<g, k>> \in Ids
    BY <1>2, <2>1, <2>2 DEF Ids
  <2>4. Amount(g, k) \in Nat
    BY <1>1, <2>1, <2>3, AmountType
  <2>5. row \in Schedule
    BY <1>1, <2>4 DEF Schedule, Request
  <2>6. schedule' = [schedule EXCEPT ![<<g, k>>] = row] /\ UNCHANGED <<periods, ledger>>
    BY <1>6 DEF CreateSchedule
  <2>. HIDE DEF row
  <2>7. schedule' \in [Ids -> Schedule]
    BY <1>1, <2>5, <2>6
  <2>8. CASE k = plan[g].spread
    <3>1. plan' = [plan EXCEPT ![g].outcome = "created"] /\ Return(w)
      BY <1>6, <2>8 DEF CreateSchedule
    <3>. QED
      BY <1>1, <2>1, <2>6, <2>7, <3>1, ReturnTypes DEF PlanPoint
  <2>9. CASE k # plan[g].spread
    <3>. DEFINE r == [req[w] EXCEPT !.index = k + 1, !.cursor = AdvanceMonth(req[w].cursor)]
    <3>1. AdvanceMonth(req[w].cursor) \in AnyMonth
      BY <1>1, AdvanceMonthType DEF Request
    <3>11. k + 1 \in Nat
      BY <2>3
    <3>12. \A n \in Nat : [req[w] EXCEPT !.index = n] \in Request
      BY <1>1 DEF Request
    <3>2. [req[w] EXCEPT !.index = k + 1] \in Request
      BY <3>11, <3>12
    <3>3. r \in Request
      BY <3>1, <3>2 DEF Request
    <3>4. r.target = req[w].target /\ r.group = g /\ r.queue = req[w].queue /\ r.index = k + 1
      BY <1>1 DEF Request
    <3>5. /\ req' = [req EXCEPT ![w] = r]
          /\ pc' = [pc EXCEPT ![w] = "schedule"] /\ plan' = plan
      BY <1>1, <1>6, <2>1, <2>9 DEF CreateSchedule
    <3>. HIDE DEF r
    <3>6. k + 1 \in 2..plan[g].spread
      BY <1>2, <2>1, <2>2, <2>9
    <3>7. Local(w)'
      BY <1>1, <2>1, <3>4, <3>5, <3>6 DEF Local, PeriodPoint, PlanPoint
    <3>. QED
      BY <1>1, <2>1, <2>6, <2>7, <3>3, <3>4, <3>5, <3>7, MoveTypes DEF Point, PlanPoint
  <2>. QED
    BY <2>8, <2>9
<1>7. ASSUME Fail(w) PROVE TypeInv'
  <2>1. /\ pc[w] # "idle" /\ Return(w) /\ UNCHANGED <<periods, schedule, ledger>>
        /\ plan' = [g \in Groups |-> IF g = req[w].group
                                     THEN [plan[g] EXCEPT !.outcome = "failed"] ELSE plan[g]]
    BY <1>7 DEF Fail
  <2>2. CASE pc[w] \in PlanPoint
    <3>1. plan' = [plan EXCEPT ![req[w].group].outcome = "failed"]
      BY <1>1, <2>1
    <3>. QED
      BY <1>1, <2>1, <2>2, <3>1, ReturnTypes
  <2>3. CASE pc[w] \in PeriodPoint
    <3>1. req[w].group = << >>
      BY <1>1, <2>3 DEF Local
    <3>2. plan' = plan
      BY <1>1, <2>1, <3>1, Constants
    <3>. QED
      BY <1>1, <2>1, <3>2, ReturnTypes
  <2>. QED
    BY <1>1, <2>1, <2>2, <2>3 DEF Point, PeriodPoint, PlanPoint
<1>. QED
  BY <1>3, <1>4, <1>5, <1>6, <1>7 DEF AskProRata

\* TypeInv is inductive.
LEMMA TypeInvNext == TypeInv /\ [Next]_vars => TypeInv'
<1>. SUFFICES ASSUME TypeInv, [Next]_vars PROVE TypeInv'
  OBVIOUS
<1>1. ASSUME NEW w \in Workers, AskPeriod(w) \/ AskProRata(w) \/ Handle(w) \/ Fail(w)
      PROVE  TypeInv'
  BY <1>1, PeriodStepTypes, PlanStepTypes DEF AskPeriod, Handle
<1>2. CASE UNCHANGED vars
  BY <1>2 DEF vars, TypeInv, TypeOK, Locals, Local, Plans, OneRequestPerGroup
<1>. QED
  BY <1>1, <1>2 DEF Next

\* Every variable of the periods and schedules keeps its type, and months stay
\* in 1..12, in every interleaving of requests with failures and crashes.
THEOREM ProRataTypes == Spec => []TypeOK
<1>1. TypeInv => TypeOK
  BY DEF TypeInv
<1>. QED
  BY <1>1, TypeInvInit, TypeInvNext, PTL DEF Spec
------------------------------------------------------------------------------
(* One row per installment.  A schedule can be posted only while it is in   *)
(* a queue; it gets into a queue only when the handler that created its     *)
(* month loads it; and a month is created once.                             *)

OwnsMonth(w) == pc[w] \in {"load", "apply", "mark"}

Owners == \A w \in Workers : OwnsMonth(w) => req[w].cursor \in Existing

OneOwner == \A v, w \in Workers :
  OwnsMonth(v) /\ OwnsMonth(w) /\ req[v].cursor = req[w].cursor => v = w

\* A queued schedule is untouched: pending, not in the ledger.
Queues == \A w \in Workers : \A id \in req[w].queue :
  schedule[id].status = "pending" /\ schedule[id].target = req[w].cursor /\ ~ Posted(id)

\* The ledger holds the row a schedule asks for.
HasRow(id) ==
  \E i \in DOMAIN ledger : /\ ledger[i].group = id[1]
                           /\ ledger[i].index = id[2]
                           /\ ledger[i].period = schedule[id].target
                           /\ ledger[i].amount = schedule[id].amount

\* The schedule about to be marked is pending, and its row is written.
Marks == \A w \in Workers : pc[w] = "mark" =>
  /\ schedule[req[w].item].status = "pending"
  /\ schedule[req[w].item].target = req[w].cursor
  /\ req[w].item \notin req[w].queue
  /\ HasRow(req[w].item)

\* A posted schedule that is still pending is never loaded again: its month
\* exists, and the handler that created it is past loading.
Rows == \A id \in Ids : Posted(id) =>
  /\ schedule[id].status \in {"pending", "applied"}
  /\ schedule[id].target \in Existing
  /\ \A w \in Workers : pc[w] = "load" => req[w].cursor # schedule[id].target

\* No group has a row or a schedule before its request writes it.
Unwritten(g) == \A i \in DOMAIN ledger : ledger[i].group # g

Fresh ==
  /\ \A g \in Groups : plan[g].outcome = "none" =>
       Unwritten(g) /\ \A id \in Ids : id[1] = g => schedule[id].status = "absent"
  /\ \A w \in Workers : pc[w] \in {"capture", "first"} =>
       /\ Unwritten(req[w].group)
       /\ \A id \in Ids : id[1] = req[w].group => schedule[id].status = "absent"
  /\ \A w \in Workers : pc[w] = "schedule" =>
       \A id \in Ids : id[1] = req[w].group /\ id[2] >= req[w].index
                         => schedule[id].status = "absent"

Applied == \A id \in Ids : schedule[id].status = "applied" => HasRow(id)

\* The inductive invariant.
ProRataInv == /\ TypeInv /\ Owners /\ OneOwner /\ Queues /\ Marks
              /\ Rows /\ Fresh /\ Applied /\ OneExpensePerInstallment

\* What an INSERT into the ledger leaves of the rows before it.
LEMMA AppendRows ==
  ASSUME ledger \in Seq(Installment), NEW row \in Installment, ledger' = Append(ledger, row)
  PROVE  /\ DOMAIN ledger' = DOMAIN ledger \cup {Len(ledger) + 1}
         /\ Len(ledger) + 1 \notin DOMAIN ledger
         /\ ledger'[Len(ledger) + 1] = row
         /\ \A i \in DOMAIN ledger : ledger'[i] = ledger[i]
<1>1. DOMAIN ledger = 1..Len(ledger) /\ Len(ledger) \in Nat
  BY LenProperties
<1>2. /\ ledger' \in Seq(Installment)
      /\ Len(ledger') = Len(ledger) + 1
      /\ \A i \in 1..Len(ledger) : ledger'[i] = ledger[i]
      /\ ledger'[Len(ledger) + 1] = row
  BY AppendProperties
<1>3. DOMAIN ledger' = 1..(Len(ledger) + 1)
  BY <1>2, LenProperties
<1>. QED
  BY <1>1, <1>2, <1>3

\* The invariant of the empty database.
LEMMA ProRataInvInit == Init => ProRataInv
<1>. SUFFICES ASSUME Init PROVE ProRataInv
  OBVIOUS
<1>1. DOMAIN ledger = {} /\ pc = [w \in Workers |-> "idle"]
      /\ \A w \in Workers : req[w].queue = {}
  BY DEF Init, NoRequest
<1>2. \A id \in Ids : schedule[id].status = "absent"
  BY DEF Init, NoSchedule
<1>. QED
  BY <1>1, <1>2, TypeInvInit DEF ProRataInv, Owners, OneOwner, OwnsMonth, Queues, Marks, Rows,
     Posted, Fresh, Unwritten, Applied, OneExpensePerInstallment

\* A step of one handler that writes no table: it gives its month up, or goes
\* on with no more in its queue than before.
LEMMA QuietStep ==
  ASSUME ProRataInv, TypeInv', NEW w \in Workers,
         UNCHANGED <<periods, schedule, ledger>>,
         \A v \in Workers \ {w} : pc'[v] = pc[v] /\ req'[v] = req[v],
         \/ ~ OwnsMonth(w)' /\ req'[w].queue = {}
         \/ /\ pc[w] \in {"apply", "mark"} /\ pc'[w] = "apply"
            /\ req'[w].cursor = req[w].cursor /\ req'[w].queue \subseteq req[w].queue,
         \A g \in Groups : plan'[g].outcome = "none" => plan[g].outcome = "none",
         pc'[w] # "schedule",
         pc'[w] \in {"capture", "first"} =>
           \/ pc[w] \in {"capture", "first"} /\ req'[w].group = req[w].group
           \/ req'[w].group \in Groups /\ plan[req'[w].group].outcome = "none"
  PROVE  ProRataInv'
<1>1. Owners'
  BY DEF ProRataInv, Owners, OwnsMonth, Existing
<1>2. OneOwner'
  BY DEF ProRataInv, OneOwner, OwnsMonth
<1>3. Queues'
  BY DEF ProRataInv, Queues, Posted, OwnsMonth
<1>4. Marks'
  BY DEF ProRataInv, Marks, HasRow, OwnsMonth
<1>5. Rows'
  BY DEF ProRataInv, Rows, Posted, OwnsMonth, Existing
<1>6. Fresh'
  BY DEF ProRataInv, Fresh, Unwritten
<1>7. Applied' /\ OneExpensePerInstallment'
  BY DEF ProRataInv, Applied, HasRow, OneExpensePerInstallment
<1>. QED
  BY <1>1, <1>2, <1>3, <1>4, <1>5, <1>6, <1>7 DEF ProRataInv

\* The steps that write no table of the service.
LEMMA QuietActions ==
  ASSUME ProRataInv, TypeInv', NEW w \in Workers,
         AskPeriod(w) \/ AskProRata(w) \/ LeaveUnmarked(w) \/ FinishMonth(w) \/ Fail(w)
         \/ (\E latest \in LatestPeriod, auto \in Currencies : ReadLatest(w, latest, auto))
         \/ (\E id \in Ids : LeavePending(w, id))
         \/ (\E covers \in SUBSET Currencies : CaptureSnapshot(w, covers))
  PROVE  ProRataInv'
<1>. USE DEF Goto
<1>1. /\ pc \in [Workers -> Point] /\ req \in [Workers -> Request] /\ Local(w)
      /\ schedule \in [Ids -> Schedule] /\ plan \in [Groups -> Plan]
      /\ req[w] \in Request
  BY DEF ProRataInv, TypeInv, TypeOK, Locals
<1>2. NoRequest.queue = {}
  BY DEF NoRequest
<1>3. CASE AskPeriod(w)
  <2>1. PICK m \in Months, c \in Currencies : BeginPeriod(w, m, c)
    BY <1>3 DEF AskPeriod
  <2>2. /\ pc'[w] = "latest" /\ req'[w].queue = {} /\ plan' = plan
        /\ \A v \in Workers \ {w} : pc'[v] = pc[v] /\ req'[v] = req[v]
        /\ UNCHANGED <<periods, schedule, ledger>>
    BY <1>1, <2>1 DEF BeginPeriod, NoRequest
  <2>. QED
    BY <2>2, QuietStep DEF OwnsMonth
<1>4. CASE AskProRata(w)
  <2>1. PICK g \in Groups, m \in Months, total \in Totals, spread \in 2..MaxSpread :
          BeginProRata(w, g, m, total, spread)
    BY <1>4 DEF AskProRata
  <2>2. /\ pc'[w] = "capture" /\ req'[w].queue = {} /\ req'[w].group = g
        /\ plan[g].outcome = "none"
        /\ \A h \in Groups : plan'[h].outcome = "none" => plan[h].outcome = "none"
        /\ \A v \in Workers \ {w} : pc'[v] = pc[v] /\ req'[v] = req[v]
        /\ UNCHANGED <<periods, schedule, ledger>>
    BY <1>1, <2>1 DEF BeginProRata, NoRequest
  <2>. QED
    BY <2>2, QuietStep DEF OwnsMonth
<1>5. CASE LeaveUnmarked(w)
  <2>1. /\ pc[w] = "mark" /\ pc'[w] = "apply" /\ req' = req /\ plan' = plan
        /\ \A v \in Workers \ {w} : pc'[v] = pc[v]
        /\ UNCHANGED <<periods, schedule, ledger>>
    BY <1>1, <1>5 DEF LeaveUnmarked
  <2>. QED
    BY <2>1, QuietStep
<1>6. ASSUME Return(w), UNCHANGED <<periods, schedule, ledger>>,
             \A g \in Groups : plan'[g].outcome = "none" => plan[g].outcome = "none"
      PROVE  ProRataInv'
  <2>1. /\ pc'[w] = "idle" /\ req'[w].queue = {}
        /\ \A v \in Workers \ {w} : pc'[v] = pc[v] /\ req'[v] = req[v]
    BY <1>1, <1>2, <1>6 DEF Return
  <2>. QED
    BY <1>6, <2>1, QuietStep DEF OwnsMonth
<1>7. CASE FinishMonth(w)
  <2>1. CASE Return(w)
    BY <1>6, <1>7, <2>1 DEF FinishMonth
  <2>2. CASE ~ Return(w)
    <3>1. /\ pc'[w] = "create" /\ req'[w].queue = req[w].queue /\ req[w].queue = {}
          /\ plan' = plan
          /\ \A v \in Workers \ {w} : pc'[v] = pc[v] /\ req'[v] = req[v]
          /\ UNCHANGED <<periods, schedule, ledger>>
      BY <1>1, <1>7, <2>2 DEF FinishMonth, Request
    <3>. QED
      BY <3>1, QuietStep DEF OwnsMonth
  <2>. QED
    BY <2>1, <2>2
<1>8. CASE Fail(w)
  <2>1. Return(w) /\ UNCHANGED <<periods, schedule, ledger>>
    BY <1>8 DEF Fail
  <2>2. ASSUME NEW g \in Groups, plan'[g].outcome = "none"
        PROVE  plan[g].outcome = "none"
    <3>1. plan[g] \in Plan
      BY <1>1
    <3>. QED
      BY <1>8, <2>2, <3>1 DEF Fail, Plan
  <2>. QED
    BY <1>6, <2>1, <2>2
<1>9. ASSUME NEW latest, NEW auto, ReadLatest(w, latest, auto) PROVE ProRataInv'
  <2>1. /\ pc[w] = "latest" /\ pc'[w] = "create" /\ req'[w].queue = req[w].queue
        /\ plan' = plan
        /\ \A v \in Workers \ {w} : pc'[v] = pc[v] /\ req'[v] = req[v]
        /\ UNCHANGED <<periods, schedule, ledger>>
    BY <1>1, <1>9 DEF ReadLatest, Request
  <2>2. req[w].queue = {}
    BY <1>1, <2>1 DEF Local
  <2>. QED
    BY <2>1, <2>2, QuietStep DEF OwnsMonth
<1>10. ASSUME NEW id \in Ids, LeavePending(w, id) PROVE ProRataInv'
  <2>1. /\ pc[w] = "apply" /\ pc' = pc /\ plan' = plan /\ schedule' = schedule
        /\ req'[w].cursor = req[w].cursor /\ req'[w].queue = req[w].queue \ {id}
        /\ \A v \in Workers \ {w} : req'[v] = req[v]
        /\ UNCHANGED <<periods, ledger>>
    BY <1>1, <1>10 DEF LeavePending, StatusAfterError, Settle, Schedule, Request
  <2>. QED
    BY <2>1, QuietStep
<1>11. ASSUME NEW covers, CaptureSnapshot(w, covers) PROVE ProRataInv'
  <2>1. /\ pc[w] = "capture" /\ pc'[w] = "first" /\ req'[w].queue = req[w].queue
        /\ req'[w].group = req[w].group /\ plan' = plan
        /\ \A v \in Workers \ {w} : pc'[v] = pc[v] /\ req'[v] = req[v]
        /\ UNCHANGED <<periods, schedule, ledger>>
    BY <1>1, <1>11 DEF CaptureSnapshot, Request
  <2>2. req[w].queue = {}
    BY <1>1, <2>1 DEF Local
  <2>. QED
    BY <2>1, <2>2, QuietStep DEF OwnsMonth
<1>. QED
  BY <1>3, <1>4, <1>5, <1>7, <1>8, <1>9, <1>10, <1>11

\* INSERT INTO budget_periods: the handler becomes the owner of a month that
\* nobody had.
LEMMA CreatePeriodStep ==
  ASSUME ProRataInv, TypeInv', NEW w \in Workers, CreatePeriod(w)
  PROVE  ProRataInv'
<1>1. /\ pc \in [Workers -> Point] /\ Local(w)
      /\ periods \in [Months -> Currencies \cup {NoPeriod}]
  BY DEF ProRataInv, TypeInv, TypeOK, Locals
<1>2. /\ pc[w] = "create" /\ pc' = [pc EXCEPT ![w] = "load"] /\ MonthFree(req[w].cursor)
      /\ UNCHANGED <<schedule, ledger, plan, req>>
  BY DEF CreatePeriod, Goto
<1>3. /\ req[w].cursor \in Months /\ req[w].queue = {}
      /\ req[w].currency \in Currencies /\ req[w].auto \in Currencies
  BY <1>1, <1>2 DEF Local, PeriodPoint
<1>4. Existing' = Existing \cup {req[w].cursor} /\ req[w].cursor \notin Existing
  BY <1>1, <1>2, <1>3, Constants DEF CreatePeriod, Existing, MonthFree
<1>5. Owners'
  BY <1>1, <1>2, <1>4 DEF ProRataInv, Owners, OwnsMonth
<1>6. OneOwner'
  BY <1>1, <1>2, <1>4 DEF ProRataInv, Owners, OneOwner, OwnsMonth
<1>7. Queues'
  BY <1>1, <1>2 DEF ProRataInv, Queues, Posted
<1>8. Marks'
  BY <1>1, <1>2 DEF ProRataInv, Marks, HasRow
<1>9. Rows'
  BY <1>1, <1>2, <1>4 DEF ProRataInv, Rows, Posted
<1>10. Fresh'
  BY <1>1, <1>2 DEF ProRataInv, Fresh, Unwritten
<1>11. Applied' /\ OneExpensePerInstallment'
  BY <1>2 DEF ProRataInv, Applied, HasRow, OneExpensePerInstallment
<1>. QED
  BY <1>5, <1>6, <1>7, <1>8, <1>9, <1>10, <1>11 DEF ProRataInv

\* GetPendingProRata: what it finds has no row yet.
LEMMA LoadPendingStep ==
  ASSUME ProRataInv, TypeInv', NEW w \in Workers, NEW found \in SUBSET Ids,
         LoadPending(w, found)
  PROVE  ProRataInv'
<1>1. /\ pc \in [Workers -> Point] /\ req \in [Workers -> Request] /\ req[w] \in Request
  BY DEF ProRataInv, TypeInv, TypeOK
<1>2. /\ pc[w] = "load" /\ pc' = [pc EXCEPT ![w] = "apply"]
      /\ found = Pending(req[w].cursor) \/ found = {}
      /\ UNCHANGED <<periods, schedule, ledger, plan>>
  BY DEF LoadPending, Goto
<1>3. /\ req'[w].queue = found /\ req'[w].cursor = req[w].cursor
      /\ \A v \in Workers \ {w} : req'[v] = req[v]
  BY <1>1 DEF LoadPending, Request
<1>4. \A id \in found : /\ schedule[id].status = "pending"
                       /\ schedule[id].target = req[w].cursor
                       /\ ~ Posted(id)
  BY <1>2 DEF Pending, ProRataInv, Rows
<1>5. Owners' /\ OneOwner'
  BY <1>1, <1>2, <1>3 DEF ProRataInv, Owners, OneOwner, OwnsMonth, Existing
<1>6. Queues'
  BY <1>2, <1>3, <1>4 DEF ProRataInv, Queues, Posted
<1>7. Marks'
  BY <1>1, <1>2, <1>3 DEF ProRataInv, Marks, HasRow
<1>8. Rows'
  BY <1>1, <1>2, <1>3 DEF ProRataInv, Rows, Posted, Existing
<1>9. Fresh'
  BY <1>1, <1>2, <1>3 DEF ProRataInv, Fresh, Unwritten
<1>10. Applied' /\ OneExpensePerInstallment'
  BY <1>2 DEF ProRataInv, Applied, HasRow, OneExpensePerInstallment
<1>. QED
  BY <1>5, <1>6, <1>7, <1>8, <1>9, <1>10 DEF ProRataInv

\* What a status update leaves of the schedules.
LEMMA SettledRow ==
  ASSUME schedule \in [Ids -> Schedule], NEW id \in Ids, NEW status, Settle(id, status)
  PROVE  /\ \A other \in Ids \ {id} : schedule'[other] = schedule[other]
         /\ schedule'[id].status = status
         /\ schedule'[id].target = schedule[id].target
         /\ schedule'[id].amount = schedule[id].amount
BY DEF Settle, Schedule

\* A queued schedule is in the queue of one handler, which owns its month; no
\* handler is about to load that month or to mark the schedule.
LEMMA QueuedOnce ==
  ASSUME ProRataInv, NEW w \in Workers, NEW id \in req[w].queue
  PROVE  /\ id \in Ids
         /\ OwnsMonth(w)
         /\ schedule[id].target = req[w].cursor /\ req[w].cursor \in Existing
         /\ schedule[id].status = "pending" /\ ~ Posted(id)
         /\ \A v \in Workers \ {w} : id \notin req[v].queue
         /\ \A v \in Workers : pc[v] = "load" => req[v].cursor # schedule[id].target
         /\ \A v \in Workers : pc[v] = "mark" => req[v].item # id
<1>1. /\ req \in [Workers -> Request] /\ \A v \in Workers : Local(v) /\ pc[v] \in Point
  BY DEF ProRataInv, TypeInv, TypeOK, Locals
<1>2. \A v \in Workers : req[v].queue # {} => pc[v] \in {"apply", "mark"}
  BY <1>1 DEF Local
<1>3. id \in Ids
  BY <1>1 DEF Request
<1>4. /\ schedule[id].status = "pending" /\ schedule[id].target = req[w].cursor
      /\ ~ Posted(id)
  BY DEF ProRataInv, Queues
<1>5. OwnsMonth(w) /\ req[w].cursor \in Existing
  BY <1>2 DEF OwnsMonth, ProRataInv, Owners
<1>6. \A v \in Workers \ {w} : id \notin req[v].queue
  BY <1>2, <1>4, <1>5 DEF OwnsMonth, ProRataInv, Queues, OneOwner
<1>7. \A v \in Workers : pc[v] = "load" => req[v].cursor # schedule[id].target
  BY <1>2, <1>4, <1>5 DEF OwnsMonth, ProRataInv, OneOwner
<1>8. \A v \in Workers : pc[v] = "mark" => req[v].item # id
  BY <1>4 DEF ProRataInv, Marks, HasRow, Posted
<1>. QED
  BY <1>3, <1>4, <1>5, <1>6, <1>7, <1>8

\* markProRataFailed: the schedule has no row and nobody else works on it.
LEMMA FailUncoveredStep ==
  ASSUME ProRataInv, TypeInv', NEW w \in Workers, NEW id \in Ids, FailUncovered(w, id)
  PROVE  ProRataInv'
<1>1. /\ pc \in [Workers -> Point] /\ req \in [Workers -> Request] /\ req[w] \in Request
      /\ schedule \in [Ids -> Schedule]
      /\ \A v \in Workers : req[v].queue \subseteq Ids
  BY DEF ProRataInv, TypeInv, TypeOK, Request
<1>2. /\ pc[w] = "apply" /\ id \in req[w].queue /\ Settle(id, "failed")
      /\ UNCHANGED <<periods, ledger, plan, pc>>
  BY DEF FailUncovered
<1>3. /\ req'[w].queue = req[w].queue \ {id} /\ req'[w].cursor = req[w].cursor
      /\ req'[w].item = req[w].item
      /\ req'[w].group = req[w].group /\ req'[w].index = req[w].index
      /\ \A v \in Workers \ {w} : req'[v] = req[v]
  BY <1>1 DEF FailUncovered, Request
<1>4. /\ \A other \in Ids \ {id} : schedule'[other] = schedule[other]
      /\ schedule'[id].status = "failed"
  BY <1>1, <1>2, SettledRow
<1>5. /\ schedule[id].status = "pending" /\ ~ Posted(id)
      /\ \A v \in Workers \ {w} : id \notin req[v].queue
      /\ \A v \in Workers : pc[v] = "mark" => req[v].item # id
  BY <1>2, QueuedOnce
<1>6. Owners' /\ OneOwner'
  BY <1>2, <1>3 DEF ProRataInv, Owners, OneOwner, OwnsMonth, Existing
<1>7. Queues'
  BY <1>1, <1>2, <1>3, <1>4, <1>5 DEF ProRataInv, Queues, Posted
<1>8. Marks'
  <2>1. \A v \in Workers : pc[v] = "mark" => req[v].item \in Ids
    BY DEF ProRataInv, TypeInv, Locals, Local
  <2>. QED
    BY <1>2, <1>3, <1>4, <1>5, <2>1 DEF ProRataInv, Marks, HasRow
<1>9. Rows'
  BY <1>2, <1>3, <1>4, <1>5 DEF ProRataInv, Rows, Posted, Existing
<1>10. Fresh'
  BY <1>2, <1>3, <1>4, <1>5 DEF ProRataInv, Fresh, Unwritten
<1>11. Applied' /\ OneExpensePerInstallment'
  BY <1>2, <1>4 DEF ProRataInv, Applied, HasRow, OneExpensePerInstallment
<1>. QED
  BY <1>6, <1>7, <1>8, <1>9, <1>10, <1>11 DEF ProRataInv

\* The applied mark follows the row it stands for.
LEMMA MarkAppliedStep ==
  ASSUME ProRataInv, TypeInv', NEW w \in Workers, MarkApplied(w)
  PROVE  ProRataInv'
<1>. DEFINE id == req[w].item
<1>1. /\ pc \in [Workers -> Point] /\ schedule \in [Ids -> Schedule]
      /\ \A v \in Workers : req[v].queue \subseteq Ids
      /\ \A v \in Workers : pc[v] = "mark" => req[v].item \in Ids
      /\ \A v \in Workers : req[v].queue # {} => pc[v] \in {"apply", "mark"}
  BY DEF ProRataInv, TypeInv, TypeOK, Request, Locals, Local
<1>2. /\ pc[w] = "mark" /\ pc' = [pc EXCEPT ![w] = "apply"] /\ Settle(id, "applied")
      /\ UNCHANGED <<periods, ledger, plan, req>>
  BY DEF MarkApplied, Goto
<1>3. id \in Ids
  BY <1>1, <1>2
<1>. HIDE DEF id
<1>4. /\ \A other \in Ids \ {id} : schedule'[other] = schedule[other]
      /\ schedule'[id].status = "applied"
      /\ schedule'[id].target = schedule[id].target
      /\ schedule'[id].amount = schedule[id].amount
  BY <1>1, <1>2, <1>3, SettledRow
<1>5. /\ schedule[id].status = "pending" /\ schedule[id].target = req[w].cursor
      /\ id \notin req[w].queue /\ HasRow(id)
  BY <1>2 DEF id, ProRataInv, Marks
<1>6. Posted(id)
  BY <1>5 DEF HasRow, Posted
<1>7. /\ \A v \in Workers : id \notin req[v].queue
      /\ \A v \in Workers \ {w} : pc[v] = "mark" => req[v].item # id
  <2>1. \A v \in Workers : id \notin req[v].queue
    BY <1>6 DEF ProRataInv, Queues
  <2>2. ASSUME NEW v \in Workers \ {w}, pc[v] = "mark" PROVE req[v].item # id
    BY <1>2, <1>5, <2>2 DEF ProRataInv, Marks, OneOwner, OwnsMonth
  <2>. QED
    BY <2>1, <2>2
<1>8. Owners' /\ OneOwner'
  BY <1>1, <1>2 DEF ProRataInv, Owners, OneOwner, OwnsMonth, Existing
<1>9. Queues'
  BY <1>1, <1>2, <1>4, <1>7 DEF ProRataInv, Queues, Posted
<1>10. Marks'
  BY <1>1, <1>2, <1>4, <1>7 DEF ProRataInv, Marks, HasRow
<1>11. Rows'
  BY <1>1, <1>2, <1>4, <1>5 DEF ProRataInv, Rows, Posted, Existing
<1>12. Fresh'
  BY <1>1, <1>2, <1>4, <1>5 DEF ProRataInv, Fresh, Unwritten
<1>13. Applied' /\ OneExpensePerInstallment'
  BY <1>2, <1>4, <1>5 DEF ProRataInv, Applied, HasRow, OneExpensePerInstallment
<1>. QED
  BY <1>8, <1>9, <1>10, <1>11, <1>12, <1>13 DEF ProRataInv

\* A row of an installment that had none.
LEMMA NewRow ==
  ASSUME ledger \in Seq(Installment), OneExpensePerInstallment,
         NEW row \in Installment, ledger' = Append(ledger, row),
         \A i \in DOMAIN ledger : ledger[i].group # row.group \/ ledger[i].index # row.index
  PROVE  /\ OneExpensePerInstallment'
         /\ \A id : Posted(id)' => Posted(id) \/ (id[1] = row.group /\ id[2] = row.index)
         /\ \A id \in Ids : HasRow(id) /\ schedule'[id].target = schedule[id].target
                              /\ schedule'[id].amount = schedule[id].amount => HasRow(id)'
         /\ \A g : Unwritten(g) /\ g # row.group => Unwritten(g)'
<1>. DEFINE last == Len(ledger) + 1
<1>1. /\ DOMAIN ledger' = DOMAIN ledger \cup {last}
      /\ last \notin DOMAIN ledger
      /\ ledger'[last] = row
      /\ \A i \in DOMAIN ledger : ledger'[i] = ledger[i]
  BY AppendRows
<1>. HIDE DEF last
<1>2. OneExpensePerInstallment'
  BY <1>1 DEF OneExpensePerInstallment
<1>3. \A id : Posted(id)' => Posted(id) \/ (id[1] = row.group /\ id[2] = row.index)
  BY <1>1 DEF Posted
<1>4. ASSUME NEW id \in Ids, HasRow(id), schedule'[id].target = schedule[id].target,
             schedule'[id].amount = schedule[id].amount
      PROVE  HasRow(id)'
  BY <1>1, <1>4 DEF HasRow
<1>5. \A g : Unwritten(g) /\ g # row.group => Unwritten(g)'
  BY <1>1 DEF Unwritten
<1>. QED
  BY <1>2, <1>3, <1>4, <1>5

\* The row of a queued schedule: its first one, written by the only handler
\* that has it, whether the answer arrives or not.
LEMMA PostInstallmentStep ==
  ASSUME ProRataInv, TypeInv', NEW w \in Workers, NEW id \in Ids, PostInstallment(w, id)
  PROVE  ProRataInv'
<1>. DEFINE row == [group |-> id[1], index |-> id[2], period |-> req[w].cursor,
                    amount |-> schedule[id].amount]
<1>1. /\ pc \in [Workers -> Point] /\ req \in [Workers -> Request] /\ req[w] \in Request
      /\ schedule \in [Ids -> Schedule] /\ ledger \in Seq(Installment)
      /\ \A v \in Workers : req[v].queue \subseteq Ids
      /\ \A v \in Workers : pc[v] = "mark" => req[v].item \in Ids
      /\ \A v \in Workers : pc[v] \in PlanPoint => plan[req[v].group].outcome = "open"
  BY DEF ProRataInv, TypeInv, TypeOK, Request, Locals, Local
<1>2. /\ pc[w] = "apply" /\ id \in req[w].queue /\ ledger' = Append(ledger, row)
      /\ UNCHANGED <<periods, plan>>
  BY DEF PostInstallment
<1>3. /\ schedule[id].status = "pending" /\ schedule[id].target = req[w].cursor
      /\ req[w].cursor \in Existing /\ ~ Posted(id)
      /\ \A v \in Workers \ {w} : id \notin req[v].queue
      /\ \A v \in Workers : pc[v] = "load" => req[v].cursor # schedule[id].target
  BY <1>2, QueuedOnce
<1>4. schedule' = schedule
  BY <1>1, <1>3 DEF PostInstallment, Settle, StatusAfterError, Schedule
<1>5. /\ pc'[w] \in {"apply", "mark"}
      /\ pc'[w] = "mark" => req'[w].item = id
      /\ req'[w].queue = req[w].queue \ {id} /\ req'[w].cursor = req[w].cursor
      /\ \A v \in Workers \ {w} : req'[v] = req[v] /\ pc'[v] = pc[v]
  BY <1>1, <1>2 DEF PostInstallment, Request, Goto
<1>6. row \in Installment
  <2>1. id[1] \in Groups /\ id[2] \in 2..MaxSpread
    BY DEF Ids
  <2>2. id[2] \in 1..MaxSpread
    BY <2>1, Constants
  <2>3. req[w].cursor \in AnyMonth /\ schedule[id].amount \in Nat
    BY <1>1 DEF Request, Schedule
  <2>. QED
    BY <2>1, <2>2, <2>3 DEF Installment
<1>7. /\ row.group = id[1] /\ row.index = id[2]
      /\ row.period = schedule[id].target /\ row.amount = schedule[id].amount
  BY <1>3
<1>. HIDE DEF row
<1>8. \A i \in DOMAIN ledger : ledger[i].group # row.group \/ ledger[i].index # row.index
  BY <1>3, <1>7 DEF Posted
<1>9. /\ OneExpensePerInstallment'
      /\ \A other : Posted(other)' => Posted(other) \/ (other[1] = id[1] /\ other[2] = id[2])
      /\ \A other \in Ids : HasRow(other) => HasRow(other)'
      /\ \A g : Unwritten(g) /\ g # id[1] => Unwritten(g)'
  <2>1. OneExpensePerInstallment
    BY DEF ProRataInv
  <2>. QED
    BY <1>1, <1>2, <1>4, <1>6, <1>7, <1>8, <2>1, NewRow
<1>10. \A other \in Ids : other[1] = id[1] /\ other[2] = id[2] => other = id
  BY DEF Ids
<1>11. HasRow(id)'
  BY <1>1, <1>2, <1>4, <1>6, <1>7, AppendRows DEF HasRow
<1>12. Owners' /\ OneOwner'
  BY <1>2, <1>5 DEF ProRataInv, Owners, OneOwner, OwnsMonth, Existing
<1>13. Queues'
  <2>. SUFFICES ASSUME NEW v \in Workers, NEW other \in req'[v].queue
                PROVE  /\ schedule[other].status = "pending"
                       /\ schedule[other].target = req'[v].cursor
                       /\ ~ Posted(other)'
    BY <1>4 DEF Queues
  <2>1. other \in req[v].queue /\ other # id /\ other \in Ids /\ req'[v].cursor = req[v].cursor
    BY <1>1, <1>3, <1>5
  <2>. QED
    BY <1>9, <1>10, <2>1 DEF ProRataInv, Queues
<1>14. Marks'
  <2>. SUFFICES ASSUME NEW v \in Workers, pc'[v] = "mark", NEW item, item = req'[v].item
                PROVE  /\ schedule[item].status = "pending"
                       /\ schedule[item].target = req'[v].cursor
                       /\ item \notin req'[v].queue
                       /\ HasRow(item)'
    BY <1>4 DEF Marks, HasRow
  <2>1. CASE v = w
    BY <1>3, <1>5, <1>11, <2>1
  <2>2. CASE v # w
    <3>1. pc[v] = "mark" /\ req'[v] = req[v]
      BY <1>5, <2>2
    <3>2. item \in Ids
      BY <1>1, <3>1
    <3>. QED
      BY <1>9, <3>1, <3>2 DEF ProRataInv, Marks
  <2>. QED
    BY <2>1, <2>2
<1>15. Rows'
  <2>. SUFFICES ASSUME NEW other \in Ids, Posted(other)'
                PROVE  /\ schedule[other].status \in {"pending", "applied"}
                       /\ schedule[other].target \in Existing'
                       /\ \A v \in Workers : pc'[v] = "load" => req'[v].cursor # schedule[other].target
    BY <1>4 DEF Rows
  <2>1. Existing' = Existing
    BY <1>2 DEF Existing
  <2>2. CASE other = id
    BY <1>3, <1>5, <2>1, <2>2
  <2>3. CASE Posted(other)
    BY <1>5, <2>1, <2>3 DEF ProRataInv, Rows
  <2>. QED
    BY <1>9, <1>10, <2>2, <2>3
<1>16. Fresh'
  <2>1. \A g \in Groups : plan[g].outcome = "none" => g # id[1]
    BY <1>3 DEF ProRataInv, Fresh
  <2>2. \A v \in Workers : pc[v] \in {"capture", "first"} => req[v].group # id[1]
    BY <1>3 DEF ProRataInv, Fresh
  <2>3. \A v \in Workers : pc'[v] \in {"capture", "first", "schedule"} =>
          pc[v] = pc'[v] /\ req[v] = req'[v]
    BY <1>5
  <2>4. \A g \in Groups : plan'[g].outcome = "none" =>
          Unwritten(g)' /\ \A other \in Ids : other[1] = g => schedule'[other].status = "absent"
    BY <1>2, <1>4, <1>9, <2>1 DEF ProRataInv, Fresh
  <2>5. ASSUME NEW v \in Workers, pc'[v] \in {"capture", "first"}, NEW g, g = req'[v].group
        PROVE  /\ Unwritten(g)'
               /\ \A other \in Ids : other[1] = g => schedule'[other].status = "absent"
    <3>1. pc[v] \in {"capture", "first"} /\ g = req[v].group
      BY <2>3, <2>5
    <3>2. Unwritten(g) /\ g # id[1]
      BY <2>2, <3>1 DEF ProRataInv, Fresh
    <3>. QED
      BY <1>4, <1>9, <3>1, <3>2 DEF ProRataInv, Fresh
  <2>6. \A v \in Workers : pc'[v] = "schedule" =>
          \A other \in Ids : other[1] = req'[v].group /\ other[2] >= req'[v].index
                               => schedule'[other].status = "absent"
    BY <1>4, <2>3 DEF ProRataInv, Fresh
  <2>. QED
    BY <2>4, <2>5, <2>6 DEF Fresh, Unwritten
<1>17. Applied'
  BY <1>4, <1>9 DEF ProRataInv, Applied
<1>. QED
  BY <1>9, <1>12, <1>13, <1>14, <1>15, <1>16, <1>17 DEF ProRataInv

\* The row of the first installment: the group was in no row before.
LEMMA PostFirstStep ==
  ASSUME ProRataInv, TypeInv', NEW w \in Workers, PostFirst(w)
  PROVE  ProRataInv'
<1>. DEFINE g == req[w].group
            row == [group |-> g, index |-> 1, period |-> req[w].target,
                    amount |-> Amount(g, 1)]
<1>1. /\ pc \in [Workers -> Point] /\ req \in [Workers -> Request] /\ req[w] \in Request
      /\ plan \in [Groups -> Plan] /\ ledger \in Seq(Installment)
      /\ \A v \in Workers : pc[v] = "mark" => req[v].item \in Ids
      /\ Plans
      /\ \A v \in Workers : pc[v] \in PlanPoint =>
           /\ req[v].group \in Groups /\ plan[req[v].group].outcome = "open"
           /\ req[v].queue = {}
  BY DEF ProRataInv, TypeInv, TypeOK, Locals, Local, PlanPoint
<1>2. /\ pc[w] = "first" /\ ledger' = Append(ledger, row)
      /\ UNCHANGED <<periods, schedule>>
  BY DEF PostFirst
<1>3. g \in Groups /\ plan[g].outcome = "open" /\ req[w].queue = {}
  BY <1>1, <1>2 DEF PlanPoint
<1>4. row \in Installment
  <2>1. plan[g].spread \in 2..MaxSpread
    BY <1>1, <1>3 DEF Plans
  <2>2. 1 \in 1..MaxSpread /\ 1 \in 1..plan[g].spread
    BY <2>1, Constants
  <2>3. Amount(g, 1) \in Nat
    BY <1>1, <1>3, <2>2, AmountType
  <2>4. req[w].target \in AnyMonth
    BY <1>1 DEF Request
  <2>. QED
    BY <1>3, <2>2, <2>3, <2>4 DEF Installment
<1>5. /\ pc'[w] \in {"schedule", "idle"} /\ req'[w].queue = {}
      /\ pc'[w] = "schedule" => req'[w].group = g /\ req'[w].index = 2
      /\ \A v \in Workers \ {w} : req'[v] = req[v] /\ pc'[v] = pc[v]
      /\ \A h \in Groups : plan'[h].outcome = "none" => plan[h].outcome = "none"
  <2>1. CASE Return(w)
    <3>1. /\ pc'[w] = "idle" /\ req'[w] = NoRequest
          /\ \A v \in Workers \ {w} : req'[v] = req[v] /\ pc'[v] = pc[v]
      BY <1>1, <2>1 DEF Return, Goto
    <3>2. \A h \in Groups : plan'[h].outcome = "none" => plan[h].outcome = "none"
      <4>1. plan' = plan \/ plan' = [plan EXCEPT ![g].outcome = "failed"]
        BY DEF PostFirst
      <4>2. ASSUME plan' = [plan EXCEPT ![g].outcome = "failed"],
                   NEW h \in Groups, plan'[h].outcome = "none"
            PROVE  plan[h].outcome = "none"
        <5>1. plan[h] \in Plan
          BY <1>1
        <5>. QED
          BY <1>1, <1>3, <4>2, <5>1 DEF Plan
      <4>. QED
        BY <4>1, <4>2
    <3>. QED
      BY <3>1, <3>2 DEF NoRequest
  <2>2. CASE ~ Return(w)
    <3>1. /\ Goto(w, "schedule") /\ plan' = plan
          /\ req' = [req EXCEPT ![w].index = 2, ![w].cursor = AdvanceMonth(req[w].target)]
      BY <2>2 DEF PostFirst
    <3>. QED
      BY <1>1, <1>3, <3>1 DEF Goto, Request
  <2>. QED
    BY <2>1, <2>2
<1>6. Unwritten(g) /\ \A id \in Ids : id[1] = g => schedule[id].status = "absent"
  BY <1>2 DEF ProRataInv, Fresh
<1>7. \A v \in Workers \ {w} : pc[v] \in PlanPoint => req[v].group # g
  BY <1>2 DEF ProRataInv, TypeInv, OneRequestPerGroup, PlanPoint
<1>8. row.group = g /\ row.index = 1
  OBVIOUS
<1>. HIDE DEF row, g
<1>9. /\ OneExpensePerInstallment'
      /\ \A id \in Ids : Posted(id)' => Posted(id)
      /\ \A id \in Ids : HasRow(id) => HasRow(id)'
      /\ \A h : Unwritten(h) /\ h # g => Unwritten(h)'
  <2>1. OneExpensePerInstallment
    BY DEF ProRataInv
  <2>2. \A i \in DOMAIN ledger : ledger[i].group # row.group
    BY <1>6, <1>8 DEF Unwritten
  <2>3. \A id \in Ids : id[2] # 1
    BY Constants DEF Ids
  <2>. QED
    BY <1>1, <1>2, <1>4, <1>8, <2>1, <2>2, <2>3, NewRow
<1>10. Owners' /\ OneOwner'
  BY <1>2, <1>5 DEF ProRataInv, Owners, OneOwner, OwnsMonth, Existing
<1>11. Queues'
  <2>. SUFFICES ASSUME NEW v \in Workers, NEW id \in req'[v].queue
                PROVE  /\ schedule[id].status = "pending"
                       /\ schedule[id].target = req'[v].cursor
                       /\ ~ Posted(id)'
    BY <1>2 DEF Queues
  <2>1. v # w /\ req'[v] = req[v] /\ id \in req[v].queue
    BY <1>5
  <2>2. id \in Ids
    BY <2>1 DEF ProRataInv, TypeInv, TypeOK, Request
  <2>. QED
    BY <1>9, <2>1, <2>2 DEF ProRataInv, Queues
<1>12. Marks'
  <2>. SUFFICES ASSUME NEW v \in Workers, pc'[v] = "mark", NEW item, item = req'[v].item
                PROVE  /\ schedule[item].status = "pending"
                       /\ schedule[item].target = req'[v].cursor
                       /\ item \notin req'[v].queue
                       /\ HasRow(item)'
    BY <1>2 DEF Marks, HasRow
  <2>1. pc[v] = "mark" /\ req'[v] = req[v]
    BY <1>5
  <2>2. item \in Ids
    BY <1>1, <2>1
  <2>. QED
    BY <1>9, <2>1, <2>2 DEF ProRataInv, Marks
<1>13. Rows'
  <2>1. Existing' = Existing
    BY <1>2 DEF Existing
  <2>2. \A v \in Workers : pc'[v] = "load" => pc[v] = "load" /\ req'[v] = req[v]
    BY <1>5
  <2>. QED
    BY <1>2, <1>9, <2>1, <2>2 DEF ProRataInv, Rows
<1>14. Fresh'
  <2>1. \A h \in Groups : plan'[h].outcome = "none" =>
          /\ h # g /\ Unwritten(h)'
          /\ \A id \in Ids : id[1] = h => schedule'[id].status = "absent"
    BY <1>2, <1>3, <1>5, <1>9 DEF ProRataInv, Fresh
  <2>2. ASSUME NEW v \in Workers, pc'[v] \in {"capture", "first"}, NEW h, h = req'[v].group
        PROVE  /\ Unwritten(h)'
               /\ \A id \in Ids : id[1] = h => schedule'[id].status = "absent"
    <3>1. v # w /\ pc[v] = pc'[v] /\ h = req[v].group /\ h # g
      BY <1>5, <1>7, <2>2 DEF PlanPoint
    <3>. QED
      BY <1>2, <1>9, <2>2, <3>1 DEF ProRataInv, Fresh
  <2>3. ASSUME NEW v \in Workers, pc'[v] = "schedule", NEW id \in Ids,
               id[1] = req'[v].group, id[2] >= req'[v].index
        PROVE  schedule'[id].status = "absent"
    <3>1. CASE v = w
      BY <1>2, <1>5, <1>6, <2>3, <3>1
    <3>2. CASE v # w
      BY <1>2, <1>5, <2>3, <3>2 DEF ProRataInv, Fresh
    <3>. QED
      BY <3>1, <3>2
  <2>. QED
    BY <2>1, <2>2, <2>3 DEF Fresh, Unwritten
<1>15. Applied'
  BY <1>2, <1>9 DEF ProRataInv, Applied
<1>. QED
  BY <1>9, <1>10, <1>11, <1>12, <1>13, <1>14, <1>15 DEF ProRataInv

\* INSERT INTO pro_rata_schedules: a new row, which no handler has loaded.
LEMMA CreateScheduleStep ==
  ASSUME ProRataInv, TypeInv', NEW w \in Workers, CreateSchedule(w)
  PROVE  ProRataInv'
<1>. DEFINE g == req[w].group
            k == req[w].index
            id == <<g, k>>
<1>1. /\ pc \in [Workers -> Point] /\ req \in [Workers -> Request] /\ req[w] \in Request
      /\ plan \in [Groups -> Plan] /\ schedule \in [Ids -> Schedule]
      /\ Plans /\ Local(w)
      /\ \A v \in Workers : req[v].queue \subseteq Ids
      /\ \A v \in Workers : pc[v] = "mark" => req[v].item \in Ids
  BY DEF ProRataInv, TypeInv, TypeOK, Locals, Local, Request
<1>2. /\ pc[w] = "schedule"
      /\ schedule' = [schedule EXCEPT ![id] = [status |-> "pending", target |-> req[w].cursor,
                                              amount |-> Amount(g, k), covers |-> req[w].covers]]
      /\ UNCHANGED <<periods, ledger>>
  BY DEF CreateSchedule
<1>3. /\ g \in Groups /\ plan[g].outcome = "open" /\ k \in 2..plan[g].spread
      /\ req[w].queue = {}
  BY <1>1, <1>2 DEF Local, PlanPoint
<1>4. id \in Ids /\ k \in Nat
  <2>1. plan[g].spread \in 2..MaxSpread
    BY <1>1, <1>3 DEF Plans
  <2>. QED
    BY <1>3, <2>1, Constants DEF Ids
<1>5. /\ pc'[w] \in {"schedule", "idle"} /\ req'[w].queue = {}
      /\ pc'[w] = "schedule" => req'[w].group = g /\ req'[w].index = k + 1
      /\ \A v \in Workers \ {w} : req'[v] = req[v] /\ pc'[v] = pc[v]
      /\ \A h \in Groups : plan'[h].outcome = "none" => plan[h].outcome = "none"
  <2>1. CASE k = plan[g].spread
    <3>1. Return(w) /\ plan' = [plan EXCEPT ![g].outcome = "created"]
      BY <2>1 DEF CreateSchedule
    <3>2. /\ pc'[w] = "idle" /\ req'[w] = NoRequest
          /\ \A v \in Workers \ {w} : req'[v] = req[v] /\ pc'[v] = pc[v]
      BY <1>1, <3>1 DEF Return, Goto
    <3>3. ASSUME NEW h \in Groups, plan'[h].outcome = "none" PROVE plan[h].outcome = "none"
      <4>1. plan[h] \in Plan
        BY <1>1
      <4>. QED
        BY <1>1, <1>3, <3>1, <3>3, <4>1 DEF Plan
    <3>. QED
      BY <3>2, <3>3 DEF NoRequest
  <2>2. CASE k # plan[g].spread
    <3>1. /\ pc' = pc /\ plan' = plan
          /\ req' = [req EXCEPT ![w].index = k + 1, ![w].cursor = AdvanceMonth(@)]
      BY <2>2 DEF CreateSchedule
    <3>. QED
      BY <1>1, <1>2, <1>3, <3>1 DEF Request
  <2>. QED
    BY <2>1, <2>2
<1>6. schedule[id].status = "absent"
  BY <1>2, <1>4 DEF ProRataInv, Fresh
<1>7. \A v \in Workers \ {w} : pc[v] \in PlanPoint => req[v].group # g
  BY <1>2 DEF ProRataInv, TypeInv, OneRequestPerGroup, PlanPoint
<1>8. /\ \A other \in Ids \ {id} : schedule'[other] = schedule[other]
      /\ schedule'[id].status = "pending"
  BY <1>1, <1>2, <1>4
<1>9. \A other \in Ids \ {id} : other[1] # g \/ other[2] # k
  BY DEF Ids
<1>10. id[1] = g /\ id[2] = k
  OBVIOUS
<1>. HIDE DEF id, g, k
<1>11. ~ Posted(id)
  BY <1>4, <1>6 DEF ProRataInv, Rows
<1>12. /\ \A v \in Workers : id \notin req[v].queue
       /\ \A v \in Workers : pc[v] = "mark" => req[v].item # id
  BY <1>6 DEF ProRataInv, Queues, Marks
<1>13. Owners' /\ OneOwner'
  BY <1>2, <1>5 DEF ProRataInv, Owners, OneOwner, OwnsMonth, Existing
<1>14. Queues'
  <2>. SUFFICES ASSUME NEW v \in Workers, NEW other \in req'[v].queue
                PROVE  /\ schedule'[other].status = "pending"
                       /\ schedule'[other].target = req'[v].cursor
                       /\ ~ Posted(other)
    BY <1>2 DEF Queues, Posted
  <2>1. v # w /\ req'[v] = req[v] /\ other \in req[v].queue
    BY <1>5
  <2>2. other \in Ids \ {id}
    BY <1>1, <1>12, <2>1
  <2>. QED
    BY <1>8, <2>1, <2>2 DEF ProRataInv, Queues
<1>15. Marks'
  <2>. SUFFICES ASSUME NEW v \in Workers, pc'[v] = "mark", NEW item, item = req'[v].item
                PROVE  /\ schedule'[item].status = "pending"
                       /\ schedule'[item].target = req'[v].cursor
                       /\ item \notin req'[v].queue
                       /\ HasRow(item)'
    BY DEF Marks, HasRow
  <2>1. pc[v] = "mark" /\ req'[v] = req[v]
    BY <1>5
  <2>2. item \in Ids \ {id} /\ HasRow(item)
    BY <1>1, <1>12, <2>1 DEF ProRataInv, Marks
  <2>3. HasRow(item)'
    BY <1>2, <1>8, <2>2 DEF HasRow
  <2>. QED
    BY <1>8, <2>1, <2>2, <2>3 DEF ProRataInv, Marks
<1>16. Rows'
  <2>. SUFFICES ASSUME NEW other \in Ids, Posted(other)
                PROVE  /\ schedule'[other].status \in {"pending", "applied"}
                       /\ schedule'[other].target \in Existing
                       /\ \A v \in Workers :
                            pc'[v] = "load" => req'[v].cursor # schedule'[other].target
    BY <1>2 DEF Rows, Posted, Existing
  <2>1. other # id
    BY <1>11
  <2>2. \A v \in Workers : pc'[v] = "load" => pc[v] = "load" /\ req'[v] = req[v]
    BY <1>5
  <2>. QED
    BY <1>8, <2>1, <2>2 DEF ProRataInv, Rows
<1>17. Fresh'
  <2>1. \A h : Unwritten(h)' <=> Unwritten(h)
    BY <1>2 DEF Unwritten
  <2>2. \A h \in Groups : plan'[h].outcome = "none" =>
          /\ Unwritten(h)
          /\ \A other \in Ids : other[1] = h => schedule'[other].status = "absent"
    BY <1>3, <1>5, <1>8, <1>10 DEF ProRataInv, Fresh
  <2>3. \A v \in Workers : pc'[v] \in {"capture", "first"} =>
          /\ Unwritten(req'[v].group)
          /\ \A other \in Ids : other[1] = req'[v].group => schedule'[other].status = "absent"
    <3>1. \A v \in Workers : pc'[v] \in {"capture", "first"} =>
            v # w /\ pc[v] = pc'[v] /\ req'[v] = req[v] /\ req[v].group # g
      BY <1>5, <1>7 DEF PlanPoint
    <3>. QED
      BY <1>8, <1>10, <3>1 DEF ProRataInv, Fresh
  <2>4. ASSUME NEW v \in Workers, pc'[v] = "schedule", NEW other \in Ids,
               other[1] = req'[v].group, other[2] >= req'[v].index
        PROVE  schedule'[other].status = "absent"
    <3>1. other[2] \in Nat
      BY Constants DEF Ids
    <3>2. CASE v = w
      <4>1. other[1] = g /\ other[2] >= k + 1
        BY <1>5, <2>4, <3>2
      <4>2. other # id /\ other[2] >= k
        BY <1>4, <1>10, <3>1, <4>1
      <4>. QED
        BY <1>2, <1>8, <4>1, <4>2 DEF ProRataInv, Fresh, g, k
    <3>3. CASE v # w
      <4>1. pc[v] = "schedule" /\ req'[v] = req[v] /\ req[v].group # g
        BY <1>5, <1>7, <2>4, <3>3 DEF PlanPoint
      <4>. QED
        BY <1>8, <1>10, <2>4, <4>1 DEF ProRataInv, Fresh
    <3>. QED
      BY <3>2, <3>3
  <2>5. \A h \in Groups : plan'[h].outcome = "none" => Unwritten(h)'
    BY <2>1, <2>2
  <2>6. ASSUME NEW v \in Workers, pc'[v] \in {"capture", "first"}, NEW h, h = req'[v].group
        PROVE  Unwritten(h)'
    BY <2>1, <2>3, <2>6
  <2>. QED
    BY <2>2, <2>3, <2>4, <2>5, <2>6 DEF Fresh, Unwritten
<1>18. Applied'
  BY <1>2, <1>8 DEF ProRataInv, Applied, HasRow
<1>19. OneExpensePerInstallment'
  BY <1>2 DEF ProRataInv, OneExpensePerInstallment
<1>. QED
  BY <1>13, <1>14, <1>15, <1>16, <1>17, <1>18, <1>19 DEF ProRataInv

\* ProRataInv is inductive.
LEMMA ProRataInvNext == ProRataInv /\ [Next]_vars => ProRataInv'
<1>. SUFFICES ASSUME ProRataInv, [Next]_vars PROVE ProRataInv'
  OBVIOUS
<1>1. TypeInv'
  BY TypeInvNext DEF ProRataInv
<1>2. ASSUME NEW w \in Workers, AskPeriod(w) \/ AskProRata(w) \/ Handle(w) \/ Fail(w)
      PROVE  ProRataInv'
  <2>1. CASE AskPeriod(w) \/ AskProRata(w) \/ Fail(w)
    BY <1>1, <2>1, QuietActions
  <2>2. CASE Handle(w)
    BY <1>1, <2>2, QuietActions, CreatePeriodStep, LoadPendingStep, FailUncoveredStep,
       PostInstallmentStep, MarkAppliedStep, PostFirstStep, CreateScheduleStep DEF Handle
  <2>. QED
    BY <1>2, <2>1, <2>2
<1>3. CASE UNCHANGED vars
  BY <1>1, <1>3 DEF vars, ProRataInv, Owners, OneOwner, OwnsMonth, Existing, Queues, Marks,
     Rows, Posted, Fresh, Unwritten, Applied, HasRow, OneExpensePerInstallment
<1>. QED
  BY <1>2, <1>3 DEF Next

\* An installment reaches the ledger at most once: among any number of
\* handlers, requests, groups and months, with lost answers, failed status
\* updates and crashes anywhere.
THEOREM InstallmentsArePostedOnce == Spec => []OneExpensePerInstallment
<1>1. ProRataInv => OneExpensePerInstallment
  BY DEF ProRataInv
<1>. QED
  BY <1>1, ProRataInvInit, ProRataInvNext, PTL DEF Spec

\* An applied schedule has its row, in its month and with its amount; one
\* that failed, or was never stored, has none.
THEOREM SettledSchedulesTellTheTruth == Spec => []SettledAgreesWithLedger
<1>1. ProRataInv => SettledAgreesWithLedger
  BY DEF ProRataInv, Applied, HasRow, Rows, SettledAgreesWithLedger
<1>. QED
  BY <1>1, ProRataInvInit, ProRataInvNext, PTL DEF Spec

\* Only a schedule that is absent or pending is ever written.
LEMMA SettledStep ==
  ASSUME ProRataInv, [Next]_vars, NEW id \in Ids, schedule[id].status \in {"applied", "failed"}
  PROVE  schedule'[id].status = schedule[id].status
<1>1. schedule \in [Ids -> Schedule] /\ \A w \in Workers : Local(w)
  BY DEF ProRataInv, TypeInv, TypeOK, Locals
<1>2. ASSUME NEW w \in Workers, NEW other \in Ids, FailUncovered(w, other)
      PROVE  schedule'[id] = schedule[id]
  <2>1. other \in req[w].queue /\ Settle(other, "failed")
    BY <1>2 DEF FailUncovered
  <2>2. other # id
    BY <2>1, QueuedOnce
  <2>. QED
    BY <1>1, <2>1, <2>2, SettledRow
<1>3. ASSUME NEW w \in Workers, NEW other \in Ids,
             PostInstallment(w, other) \/ LeavePending(w, other)
      PROVE  schedule'[id].status = schedule[id].status
  BY <1>1, <1>3 DEF PostInstallment, LeavePending, Settle, StatusAfterError, Schedule
<1>4. ASSUME NEW w \in Workers, MarkApplied(w)
      PROVE  schedule'[id] = schedule[id]
  <2>1. pc[w] = "mark" /\ Settle(req[w].item, "applied")
    BY <1>4 DEF MarkApplied
  <2>2. req[w].item \in Ids /\ req[w].item # id
    BY <1>1, <2>1 DEF Local, ProRataInv, Marks
  <2>. QED
    BY <1>1, <2>1, <2>2, SettledRow
<1>5. ASSUME NEW w \in Workers, CreateSchedule(w)
      PROVE  schedule'[id] = schedule[id]
  <2>. DEFINE new == <<req[w].group, req[w].index>>
  <2>1. pc[w] = "schedule" /\ \E row : schedule' = [schedule EXCEPT ![new] = row]
    BY <1>5 DEF CreateSchedule
  <2>2. req[w].index \in 2..plan[req[w].group].spread
    BY <1>1, <2>1 DEF Local
  <2>3. req[w].index >= req[w].index
    BY <1>1, <2>1 DEF Local, ProRataInv, TypeInv, TypeOK, Request
  <2>4. new # id
    BY <2>1, <2>3 DEF ProRataInv, Fresh
  <2>. QED
    BY <1>1, <2>1, <2>4
<1>6. ASSUME NEW w \in Workers, AskPeriod(w) \/ AskProRata(w) \/ Handle(w) \/ Fail(w)
      PROVE  schedule'[id].status = schedule[id].status
  <2>1. CASE AskPeriod(w) \/ AskProRata(w) \/ Fail(w)
    BY <2>1 DEF AskPeriod, AskProRata, BeginPeriod, BeginProRata, Fail
  <2>2. CASE Handle(w)
    BY <1>2, <1>3, <1>4, <1>5, <2>2 DEF Handle, ReadLatest, CreatePeriod, LoadPending,
       LeaveUnmarked, FinishMonth, CaptureSnapshot, PostFirst
  <2>. QED
    BY <1>6, <2>1, <2>2
<1>. QED
  BY <1>6 DEF Next, vars

\* The status updates are unconditional; still, no order of handlers settles
\* a schedule twice.
THEOREM SettlingIsFinal == Spec => SettledStaysSettled
<1>. DEFINE Final == \A id \in Ids : schedule[id].status \in {"applied", "failed"} =>
                                       schedule'[id].status = schedule[id].status
<1>1. ProRataInv /\ [Next]_vars => [Final]_vars
  BY SettledStep
<1>. QED
  BY <1>1, ProRataInvInit, ProRataInvNext, PTL DEF Spec, SettledStaysSettled
------------------------------------------------------------------------------
(* The missed months.                                                      *)

\* The walk steps over no month between the last it reached and the next.
LEMMA NoMonthBetween ==
  ASSUME NEW m \in Months, NEW target \in Months, NEW other \in Months,
         Before(other, NextMonth(m, target))
  PROVE  ~ Before(m, other)
<1>1. m \in AnyMonth /\ other \in AnyMonth /\ target \in AnyMonth
  BY Constants
<1>2. Before(other, AdvanceMonth(m))
  BY <1>1, AdvanceMonthType DEF NextMonth, Before, AnyMonth
<1>. QED
  BY <1>1, <1>2 DEF Before, AdvanceMonth, AnyMonth

\* A step that leaves a handler's locals alone, and removes no period, leaves
\* no month missing behind that handler.
MonthsBehind(w) ==
  pc[w] \in {"create", "load", "apply", "mark"} /\ req[w].latest # << >> =>
    \A m \in Months : Before(req[w].latest, m) /\ Before(m, req[w].cursor) => m \in Existing

LEMMA MonthsBehindKept ==
  ASSUME NEW w \in Workers, MonthsBehind(w), Existing \subseteq Existing',
         pc'[w] \in {"create", "load", "apply", "mark"} => pc[w] \in {"create", "load", "apply", "mark"},
         req'[w].latest = req[w].latest, req'[w].cursor = req[w].cursor
  PROVE  MonthsBehind(w)'
BY DEF MonthsBehind

\* Periods are only ever inserted.
LEMMA PeriodsStay ==
  ASSUME TypeInv, [Next]_vars
  PROVE  Existing \subseteq Existing'
<1>1. periods \in [Months -> Currencies \cup {NoPeriod}] /\ NoPeriod \notin Currencies
  BY Constants DEF TypeInv, TypeOK
<1>2. ASSUME NEW w \in Workers, CreatePeriod(w) PROVE Existing \subseteq Existing'
  BY <1>1, <1>2 DEF CreatePeriod, MonthFree, Existing
<1>3. ASSUME periods' = periods PROVE Existing \subseteq Existing'
  BY <1>3 DEF Existing
<1>4. ASSUME NEW w \in Workers, Handle(w) PROVE Existing \subseteq Existing'
  BY <1>2, <1>3, <1>4 DEF Handle, ReadLatest, LoadPending, FailUncovered, PostInstallment,
     MarkApplied, LeavePending, LeaveUnmarked, FinishMonth, CaptureSnapshot, PostFirst,
     CreateSchedule
<1>5. ASSUME NEW w \in Workers, AskPeriod(w) \/ AskProRata(w) \/ Fail(w)
      PROVE  Existing \subseteq Existing'
  BY <1>3, <1>5 DEF AskPeriod, AskProRata, BeginPeriod, BeginProRata, Fail
<1>. QED
  BY <1>3, <1>4, <1>5 DEF Next, vars

\* One step of one handler.
LEMMA MissedStep ==
  ASSUME ProRataInv, MissedMonthsAreCreated, NEW w \in Workers,
         AskPeriod(w) \/ AskProRata(w) \/ Handle(w) \/ Fail(w)
  PROVE  MissedMonthsAreCreated'
<1>1. /\ pc \in [Workers -> Point] /\ req \in [Workers -> Request] /\ Local(w) /\ Owners
      /\ \A v \in Workers : MonthsBehind(v)
  BY DEF ProRataInv, TypeInv, TypeOK, Locals, MissedMonthsAreCreated, MonthsBehind
<1>2. Existing \subseteq Existing'
  BY PeriodsStay DEF ProRataInv, Next
<1>3. \A v \in Workers \ {w} : pc'[v] = pc[v] /\ req'[v] = req[v]
  BY <1>1 DEF AskPeriod, BeginPeriod, AskProRata, BeginProRata, Handle, Fail, ReadLatest,
     CreatePeriod, LoadPending, FailUncovered, PostInstallment, MarkApplied, LeavePending,
     LeaveUnmarked, FinishMonth, CaptureSnapshot, PostFirst, CreateSchedule, Goto, Return
<1>4. \A v \in Workers \ {w} : MonthsBehind(v)'
  BY <1>1, <1>2, <1>3, MonthsBehindKept
<1>5. ASSUME pc'[w] \notin {"create", "load", "apply", "mark"} PROVE MonthsBehind(w)'
  BY <1>5 DEF MonthsBehind
<1>6. ASSUME req'[w].latest = req[w].latest, req'[w].cursor = req[w].cursor,
             pc[w] \in {"create", "load", "apply", "mark"}
      PROVE  MonthsBehind(w)'
  BY <1>1, <1>2, <1>6, MonthsBehindKept
<1>7. ASSUME NEW latest \in LatestPeriod, NEW auto \in Currencies, ReadLatest(w, latest, auto)
      PROVE  MonthsBehind(w)'
  <2>1. /\ req'[w].latest = latest
        /\ latest # << >> => req'[w].cursor = NextMonth(latest, req[w].target)
        /\ req[w].target \in Months
    BY <1>1, <1>7 DEF ReadLatest, Request, Local, PeriodPoint
  <2>2. latest # << >> => latest \in Months
    BY DEF LatestPeriod, Existing
  <2>. QED
    BY <2>1, <2>2, NoMonthBetween DEF MonthsBehind
<1>8. ASSUME FinishMonth(w), pc'[w] = "create" PROVE MonthsBehind(w)'
  <2>1. /\ pc[w] = "apply" /\ req[w].cursor # req[w].target
        /\ req' = [req EXCEPT ![w].cursor = NextMonth(@, req[w].target)]
    BY <1>1, <1>8 DEF FinishMonth, Return, Goto
  <2>2. /\ req'[w].latest = req[w].latest /\ req'[w].cursor = NextMonth(req[w].cursor, req[w].target)
        /\ req[w].cursor \in Existing /\ req[w].target \in Months /\ req[w].cursor \in Months
    BY <1>1, <2>1 DEF Request, Owners, OwnsMonth, Local, PeriodPoint
  <2>3. ASSUME NEW m \in Months, Before(m, req'[w].cursor)
        PROVE  Before(m, req[w].cursor) \/ m = req[w].cursor
    <3>1. ~ Before(req[w].cursor, m)
      BY <2>2, <2>3, NoMonthBetween
    <3>2. m \in AnyMonth /\ req[w].cursor \in AnyMonth
      BY <2>2, Constants
    <3>. QED
      BY <3>1, <3>2 DEF Before, AnyMonth
  <2>. QED
    BY <1>1, <1>2, <2>1, <2>2, <2>3 DEF MonthsBehind
<1>9. ASSUME AskPeriod(w) \/ AskProRata(w) \/ Fail(w) PROVE MonthsBehind(w)'
  BY <1>1, <1>5, <1>9 DEF AskPeriod, BeginPeriod, AskProRata, BeginProRata, Fail, Goto, Return
<1>10. ASSUME Handle(w) PROVE MonthsBehind(w)'
  <2>1. CASE \E latest \in LatestPeriod, auto \in Currencies : ReadLatest(w, latest, auto)
    BY <1>7, <2>1
  <2>2. CASE CreatePeriod(w) \/ MarkApplied(w) \/ LeaveUnmarked(w)
    BY <1>1, <1>6, <2>2 DEF CreatePeriod, MarkApplied, LeaveUnmarked
  <2>3. CASE \/ \E found \in SUBSET Ids : LoadPending(w, found)
             \/ \E id \in Ids : FailUncovered(w, id) \/ PostInstallment(w, id) \/ LeavePending(w, id)
    <3>1. ASSUME NEW found \in SUBSET Ids, LoadPending(w, found) PROVE MonthsBehind(w)'
      BY <1>1, <1>6, <3>1 DEF LoadPending
    <3>2. ASSUME NEW id \in Ids, FailUncovered(w, id) \/ LeavePending(w, id)
          PROVE  MonthsBehind(w)'
      <4>1. /\ pc[w] = "apply"
            /\ \E rest : req' = [req EXCEPT ![w].queue = rest]
        BY <3>2 DEF FailUncovered, LeavePending
      <4>. QED
        BY <1>1, <1>6, <4>1 DEF Request
    <3>3. ASSUME NEW id \in Ids, PostInstallment(w, id) PROVE MonthsBehind(w)'
      <4>1. /\ pc[w] = "apply"
            /\ \E r : req' = [req EXCEPT ![w] = r] /\ r.latest = req[w].latest
                                                   /\ r.cursor = req[w].cursor
        BY <1>1, <3>3 DEF PostInstallment, Request
      <4>. QED
        BY <1>1, <1>6, <4>1
    <3>. QED
      BY <2>3, <3>1, <3>2, <3>3
  <2>4. CASE FinishMonth(w)
    <3>1. CASE req[w].cursor = req[w].target
      BY <1>1, <1>5, <2>4, <3>1 DEF FinishMonth, Return, Goto
    <3>2. CASE req[w].cursor # req[w].target
      BY <1>1, <1>8, <2>4, <3>2 DEF FinishMonth, Goto
    <3>. QED
      BY <3>1, <3>2
  <2>5. CASE (\E covers \in SUBSET Currencies : CaptureSnapshot(w, covers)) \/ PostFirst(w)
    BY <1>1, <1>5, <2>5 DEF CaptureSnapshot, PostFirst, Goto, Return
  <2>6. CASE CreateSchedule(w)
    BY <1>1, <1>5, <2>6 DEF CreateSchedule, Return, Goto
  <2>. QED
    BY <1>10, <2>1, <2>2, <2>3, <2>4, <2>5, <2>6 DEF Handle
<1>11. MonthsBehind(w)'
  BY <1>9, <1>10
<1>. QED
  BY <1>1, <1>4, <1>11 DEF MissedMonthsAreCreated, MonthsBehind

\* createMissedPeriods: no month is missing behind the handler that fills the gap
\* between the latest period and its own, whichever handlers run into it.
THEOREM NoMonthIsMissing == Spec => []MissedMonthsAreCreated
<1>1. Init => MissedMonthsAreCreated
  BY DEF Init, MissedMonthsAreCreated
<1>2. ProRataInv /\ MissedMonthsAreCreated /\ [Next]_vars => MissedMonthsAreCreated'
  <2>. SUFFICES ASSUME ProRataInv, MissedMonthsAreCreated, [Next]_vars
                PROVE  MissedMonthsAreCreated'
    OBVIOUS
  <2>1. CASE UNCHANGED vars
    BY <2>1 DEF vars, MissedMonthsAreCreated, Existing
  <2>2. CASE Next
    BY <2>2, MissedStep DEF Next
  <2>. QED
    BY <2>1, <2>2
<1>. QED
  BY <1>1, <1>2, ProRataInvInit, ProRataInvNext, PTL DEF Spec
------------------------------------------------------------------------------
(* Whole plans.                                                            *)

\* The parts of a plan, first installment and equal others, summed one by one.
LEMMA SumOfParts ==
  ASSUME NEW g \in Groups, NEW i \in DOMAIN ledger, NEW base \in Nat,
         plan[g].spread \in Nat \ {0}, ledger[i].amount \in Nat,
         \A k \in 2..plan[g].spread : schedule[<<g, k>>].amount = base
  PROVE  LET rest(k) == schedule[<<g, k>>].amount
             sum[k \in 1..plan[g].spread] == IF k = 1 THEN ledger[i].amount ELSE sum[k - 1] + rest(k)
         IN sum[plan[g].spread] = ledger[i].amount + (plan[g].spread - 1) * base
<1>. DEFINE n == plan[g].spread
            first == ledger[i].amount
            rest(k) == schedule[<<g, k>>].amount
            Part(f, k) == IF k = 1 THEN first ELSE f[k - 1] + rest(k)
            sum[k \in 1..n] == IF k = 1 THEN first ELSE sum[k - 1] + rest(k)
            closed == [k \in 1..n |-> first + (k - 1) * base]
<1>. SUFFICES sum[n] = first + (n - 1) * base
  OBVIOUS
<1>1. \A k \in 1..n : closed[k] = Part(closed, k)
  <2>1. ASSUME NEW k \in 2..n PROVE closed[k] = closed[k - 1] + rest(k)
    <3>1. (k - 1) * base = ((k - 1) - 1) * base + base /\ ((k - 1) - 1) * base \in Nat
      OBVIOUS
    <3>2. k \in 1..n /\ k - 1 \in 1..n
      OBVIOUS
    <3>. QED
      BY <3>1, <3>2
  <2>2. 1 \in 1..n /\ closed[1] = first
    OBVIOUS
  <2>. QED
    BY <2>1, <2>2
<1>2. closed = [k \in 1..n |-> Part(closed, k)]
  <2>1. closed = [k \in 1..n |-> closed[k]]
    OBVIOUS
  <2>. HIDE DEF closed
  <2>. QED
    BY <1>1, <2>1
<1>3. sum = [k \in 1..n |-> Part(sum, k)]
  <2>1. sum = CHOOSE f : f = [k \in 1..n |-> IF k = 1 THEN first ELSE f[k - 1] + rest(k)]
    OBVIOUS
  <2>. QED
    BY <1>2, <2>1
<1>. HIDE DEF sum
<1>4. \A k \in 1..n : sum[k] = closed[k]
  <2>. DEFINE Wrong == {k \in 1..n : sum[k] # closed[k]}
  <2>. SUFFICES ASSUME Wrong # {} PROVE FALSE
    OBVIOUS
  <2>1. PICK m \in Wrong : \A k \in Wrong : m <= k
    <3>1. Wrong \in SUBSET (1..n) /\ n \in Nat
      OBVIOUS
    <3>. HIDE DEF Wrong
    <3>. QED
      BY <3>1, LeastElement
  <2>2. m # 1
    BY <1>1, <1>3
  <2>3. m - 1 \in 1..n /\ m - 1 \notin Wrong
    <3>1. m \in 1..n
      BY <2>1
    <3>. HIDE DEF Wrong
    <3>. QED
      BY <2>1, <2>2, <3>1
  <2>4. sum[m] = sum[m - 1] + rest(m) /\ closed[m] = closed[m - 1] + rest(m)
    BY <1>1, <1>3, <2>2, <2>3
  <2>. QED
    BY <2>3, <2>4
<1>. QED
  <2>1. n \in 1..n /\ closed[n] = first + (n - 1) * base
    OBVIOUS
  <2>. QED
    BY <1>4, <2>1

\* The first n installments of a plan are in their places: the first in the ledger,
\* the others in the table.
PlacedUpTo(g, n) ==
  /\ \E i \in DOMAIN ledger : /\ ledger[i].group = g /\ ledger[i].index = 1
                              /\ ledger[i].amount = Amount(g, 1)
  /\ \A k \in 2..n : schedule[<<g, k>>].status # "absent" /\ schedule[<<g, k>>].amount = Amount(g, k)

Placed ==
  /\ \A g \in Groups : plan[g].outcome = "created" => PlacedUpTo(g, plan[g].spread)
  /\ \A w \in Workers : pc[w] = "schedule" => PlacedUpTo(req[w].group, req[w].index - 1)

\* What every step keeps: the rows of the ledger, the amounts of the schedules and
\* that they are there, and what a begun plan asks for.
KeepsParts ==
  /\ \A i \in DOMAIN ledger : i \in DOMAIN ledger' /\ ledger'[i] = ledger[i]
  /\ \A id \in Ids : schedule[id].status # "absent" =>
       schedule'[id].status # "absent" /\ schedule'[id].amount = schedule[id].amount
  /\ \A g \in Groups : plan[g].outcome # "none" =>
       /\ plan'[g].outcome # "none"
       /\ plan'[g].spread = plan[g].spread /\ plan'[g].total = plan[g].total

LEMMA PlacedStays ==
  ASSUME KeepsParts, NEW g \in Groups, plan[g].outcome # "none", NEW n \in Nat, n <= MaxSpread,
         PlacedUpTo(g, n)
  PROVE  PlacedUpTo(g, n)'
<1>1. \A k : Amount(g, k)' = Amount(g, k)
  BY DEF KeepsParts, Amount
<1>2. \A k \in 2..n : <<g, k>> \in Ids
  BY Constants DEF Ids
<1>. QED
  BY <1>1, <1>2 DEF PlacedUpTo, KeepsParts

\* A created plan whose installments are in their places is whole.
LEMMA PlacedIsWhole == ProRataInv /\ Placed => CreatedPlansAreWhole
<1>. SUFFICES ASSUME ProRataInv, Placed, NEW g \in Groups, plan[g].outcome = "created"
              PROVE  \E i \in DOMAIN ledger :
                       LET rest(k) == schedule[<<g, k>>].amount
                           sum[k \in 1..plan[g].spread] ==
                             IF k = 1 THEN ledger[i].amount ELSE sum[k - 1] + rest(k)
                       IN /\ ledger[i].group = g /\ ledger[i].index = 1
                          /\ \A k \in 2..plan[g].spread : schedule[<<g, k>>].status # "absent"
                          /\ sum[plan[g].spread] = plan[g].total
  BY DEF CreatedPlansAreWhole
<1>. DEFINE n == plan[g].spread
            base == plan[g].total \div n
<1>1. PlacedUpTo(g, n)
  BY DEF Placed
<1>2. PICK i \in DOMAIN ledger : /\ ledger[i].group = g /\ ledger[i].index = 1
                                 /\ ledger[i].amount = Amount(g, 1)
  BY <1>1 DEF PlacedUpTo
<1>3. plan[g].total \in Nat /\ n \in Nat \ {0} /\ n >= 2
  BY Constants DEF ProRataInv, TypeInv, Plans
<1>4. /\ Amount(g, 1) \in Nat
      /\ \A k \in 2..n : Amount(g, k) = base
      /\ Amount(g, 1) + (n - 1) * base = plan[g].total
  <2>. DEFINE parts == CalculateInstallments(plan[g].total, n)
  <2>1. /\ parts \in [1..n -> Nat] /\ \A k \in 2..n : parts[k] = base
        /\ parts[1] + (n - 1) * base = plan[g].total
    BY <1>3, InstallmentsAddUp
  <2>2. \A k : Amount(g, k) = parts[k]
    BY DEF Amount
  <2>. HIDE DEF parts, base
  <2>3. parts[1] \in Nat
    BY <1>3, <2>1
  <2>. QED
    BY <2>1, <2>2, <2>3
<1>5. \A k \in 2..n : schedule[<<g, k>>].status # "absent" /\ schedule[<<g, k>>].amount = base
  BY <1>1, <1>4 DEF PlacedUpTo
<1>6. base \in Nat
  BY <1>3
<1>7. LET rest(k) == schedule[<<g, k>>].amount
          sum[k \in 1..plan[g].spread] == IF k = 1 THEN ledger[i].amount ELSE sum[k - 1] + rest(k)
      IN sum[plan[g].spread] = ledger[i].amount + (plan[g].spread - 1) * base
  <2>1. plan[g].spread \in Nat \ {0}
    BY <1>3
  <2>2. ledger[i].amount \in Nat
    BY <1>2, <1>4
  <2>3. \A k \in 2..plan[g].spread : schedule[<<g, k>>].amount = base
    BY <1>5
  <2>. HIDE DEF base
  <2>. QED
    BY <1>6, <2>1, <2>2, <2>3, SumOfParts
<1>. QED
  BY <1>2, <1>4, <1>5, <1>7

\* Rows are appended, schedules written once, plans asked for once.
LEMMA PartsAreKept ==
  ASSUME ProRataInv, NEW w \in Workers,
         AskPeriod(w) \/ AskProRata(w) \/ Handle(w) \/ Fail(w)
  PROVE  KeepsParts
<1>1. /\ ledger \in Seq(Installment) /\ schedule \in [Ids -> Schedule] /\ plan \in [Groups -> Plan]
      /\ req \in [Workers -> Request] /\ Local(w)
      /\ \A v \in Workers : req[v].queue \subseteq Ids
  BY DEF ProRataInv, TypeInv, TypeOK, Locals, Request
<1>. DEFINE Rows1 == \A i \in DOMAIN ledger : i \in DOMAIN ledger' /\ ledger'[i] = ledger[i]
            Schedules == \A id \in Ids : schedule[id].status # "absent" =>
              schedule'[id].status # "absent" /\ schedule'[id].amount = schedule[id].amount
            Asked == \A g \in Groups : plan[g].outcome # "none" =>
              /\ plan'[g].outcome # "none"
              /\ plan'[g].spread = plan[g].spread /\ plan'[g].total = plan[g].total
<1>2. ledger' = ledger => Rows1
  OBVIOUS
<1>3. ASSUME NEW row \in Installment, ledger' = Append(ledger, row) PROVE Rows1
  BY <1>1, <1>3, AppendRows
<1>4. schedule' = schedule => Schedules
  OBVIOUS
<1>5. ASSUME NEW id \in Ids, NEW status, status # "absent", Settle(id, status) PROVE Schedules
  BY <1>1, <1>5, SettledRow
<1>6. plan' = plan => Asked
  OBVIOUS
<1>7. ASSUME NEW g, NEW outcome \in {"created", "failed"},
             plan' = [plan EXCEPT ![g].outcome = outcome]
      PROVE  Asked
  BY <1>1, <1>7 DEF Plan
<1>. HIDE DEF Rows1, Schedules, Asked
<1>8. ASSUME AskPeriod(w) PROVE Rows1 /\ Schedules /\ Asked
  BY <1>2, <1>4, <1>6, <1>8 DEF AskPeriod, BeginPeriod
<1>9. ASSUME AskProRata(w) PROVE Rows1 /\ Schedules /\ Asked
  <2>1. ledger' = ledger /\ schedule' = schedule
    BY <1>9 DEF AskProRata, BeginProRata
  <2>2. Asked
    BY <1>1, <1>9 DEF AskProRata, BeginProRata, Asked, Plan
  <2>. QED
    BY <1>2, <1>4, <2>1, <2>2
<1>10. ASSUME Fail(w) PROVE Rows1 /\ Schedules /\ Asked
  <2>1. /\ ledger' = ledger /\ schedule' = schedule
        /\ plan' = [g \in Groups |-> IF g = req[w].group
                                     THEN [plan[g] EXCEPT !.outcome = "failed"] ELSE plan[g]]
    BY <1>10 DEF Fail
  <2>2. Asked
    BY <1>1, <2>1 DEF Asked, Plan
  <2>. QED
    BY <1>2, <1>4, <2>1, <2>2
<1>11. ASSUME NEW id \in Ids, FailUncovered(w, id) PROVE Rows1 /\ Schedules /\ Asked
  <2>1. ledger' = ledger /\ plan' = plan /\ Settle(id, "failed")
    BY <1>11 DEF FailUncovered
  <2>. QED
    BY <1>2, <1>5, <1>6, <2>1
<1>12. ASSUME NEW id \in Ids, LeavePending(w, id) PROVE Rows1 /\ Schedules /\ Asked
  <2>1. /\ ledger' = ledger /\ plan' = plan /\ id \in req[w].queue
        /\ Settle(id, schedule[id].status)
    BY <1>12 DEF LeavePending, StatusAfterError
  <2>2. schedule[id].status = "pending"
    BY <2>1, QueuedOnce DEF ProRataInv, Queues
  <2>. QED
    BY <1>2, <1>5, <1>6, <2>1, <2>2
<1>13. ASSUME MarkApplied(w) PROVE Rows1 /\ Schedules /\ Asked
  <2>1. ledger' = ledger /\ plan' = plan /\ Settle(req[w].item, "applied") /\ req[w].item \in Ids
    BY <1>1, <1>13 DEF MarkApplied, Local
  <2>. QED
    BY <1>2, <1>5, <1>6, <2>1
<1>14. ASSUME NEW id \in Ids, PostInstallment(w, id) PROVE Rows1 /\ Schedules /\ Asked
  <2>. DEFINE row == [group |-> id[1], index |-> id[2], period |-> req[w].cursor,
                      amount |-> schedule[id].amount]
  <2>1. /\ ledger' = Append(ledger, row) /\ plan' = plan /\ id \in req[w].queue
        /\ schedule' = schedule \/ Settle(id, schedule[id].status)
    BY <1>14 DEF PostInstallment, StatusAfterError
  <2>2. schedule[id].status = "pending"
    BY <2>1, QueuedOnce DEF ProRataInv, Queues
  <2>3. row \in Installment
    BY <1>1, Constants DEF Installment, Request, Schedule, Ids
  <2>. QED
    BY <1>3, <1>4, <1>5, <1>6, <2>1, <2>2, <2>3
<1>15. ASSUME PostFirst(w) PROVE Rows1 /\ Schedules /\ Asked
  <2>. DEFINE g == req[w].group
              row == [group |-> g, index |-> 1, period |-> req[w].target, amount |-> Amount(g, 1)]
  <2>1. /\ ledger' = Append(ledger, row) /\ schedule' = schedule /\ pc[w] = "first"
        /\ plan' = plan \/ plan' = [plan EXCEPT ![g].outcome = "failed"]
    BY <1>15 DEF PostFirst
  <2>2. g \in Groups /\ plan[g].outcome = "open" /\ req[w].target \in AnyMonth
    BY <1>1, <2>1, Constants DEF Local, PlanPoint
  <2>3. plan[g].spread \in 2..MaxSpread /\ Plans
    BY <2>2 DEF ProRataInv, TypeInv, Plans
  <2>4. Amount(g, 1) \in Nat /\ 1 \in 1..MaxSpread
    BY <2>2, <2>3, AmountType, Constants
  <2>5. row \in Installment
    BY <2>2, <2>4 DEF Installment
  <2>. QED
    BY <1>3, <1>4, <1>6, <1>7, <2>1, <2>5
<1>16. ASSUME CreateSchedule(w) PROVE Rows1 /\ Schedules /\ Asked
  <2>. DEFINE g == req[w].group
              k == req[w].index
  <2>1. /\ ledger' = ledger /\ pc[w] = "schedule"
        /\ \E new : schedule' = [schedule EXCEPT ![<<g, k>>] = new]
        /\ plan' = plan \/ plan' = [plan EXCEPT ![g].outcome = "created"]
    BY <1>16 DEF CreateSchedule
  <2>2. g \in Groups /\ k \in Nat /\ k >= k
    BY <1>1, <2>1 DEF Local, PlanPoint, Request
  <2>3. \A id \in Ids : id = <<g, k>> => schedule[id].status = "absent"
    BY <2>1, <2>2 DEF ProRataInv, Fresh
  <2>4. Schedules
    BY <1>1, <2>1, <2>3 DEF Schedules
  <2>. QED
    BY <1>2, <1>6, <1>7, <2>1, <2>4
<1>17. ASSUME Handle(w) PROVE Rows1 /\ Schedules /\ Asked
  <2>1. CASE (\E latest \in LatestPeriod, auto \in Currencies : ReadLatest(w, latest, auto))
             \/ CreatePeriod(w) \/ (\E found \in SUBSET Ids : LoadPending(w, found))
             \/ LeaveUnmarked(w) \/ FinishMonth(w)
             \/ (\E covers \in SUBSET Currencies : CaptureSnapshot(w, covers))
    BY <1>2, <1>4, <1>6, <2>1 DEF ReadLatest, CreatePeriod, LoadPending, LeaveUnmarked,
       FinishMonth, CaptureSnapshot
  <2>. QED
    BY <1>11, <1>12, <1>13, <1>14, <1>15, <1>16, <1>17, <2>1 DEF Handle
<1>. QED
  BY <1>8, <1>9, <1>10, <1>17 DEF KeepsParts, Rows1, Schedules, Asked

\* One step of one handler: the installments of the plans it does not write stay,
\* and the one it writes is in its place.
LEMMA PlacedStep ==
  ASSUME ProRataInv, Placed, NEW w \in Workers,
         AskPeriod(w) \/ AskProRata(w) \/ Handle(w) \/ Fail(w)
  PROVE  Placed'
<1>1. /\ pc \in [Workers -> Point] /\ req \in [Workers -> Request] /\ plan \in [Groups -> Plan]
      /\ ledger \in Seq(Installment) /\ schedule \in [Ids -> Schedule]
      /\ \A v \in Workers : Local(v)
      /\ Plans /\ MaxSpread \in Nat
  BY Constants DEF ProRataInv, TypeInv, TypeOK, Locals
<1>2. KeepsParts
  BY PartsAreKept
<1>3. ASSUME NEW g \in Groups, plan[g].outcome = "created" PROVE PlacedUpTo(g, plan[g].spread)'
  <2>. PICK n : n = plan[g].spread
    OBVIOUS
  <2>1. plan'[g].spread = n /\ n \in Nat /\ n <= MaxSpread
    BY <1>1, <1>2, <1>3 DEF KeepsParts, Plans
  <2>2. PlacedUpTo(g, n)'
    BY <1>2, <1>3, <2>1, PlacedStays DEF Placed
  <2>. QED
    BY <2>1, <2>2
<1>4. ASSUME NEW v \in Workers, NEW g, NEW k,
             pc[v] = "schedule", g = req[v].group, k = req[v].index
      PROVE  /\ PlacedUpTo(g, k - 1)'
             /\ g \in Groups /\ plan[g].outcome = "open"
             /\ k \in 2..plan[g].spread /\ <<g, k>> \in Ids
  <2>1. g \in Groups /\ plan[g].outcome = "open" /\ k \in 2..plan[g].spread
    BY <1>1, <1>4 DEF Local, PlanPoint
  <2>2. plan[g].spread \in 2..MaxSpread
    BY <1>1, <2>1 DEF Plans
  <2>3. k - 1 \in Nat /\ k - 1 <= MaxSpread /\ <<g, k>> \in Ids
    BY <1>1, <2>1, <2>2 DEF Ids
  <2>4. PlacedUpTo(g, k - 1)
    BY <1>4 DEF Placed
  <2>. QED
    BY <1>2, <2>1, <2>3, <2>4, PlacedStays
\* The insert of one more schedule.
<1>5. ASSUME CreateSchedule(w), NEW g, NEW k, g = req[w].group, k = req[w].index
      PROVE  PlacedUpTo(g, k)'
  <2>1. /\ pc[w] = "schedule" /\ ledger' = ledger
        /\ schedule' = [schedule EXCEPT ![<<g, k>>] =
             [status |-> "pending", target |-> req[w].cursor,
              amount |-> Amount(g, k), covers |-> req[w].covers]]
    BY <1>5 DEF CreateSchedule
  <2>2. /\ PlacedUpTo(g, k - 1)' /\ g \in Groups /\ plan[g].outcome = "open"
        /\ k \in 2..plan[g].spread /\ <<g, k>> \in Ids
    BY <1>4, <1>5, <2>1
  <2>3. \A j : Amount(g, j)' = Amount(g, j)
    BY <1>2, <2>2 DEF KeepsParts, Amount
  <2>4. schedule'[<<g, k>>].status = "pending" /\ schedule'[<<g, k>>].amount = Amount(g, k)
    BY <1>1, <2>1, <2>2
  <2>5. plan[g].spread \in Nat
    BY <1>1, <2>2 DEF Plans
  <2>6. \A j \in 2..k : j \in 2..(k - 1) \/ j = k
    BY <2>2, <2>5
  <2>. QED
    BY <2>2, <2>3, <2>4, <2>6 DEF PlacedUpTo
\* The first installment.
<1>6. ASSUME PostFirst(w), pc'[w] = "schedule", NEW g, g = req[w].group
      PROVE  PlacedUpTo(g, 1)'
  <2>. DEFINE row == [group |-> g, index |-> 1, period |-> req[w].target, amount |-> Amount(g, 1)]
  <2>1. pc[w] = "first" /\ ledger' = Append(ledger, row) /\ plan' = plan
    BY <1>1, <1>6 DEF PostFirst, Return, Goto
  <2>2. g \in Groups /\ plan[g].outcome = "open" /\ req[w].target \in AnyMonth
    BY <1>1, <1>6, <2>1, Constants DEF Local, PlanPoint
  <2>3. plan[g].spread \in 2..MaxSpread
    BY <1>1, <2>2 DEF Plans
  <2>4. row \in Installment
    BY <1>1, <2>2, <2>3, AmountType DEF Installment
  <2>5. ledger'[Len(ledger) + 1] = row /\ Len(ledger) + 1 \in DOMAIN ledger'
    BY <1>1, <2>1, <2>4, AppendRows
  <2>6. Amount(g, 1)' = Amount(g, 1) /\ \A k \in 2..1 : FALSE
    BY <2>1 DEF Amount
  <2>. QED
    BY <2>5, <2>6 DEF PlacedUpTo
<1>7. \A v \in Workers \ {w} : pc'[v] = pc[v] /\ req'[v] = req[v]
  BY <1>1 DEF AskPeriod, BeginPeriod, AskProRata, BeginProRata, Handle, Fail, ReadLatest,
     CreatePeriod, LoadPending, FailUncovered, PostInstallment, MarkApplied, LeavePending,
     LeaveUnmarked, FinishMonth, CaptureSnapshot, PostFirst, CreateSchedule, Goto, Return
\* Who is about to insert a schedule has just inserted the one before, or posted.
<1>8. ASSUME pc'[w] = "schedule"
      PROVE  PlacedUpTo(req[w].group, req[w].index - 1)'
  <2>. PICK g, k : g = req[w].group /\ k = req[w].index
    OBVIOUS
  <2>1. CASE PostFirst(w)
    <3>1. req'[w].group = g /\ req'[w].index = 2
      BY <1>1, <1>8, <2>1 DEF PostFirst, Return, Goto, Request
    <3>2. PlacedUpTo(g, 1)'
      BY <1>6, <1>8, <2>1
    <3>3. req'[w].index - 1 = 1
      BY <3>1
    <3>. QED
      BY <3>1, <3>2, <3>3
  <2>2. CASE CreateSchedule(w)
    <3>1. req'[w].group = g /\ req'[w].index = k + 1 /\ k \in Nat
      BY <1>1, <1>8, <2>2 DEF CreateSchedule, Return, Goto, Request
    <3>2. PlacedUpTo(g, k)'
      BY <1>5, <2>2
    <3>3. req'[w].index - 1 = k
      BY <3>1
    <3>. QED
      BY <3>1, <3>2, <3>3
  <2>3. CASE ~ PostFirst(w) /\ ~ CreateSchedule(w)
    BY <1>1, <1>8, <2>3 DEF AskPeriod, BeginPeriod, AskProRata, BeginProRata, Handle, Fail, ReadLatest,
     CreatePeriod, LoadPending, FailUncovered, PostInstallment, MarkApplied, LeavePending,
     LeaveUnmarked, FinishMonth, CaptureSnapshot, Goto, Return
  <2>. QED
    BY <2>1, <2>2, <2>3
\* A plan is answered with success when its last schedule is inserted.
<1>9. ASSUME NEW g \in Groups, plan[g].outcome # "created", plan'[g].outcome = "created"
      PROVE  PlacedUpTo(g, plan[g].spread)'
  <2>. PICK k : k = req[w].index
    OBVIOUS
  <2>1. CreateSchedule(w)
    <3>1. ASSUME plan' = plan PROVE FALSE
      BY <1>9, <3>1
    <3>2. CASE AskPeriod(w) \/ AskProRata(w) \/ Fail(w)
      <4>1. CASE AskPeriod(w)
        BY <3>1, <4>1 DEF AskPeriod, BeginPeriod
      <4>2. CASE AskProRata(w)
        <5>0. PICK h \in Groups, m \in Months, total \in Totals, spread \in 2..MaxSpread :
                BeginProRata(w, h, m, total, spread)
          BY <4>2, Zenon DEF AskProRata
        <5>1. plan' = [plan EXCEPT ![h] = [spread |-> spread, total |-> total, outcome |-> "open"]]
          BY <5>0, Zenon DEF BeginProRata
        <5>2. plan'[g] = plan[g] \/ plan'[g].outcome = "open"
          BY <1>1, <5>1
        <5>. QED
          BY <1>9, <5>2
      <4>3. CASE Fail(w)
        <5>1. plan' = [h \in Groups |-> IF h = req[w].group
                                        THEN [plan[h] EXCEPT !.outcome = "failed"] ELSE plan[h]]
          BY <4>3 DEF Fail
        <5>2. plan'[g] = plan[g] \/ plan'[g] = [plan[g] EXCEPT !.outcome = "failed"]
          BY <5>1
        <5>. QED
          BY <1>1, <1>9, <5>2 DEF Plan
      <4>. QED
        BY <3>2, <4>1, <4>2, <4>3
    <3>3. CASE PostFirst(w)
      BY <1>1, <1>9, <3>1, <3>3 DEF PostFirst, Plan
    <3>4. CASE Handle(w) /\ ~ PostFirst(w) /\ ~ CreateSchedule(w)
      BY <3>1, <3>4 DEF Handle, ReadLatest, CreatePeriod, LoadPending, FailUncovered,
         PostInstallment, MarkApplied, LeavePending, LeaveUnmarked, FinishMonth, CaptureSnapshot
    <3>. QED
      BY <3>2, <3>3, <3>4
  <2>2. g = req[w].group /\ k = plan[g].spread
    BY <1>1, <1>9, <2>1 DEF CreateSchedule, Plan
  <2>3. pc[w] = "schedule"
    BY <2>1 DEF CreateSchedule
  <2>4. plan'[g].spread = plan[g].spread
    BY <1>2, <1>4, <2>2, <2>3 DEF KeepsParts
  <2>. QED
    BY <1>5, <2>1, <2>2, <2>4
<1>10. \A g \in Groups : (plan[g].outcome = "created" => PlacedUpTo(g, plan[g].spread))'
  BY <1>3, <1>9
<1>11. \A v \in Workers : (pc[v] = "schedule" => PlacedUpTo(req[v].group, req[v].index - 1))'
  <2>1. ASSUME NEW v \in Workers \ {w}, pc'[v] = "schedule"
        PROVE  PlacedUpTo(req[v].group, req[v].index - 1)'
    <3>. PICK g, k : g = req[v].group /\ k = req[v].index
      OBVIOUS
    <3>1. req'[v].group = g /\ req'[v].index = k /\ pc[v] = "schedule"
      BY <1>7, <2>1
    <3>2. PlacedUpTo(g, k - 1)'
      BY <1>4, <3>1
    <3>. QED
      BY <3>1, <3>2
  <2>. QED
    BY <1>8, <2>1
<1>. QED
  BY <1>10, <1>11 DEF Placed

\* CreateProRataExpense: a plan that was answered with success has its first
\* installment in the ledger and the others in the table, and they make up its
\* total, whatever happened to other requests.
THEOREM CreatedPlansAddUp == Spec => []CreatedPlansAreWhole
<1>1. Init => Placed
  BY DEF Init, Placed
<1>2. ProRataInv /\ Placed /\ [Next]_vars => Placed'
  <2>. SUFFICES ASSUME ProRataInv, Placed, [Next]_vars PROVE Placed'
    OBVIOUS
  <2>1. CASE UNCHANGED vars
    BY <2>1 DEF vars, Placed, PlacedUpTo, Amount
  <2>2. CASE Next
    BY <2>2, PlacedStep DEF Next
  <2>. QED
    BY <2>1, <2>2
<1>. QED
  BY <1>1, <1>2, PlacedIsWhole, ProRataInvInit, ProRataInvNext, PTL DEF Spec
==============================================================================
