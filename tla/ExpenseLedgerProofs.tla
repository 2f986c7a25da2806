------------------------- MODULE ExpenseLedgerProofs -------------------------
(***************************************************************************)
(* Invariance of the expense ledger's types, of SupersededIsRetired and of *)
(* CorrectionInItsPeriod, and RowsOnlyRetire, for any users, keys, workers *)
(* and bounds, with every interleaving, failure and crash of Spec; and for *)
(* SerialSpec OneRowPerKey and the refinement of AtomicLedger.             *)
(***************************************************************************)
EXTENDS ExpenseLedger, SequenceTheorems, TLAPS

\* What a correction or deletion in progress still knows about its target
\* although the ledger may have changed since it was read: the row is there,
\* with the period and the user it was read with (unless erased), and once it
\* was marked it is not active.
TargetKnown(w) ==
  /\ pc[w] = "deactivate" => req[w].target \in DOMAIN ledger
  /\ pc[w] = "mark" => req[w].op = "correct"
  /\ pc[w] # "idle" /\ req[w].op = "correct" =>
       /\ req[w].target \in DOMAIN ledger
       /\ ledger[req[w].target].period = req[w].period
       /\ ledger[req[w].target].user \in {req[w].user, Deleted}
       /\ req[w].now = req[w].period
  /\ pc[w] = "insert" /\ req[w].op = "correct" =>
       ledger[req[w].target].status # "active"

TargetsKnown == \A w \in Workers : TargetKnown(w)

\* The inductive invariant.
LedgerInv == TypeOK /\ TargetsKnown /\ SupersededIsRetired /\ CorrectionInItsPeriod

------------------------------------------------------------------------------
(* The ways a step can treat the rows that are already there.              *)

\* Rows keep their place and what links them; status only leaves "active";
\* the rows of the users in "erased", and no others, become Deleted.
Retires(old, new, erased) ==
  /\ new \in Seq(Row)
  /\ DOMAIN old \subseteq DOMAIN new
  /\ erased \subseteq Users
  /\ \A i \in DOMAIN old :
       new[i].user = IF old[i].user \in erased THEN Deleted ELSE old[i].user
  /\ \A i \in DOMAIN old :
       /\ new[i].corrects = old[i].corrects
       /\ new[i].period = old[i].period
       /\ new[i].created = old[i].created
       /\ old[i].status # "active" => new[i].status # "active"

\* The status of row i set to "corrected".
LEMMA MarkingRetires ==
  ASSUME ledger \in Seq(Row), NEW i \in DOMAIN ledger
  PROVE  LET new == [ledger EXCEPT ![i].status = "corrected"]
         IN /\ Retires(ledger, new, {})
            /\ DOMAIN new = DOMAIN ledger
            /\ new[i].status = "corrected"
<1>. DEFINE new == [ledger EXCEPT ![i].status = "corrected"]
            row == [ledger[i] EXCEPT !.status = "corrected"]
<1>1. ledger[i] \in Row
  BY ElementOfSeq, LenProperties
<1>2. row \in Row
  BY <1>1 DEF Row, Status
<1>3. new = [ledger EXCEPT ![i] = row]
  OBVIOUS
<1>4. /\ new \in Seq(Row)
      /\ Len(new) = Len(ledger)
      /\ \A j \in 1..Len(ledger) : new[j] = IF j = i THEN row ELSE ledger[j]
  BY <1>2, <1>3, ExceptSeq, LenProperties
<1>5. DOMAIN new = 1..Len(ledger) /\ DOMAIN ledger = 1..Len(ledger)
  BY <1>4, LenProperties
<1>6. \A j \in DOMAIN ledger : new[j] = IF j = i THEN row ELSE ledger[j]
  BY <1>4, <1>5
<1>7. /\ row.status = "corrected"
      /\ row.user = ledger[i].user
      /\ row.corrects = ledger[i].corrects
      /\ row.period = ledger[i].period
      /\ row.created = ledger[i].created
  BY <1>1 DEF Row
<1>8. \A j \in DOMAIN ledger :
        new[j].user = IF ledger[j].user \in {} THEN Deleted ELSE ledger[j].user
  BY <1>6, <1>7
<1>10. \A j \in DOMAIN ledger :
         /\ new[j].corrects = ledger[j].corrects
         /\ new[j].period = ledger[j].period
         /\ new[j].created = ledger[j].created
         /\ ledger[j].status # "active" => new[j].status # "active"
  BY <1>6, <1>7
<1>. QED
  BY <1>4, <1>5, <1>6, <1>7, <1>8, <1>10 DEF Retires

\* The redaction of every row of a user.
LEMMA ErasingRetires ==
  ASSUME ledger \in Seq(Row), NEW u \in Users
  PROVE  LET new == [i \in DOMAIN ledger |->
                       IF ledger[i].user = u THEN Redacted(ledger[i]) ELSE ledger[i]]
         IN Retires(ledger, new, {u}) /\ DOMAIN new = DOMAIN ledger
<1>. DEFINE new == [i \in DOMAIN ledger |->
                      IF ledger[i].user = u THEN Redacted(ledger[i]) ELSE ledger[i]]
<1>1. DOMAIN ledger = 1..Len(ledger) /\ Len(ledger) \in Nat
  BY LenProperties
<1>2. \A i \in DOMAIN ledger : ledger[i] \in Row
  BY ElementOfSeq, <1>1
<1>3. \A i \in DOMAIN ledger :
        /\ Redacted(ledger[i]) \in Row
        /\ Redacted(ledger[i]).user = Deleted
        /\ Redacted(ledger[i]).status = "redacted"
        /\ Redacted(ledger[i]).corrects = ledger[i].corrects
        /\ Redacted(ledger[i]).period = ledger[i].period
        /\ Redacted(ledger[i]).created = ledger[i].created
  BY <1>2 DEF Redacted, Row, Status
<1>4. new \in [1..Len(ledger) -> Row]
  BY <1>1, <1>2, <1>3
<1>5. new \in Seq(Row)
  BY <1>1, <1>4, SeqDef
<1>6. \A i \in DOMAIN ledger :
        new[i].user = IF ledger[i].user \in {u} THEN Deleted ELSE ledger[i].user
  BY <1>3
<1>. QED
  BY <1>3, <1>5, <1>6 DEF Retires

\* A row appended at the end.
LEMMA AppendingRetires ==
  ASSUME ledger \in Seq(Row), NEW row \in Row
  PROVE  LET new == Append(ledger, row)
         IN /\ Retires(ledger, new, {})
            /\ DOMAIN new = DOMAIN ledger \cup {Len(ledger) + 1}
            /\ new[Len(ledger) + 1] = row
            /\ \A i \in DOMAIN ledger : new[i] = ledger[i]
<1>. DEFINE new == Append(ledger, row)
<1>1. DOMAIN ledger = 1..Len(ledger) /\ Len(ledger) \in Nat
  BY LenProperties
<1>2. /\ new \in Seq(Row)
      /\ Len(new) = Len(ledger) + 1
      /\ \A i \in 1..Len(ledger) : new[i] = ledger[i]
      /\ new[Len(ledger) + 1] = row
  BY AppendProperties
<1>3. DOMAIN new = 1..(Len(ledger) + 1)
  BY <1>2, LenProperties
<1>4. \A i \in DOMAIN ledger :
        new[i].user = IF ledger[i].user \in {} THEN Deleted ELSE ledger[i].user
  BY <1>1, <1>2
<1>. QED
  BY <1>1, <1>2, <1>3, <1>4 DEF Retires

\* A handler that does not move knows its target as well after such a step.
LEMMA TargetStaysKnown ==
  ASSUME NEW w \in Workers, NEW erased, TypeOK, TargetKnown(w),
         Retires(ledger, ledger', erased),
         pc'[w] = pc[w], req'[w] = req[w]
  PROVE  TargetKnown(w)'
  BY LedgerAssumption DEF TargetKnown, Retires

\* Such a step that adds no row keeps every correction linked to a retired original.
LEMMA LinksStay ==
  ASSUME SupersededIsRetired, CorrectionInItsPeriod,
         NEW erased, Retires(ledger, ledger', erased), DOMAIN ledger' = DOMAIN ledger,
         \A i \in DOMAIN ledger : ledger[i].corrects # 0 => ledger[i].corrects \in DOMAIN ledger
  PROVE  SupersededIsRetired' /\ CorrectionInItsPeriod'
  BY LedgerAssumption DEF SupersededIsRetired, CorrectionInItsPeriod, Retires

\* The original of a correction is a row of the ledger.
LEMMA OriginalExists ==
  ASSUME TypeOK, SupersededIsRetired
  PROVE  \A i \in DOMAIN ledger :
           ledger[i].corrects # 0 => ledger[i].corrects \in DOMAIN ledger
<1>1. DOMAIN ledger = 1..Len(ledger) /\ Len(ledger) \in Nat
  BY LenProperties DEF TypeOK
<1>2. \A i \in DOMAIN ledger : ledger[i] \in Row
  BY <1>1, ElementOfSeq DEF TypeOK
<1>3. \A i \in DOMAIN ledger : ledger[i].corrects \in Nat
  BY <1>2 DEF Row
<1>. QED
  BY <1>1, <1>3 DEF SupersededIsRetired

------------------------------------------------------------------------------
\* The empty table and idle handlers.
LEMMA LedgerInvInit == Init => LedgerInv
<1>. SUFFICES ASSUME Init PROVE LedgerInv
  OBVIOUS
<1>1. NoRequest \in Request
  BY LedgerAssumption DEF NoRequest, Request, Months
<1>2. TypeOK
  BY <1>1, LedgerAssumption, EmptySeq DEF Init, TypeOK, Months, Point
<1>. QED
  BY <1>2 DEF Init, LedgerInv, TargetsKnown, TargetKnown, SupersededIsRetired,
              CorrectionInItsPeriod


\* Setting one local of a request keeps its type.
LEMMA SetLocal ==
  ASSUME NEW r \in Request, NEW n \in Months, NEW amount \in Nat
  PROVE  /\ [r EXCEPT !.now = n] \in Request
         /\ [r EXCEPT !.reporting = amount] \in Request
  BY DEF Request

\* Starting a request: the target was just read.
LEMMA BeginPreserves ==
  ASSUME LedgerInv, NEW w \in Workers, NEW point \in Point, NEW r \in Request,
         Begin(w, point, r),
         point # "mark" /\ point # "insert",
         point = "deactivate" => r.target \in DOMAIN ledger,
         r.op = "correct" => /\ r.target \in DOMAIN ledger
                             /\ ledger[r.target].period = r.period
                             /\ ledger[r.target].user = r.user
                             /\ r.now = r.period
  PROVE  LedgerInv'
<1>1. TypeOK'
  BY DEF LedgerInv, TypeOK, Begin
<1>2. ASSUME NEW v \in Workers PROVE TargetKnown(v)'
  BY DEF LedgerInv, TargetsKnown, TargetKnown, TypeOK, Begin
<1>3. SupersededIsRetired' /\ CorrectionInItsPeriod'
  BY DEF LedgerInv, SupersededIsRetired, CorrectionInItsPeriod, Begin
<1>. QED
  BY <1>1, <1>2, <1>3 DEF LedgerInv, TargetsKnown

\* Returning from a handler, whatever it did to rows that are already there.
LEMMA ReturnPreserves ==
  ASSUME LedgerInv, NEW w \in Workers, Return(w), month' \in Months,
         NEW erased, Retires(ledger, ledger', erased),
         SupersededIsRetired', CorrectionInItsPeriod'
  PROVE  LedgerInv'
<1>1. NoRequest \in Request
  BY LedgerAssumption DEF NoRequest, Request, Months
<1>2. TypeOK'
  BY <1>1 DEF LedgerInv, TypeOK, Return, Retires, Point
<1>3. ASSUME NEW v \in Workers PROVE TargetKnown(v)'
  <2>1. CASE v = w
    BY <2>1 DEF Return, LedgerInv, TypeOK, TargetKnown
  <2>2. CASE v # w
    BY <2>2, TargetStaysKnown DEF Return, LedgerInv, TypeOK, TargetsKnown
  <2>. QED
    BY <2>1, <2>2
<1>. QED
  BY <1>2, <1>3 DEF LedgerInv, TargetsKnown

\* A ledger that does not change retires nothing.
LEMMA Unchanged ==
  ASSUME TypeOK, ledger' = ledger
  PROVE  Retires(ledger, ledger', {})
  BY DEF TypeOK, Retires

------------------------------------------------------------------------------
\* LedgerInv is inductive: every step of a handler, erasure and clock keeps it.
LEMMA LedgerInvNext ==
  ASSUME LedgerInv, [Next]_vars
  PROVE  LedgerInv'
<1>1. DOMAIN ledger = 1..Len(ledger) /\ Len(ledger) \in Nat
  BY LenProperties DEF LedgerInv, TypeOK
<1>2. \A i \in DOMAIN ledger : ledger[i] \in Row
  BY <1>1, ElementOfSeq DEF LedgerInv, TypeOK
<1>3. \A i \in DOMAIN ledger :
        ledger[i].corrects # 0 => ledger[i].corrects \in DOMAIN ledger
  BY OriginalExists DEF LedgerInv
<1>4. ASSUME NEW w \in Workers, NEW u \in Users, NEW k \in Keys, NEW p \in Months,
             BeginCreate(w, u, k, p)
      PROVE  LedgerInv'
  <2>. DEFINE r == [op |-> "create", user |-> u, key |-> k, target |-> 0,
                    period |-> p, now |-> month, reporting |-> 0]
  <2>1. r \in Request /\ r.op = "create"
    BY DEF Request, LedgerInv, TypeOK
  <2>2. Begin(w, "lookup", r)
    BY <1>4 DEF BeginCreate
  <2>. HIDE DEF r
  <2>. QED
    BY <2>1, <2>2, BeginPreserves DEF Point
<1>5. ASSUME NEW w \in Workers, NEW u \in Users, NEW p \in Months,
             BeginInstallment(w, u, p)
      PROVE  LedgerInv'
  <2>. DEFINE r == [op |-> "installment", user |-> u, key |-> NoKey, target |-> 0,
                    period |-> p, now |-> month, reporting |-> 0]
  <2>1. r \in Request /\ r.op = "installment"
    BY DEF Request, LedgerInv, TypeOK
  <2>2. Begin(w, "convert", r)
    BY <1>5 DEF BeginInstallment
  <2>. HIDE DEF r
  <2>. QED
    BY <2>1, <2>2, BeginPreserves DEF Point
<1>6. ASSUME NEW w \in Workers, NEW u \in Users, NEW i \in DOMAIN ledger,
             BeginCorrect(w, u, i)
      PROVE  LedgerInv'
  <2>. DEFINE r == [op |-> "correct", user |-> u, key |-> NoKey, target |-> i,
                    period |-> ledger[i].period, now |-> month, reporting |-> 0]
  <2>1. ledger[i].period \in Months
    BY <1>2 DEF Row
  <2>2. /\ r \in Request /\ r.op = "correct" /\ r.target = i
        /\ r.period = ledger[i].period /\ r.user = u /\ r.now = month
    BY <1>1, <2>1 DEF Request, LedgerInv, TypeOK
  <2>3. /\ Begin(w, "period", r)
        /\ ledger[i].user = u /\ ledger[i].period = month
    BY <1>6 DEF BeginCorrect, Changeable, PeriodOpen
  <2>. HIDE DEF r
  <2>. QED
    BY <2>2, <2>3, BeginPreserves DEF Point
<1>7. ASSUME NEW w \in Workers, NEW u \in Users, NEW i \in DOMAIN ledger,
             BeginDelete(w, u, i)
      PROVE  LedgerInv'
  <2>. DEFINE r == [op |-> "delete", user |-> u, key |-> NoKey, target |-> i,
                    period |-> ledger[i].period, now |-> month, reporting |-> 0]
  <2>1. ledger[i].period \in Months
    BY <1>2 DEF Row
  <2>2. r \in Request /\ r.op = "delete" /\ r.target = i
    BY <1>1, <2>1 DEF Request, LedgerInv, TypeOK
  <2>3. Begin(w, "deactivate", r)
    BY <1>7 DEF BeginDelete
  <2>. HIDE DEF r
  <2>. QED
    BY <2>2, <2>3, BeginPreserves DEF Point
<1>8. ASSUME NEW w \in Workers, Replay(w) PROVE LedgerInv'
  BY <1>8, Unchanged, ReturnPreserves
     DEF Replay, LedgerInv, TypeOK, SupersededIsRetired, CorrectionInItsPeriod
<1>9. ASSUME NEW w \in Workers, Fail(w) PROVE LedgerInv'
  BY <1>9, Unchanged, ReturnPreserves
     DEF Fail, AfterFailure, LedgerInv, TypeOK, SupersededIsRetired, CorrectionInItsPeriod
<1>10. ASSUME NEW w \in Workers, NoReplay(w) \/ LoadPeriod(w) PROVE LedgerInv'
  <2>. DEFINE n == IF req[w].op = "create" THEN month ELSE req[w].now
  <2>0. n \in Months /\ [req[w] EXCEPT !.now = n] \in Request
    <3>1. req[w] \in Request /\ req[w].now \in Months /\ month \in Months
      BY DEF LedgerInv, TypeOK, Request
    <3>. QED
      BY <3>1, SetLocal
  <2>1. TypeOK'
    <3>1. req' \in [Workers -> Request]
      BY <1>10, <2>0 DEF NoReplay, LoadPeriod, LedgerInv, TypeOK
    <3>. QED
      BY <1>10, <3>1 DEF NoReplay, LoadPeriod, LedgerInv, TypeOK, Point
  <2>2. ASSUME NEW v \in Workers PROVE TargetKnown(v)'
    BY <1>10 DEF NoReplay, LoadPeriod, LedgerInv, TypeOK, TargetsKnown, TargetKnown, Request
  <2>3. SupersededIsRetired' /\ CorrectionInItsPeriod'
    BY <1>10 DEF NoReplay, LoadPeriod, LedgerInv, SupersededIsRetired, CorrectionInItsPeriod
  <2>. QED
    BY <2>1, <2>2, <2>3 DEF LedgerInv, TargetsKnown
<1>11. ASSUME NEW w \in Workers, NEW amount \in Converted \cup {1}, Convert(w, amount)
       PROVE  LedgerInv'
  <2>1. TypeOK'
    <3>1. amount \in Nat
      BY LedgerAssumption
    <3>2. [req[w] EXCEPT !.reporting = amount] \in Request
      BY <3>1, SetLocal, LedgerAssumption DEF LedgerInv, TypeOK, Months
    <3>3. req' \in [Workers -> Request]
      BY <1>11, <3>2 DEF Convert, LedgerInv, TypeOK
    <3>. QED
      BY <1>11, <3>3 DEF Convert, AfterConvert, LedgerInv, TypeOK, Point
  <2>2. ASSUME NEW v \in Workers PROVE TargetKnown(v)'
    BY <1>11 DEF Convert, AfterConvert, LedgerInv, TypeOK, TargetsKnown, TargetKnown, Request
  <2>3. SupersededIsRetired' /\ CorrectionInItsPeriod'
    BY <1>11 DEF Convert, LedgerInv, SupersededIsRetired, CorrectionInItsPeriod
  <2>. QED
    BY <2>1, <2>2, <2>3 DEF LedgerInv, TargetsKnown
<1>12. ASSUME NEW w \in Workers, MarkCorrected(w) PROVE LedgerInv'
  <2>. DEFINE t == req[w].target
  <2>1. t \in DOMAIN ledger /\ req[w].op = "correct"
    BY <1>12 DEF MarkCorrected, LedgerInv, TargetsKnown, TargetKnown
  <2>2. /\ Retires(ledger, ledger', {})
        /\ DOMAIN ledger' = DOMAIN ledger
        /\ ledger'[t].status = "corrected"
    BY <1>12, <2>1, MarkingRetires DEF MarkCorrected, LedgerInv, TypeOK
  <2>3. TypeOK'
    BY <1>12, <2>2 DEF MarkCorrected, LedgerInv, TypeOK, Point, Retires
  <2>4. ASSUME NEW v \in Workers PROVE TargetKnown(v)'
    <3>1. CASE v # w
      BY <1>12, <2>2, <3>1, TargetStaysKnown
         DEF MarkCorrected, LedgerInv, TypeOK, TargetsKnown
    <3>2. CASE v = w
      <4>1. /\ ledger[t].period = req[w].period
            /\ ledger[t].user \in {req[w].user, Deleted}
            /\ req[w].now = req[w].period
        BY <1>12, <2>1 DEF MarkCorrected, LedgerInv, TargetsKnown, TargetKnown
      <4>2. pc'[w] = "insert" /\ req' = req
        BY <1>12 DEF MarkCorrected, LedgerInv, TypeOK
      <4>3. /\ ledger'[t].period = ledger[t].period
            /\ ledger'[t].user = ledger[t].user
        BY <2>1, <2>2 DEF Retires
      <4>. QED
        BY <2>1, <2>2, <3>2, <4>1, <4>2, <4>3 DEF TargetKnown
    <3>. QED
      BY <3>1, <3>2
  <2>5. SupersededIsRetired' /\ CorrectionInItsPeriod'
    BY <1>3, <2>2, LinksStay DEF LedgerInv
  <2>. QED
    BY <2>3, <2>4, <2>5 DEF LedgerInv, TargetsKnown
<1>13. ASSUME NEW w \in Workers, Deactivate(w) PROVE LedgerInv'
  <2>1. req[w].target \in DOMAIN ledger
    BY <1>13 DEF Deactivate, LedgerInv, TargetsKnown, TargetKnown
  <2>2. Retires(ledger, ledger', {}) /\ DOMAIN ledger' = DOMAIN ledger
    BY <1>13, <2>1, MarkingRetires, Unchanged DEF Deactivate, LedgerInv, TypeOK
  <2>. QED
    BY <1>3, <1>13, <2>2, LinksStay, ReturnPreserves DEF Deactivate, LedgerInv, TypeOK
<1>14. ASSUME NEW w \in Workers, InsertRow(w) PROVE LedgerInv'
  <2>. DEFINE row == NewRow(req[w])
              n == Len(ledger) + 1
  <2>1. row \in Row
    BY LedgerAssumption DEF NewRow, Row, LedgerInv, TypeOK, Request, Status
  <2>2. /\ Retires(ledger, ledger', {})
        /\ DOMAIN ledger' = DOMAIN ledger \cup {n}
        /\ ledger'[n] = row
        /\ \A i \in DOMAIN ledger : ledger'[i] = ledger[i]
    BY <1>14, <2>1, AppendingRetires DEF InsertRow, LedgerInv, TypeOK
  <2>3. row.corrects # 0 =>
          /\ row.corrects \in DOMAIN ledger
          /\ ledger[row.corrects].status # "active"
          /\ ledger[row.corrects].period = row.period
          /\ ledger[row.corrects].user \in {row.user, Deleted}
          /\ row.created = row.period
    BY <1>14 DEF InsertRow, NewRow, LedgerInv, TargetsKnown, TargetKnown
  <2>. HIDE DEF row
  <2>4. SupersededIsRetired'
    BY <1>1, <1>3, <2>2, <2>3 DEF LedgerInv, SupersededIsRetired
  <2>5. CorrectionInItsPeriod'
    BY <2>2, <2>3 DEF LedgerInv, CorrectionInItsPeriod
  <2>. QED
    BY <1>14, <2>2, <2>4, <2>5, ReturnPreserves DEF InsertRow, LedgerInv, TypeOK
<1>15. ASSUME NEW u \in Users, AnonymizeAllUserExpenses(u) PROVE LedgerInv'
  <2>1. Retires(ledger, ledger', {u}) /\ DOMAIN ledger' = DOMAIN ledger
    BY <1>15, ErasingRetires DEF AnonymizeAllUserExpenses, LedgerInv, TypeOK
  <2>2. TypeOK'
    BY <1>15, <2>1 DEF AnonymizeAllUserExpenses, LedgerInv, TypeOK, Retires
  <2>3. ASSUME NEW v \in Workers PROVE TargetKnown(v)'
    BY <1>15, <2>1, TargetStaysKnown DEF AnonymizeAllUserExpenses, LedgerInv, TargetsKnown
  <2>4. SupersededIsRetired' /\ CorrectionInItsPeriod'
    BY <1>3, <2>1, LinksStay DEF LedgerInv
  <2>. QED
    BY <2>2, <2>3, <2>4 DEF LedgerInv, TargetsKnown
<1>16. ASSUME NextMonth \/ UNCHANGED vars PROVE LedgerInv'
  <2>1. TypeOK'
    BY <1>16, LedgerAssumption DEF NextMonth, vars, LedgerInv, TypeOK, Months
  <2>2. ASSUME NEW v \in Workers PROVE TargetKnown(v)'
    BY <1>16 DEF NextMonth, vars, LedgerInv, TargetsKnown, TargetKnown
  <2>3. SupersededIsRetired' /\ CorrectionInItsPeriod'
    BY <1>16 DEF NextMonth, vars, LedgerInv, SupersededIsRetired, CorrectionInItsPeriod
  <2>. QED
    BY <2>1, <2>2, <2>3 DEF LedgerInv, TargetsKnown
<1>17. ASSUME NEW w \in Workers, Step(w) PROVE LedgerInv'
  BY <1>4, <1>5, <1>6, <1>7, <1>8, <1>9, <1>10, <1>11, <1>12, <1>13, <1>14, <1>17 DEF Step
<1>. QED
  BY <1>15, <1>16, <1>17 DEF Next

------------------------------------------------------------------------------
\* Every reachable state of every instance is well typed: no interleaving of
\* handlers leaves a row, or a handler's locals, outside what the table and
\* the code declare.
THEOREM LedgerTypes == Spec => []TypeOK
<1>1. LedgerInv /\ [Next]_vars => LedgerInv'
  BY LedgerInvNext
<1>2. LedgerInv => TypeOK
  BY DEF LedgerInv
<1>. QED
  BY <1>1, <1>2, LedgerInvInit, PTL DEF Spec

\* A row that was corrected stays retired, however correction, deletion,
\* erasure, failure and crash of any number of handlers interleave.
THEOREM SupersededRowsStayRetired == Spec => []SupersededIsRetired
<1>1. LedgerInv /\ [Next]_vars => LedgerInv'
  BY LedgerInvNext
<1>2. LedgerInv => SupersededIsRetired
  BY DEF LedgerInv
<1>. QED
  BY <1>1, <1>2, LedgerInvInit, PTL DEF Spec

\* The period lock leaves no correction dated outside its period.
THEOREM CorrectionsKeepTheirPeriod == Spec => []CorrectionInItsPeriod
<1>1. LedgerInv /\ [Next]_vars => LedgerInv'
  BY LedgerInvNext
<1>2. LedgerInv => CorrectionInItsPeriod
  BY DEF LedgerInv
<1>. QED
  BY <1>1, <1>2, LedgerInvInit, PTL DEF Spec
------------------------------------------------------------------------------
(* RowsOnlyRetire.                                                         *)

\* The table "new" keeps the rows of "old", each as it was, retired or redacted.
KeepsRows(old, new) ==
  /\ Len(new) >= Len(old)
  /\ \A i \in DOMAIN old :
       /\ old[i].status # "active" => new[i].status # "active"
       /\ \/ [new[i] EXCEPT !.status = "active"] = [old[i] EXCEPT !.status = "active"]
          \/ new[i] = Redacted(old[i])

\* The two UPDATEs of the status, the INSERT, and the UPDATE of the erasure.
LEMMA StatementsKeepRows ==
  ASSUME ledger \in Seq(Row)
  PROVE  /\ KeepsRows(ledger, ledger)
         /\ \A i \in DOMAIN ledger : KeepsRows(ledger, [ledger EXCEPT ![i].status = "corrected"])
         /\ \A row \in Row : KeepsRows(ledger, Append(ledger, row))
         /\ \A u \in Users :
              KeepsRows(ledger, [i \in DOMAIN ledger |->
                                   IF ledger[i].user = u THEN Redacted(ledger[i]) ELSE ledger[i]])
<1>1. DOMAIN ledger = 1..Len(ledger) /\ Len(ledger) \in Nat
  BY LenProperties
<1>2. \A i \in DOMAIN ledger : ledger[i] \in Row
  BY <1>1, ElementOfSeq
<1>3. KeepsRows(ledger, ledger)
  BY <1>1 DEF KeepsRows
<1>4. ASSUME NEW i \in DOMAIN ledger
      PROVE  KeepsRows(ledger, [ledger EXCEPT ![i].status = "corrected"])
  <2>. DEFINE row == [ledger[i] EXCEPT !.status = "corrected"]
              new == [ledger EXCEPT ![i] = row]
  <2>1. row \in Row /\ row.status = "corrected"
    BY <1>2 DEF Row, Status
  <2>2. /\ Len(new) = Len(ledger)
        /\ \A j \in 1..Len(ledger) : new[j] = IF j = i THEN row ELSE ledger[j]
    BY <1>1, <2>1, ExceptSeq
  <2>3. [row EXCEPT !.status = "active"] = [ledger[i] EXCEPT !.status = "active"]
    BY <1>2 DEF Row
  <2>. QED
    BY <1>1, <2>1, <2>2, <2>3 DEF KeepsRows
<1>5. ASSUME NEW row \in Row
      PROVE  KeepsRows(ledger, Append(ledger, row))
  <2>1. /\ Len(Append(ledger, row)) = Len(ledger) + 1
        /\ \A j \in 1..Len(ledger) : Append(ledger, row)[j] = ledger[j]
    BY AppendProperties
  <2>. QED
    BY <1>1, <2>1 DEF KeepsRows
<1>6. ASSUME NEW u \in Users
      PROVE  KeepsRows(ledger, [i \in DOMAIN ledger |->
                                  IF ledger[i].user = u THEN Redacted(ledger[i]) ELSE ledger[i]])
  <2>. DEFINE new == [i \in DOMAIN ledger |->
                        IF ledger[i].user = u THEN Redacted(ledger[i]) ELSE ledger[i]]
  <2>1. new \in Seq(Row) /\ DOMAIN new = DOMAIN ledger
    BY ErasingRetires DEF Retires
  <2>2. Len(new) = Len(ledger)
    BY <1>1, <2>1, LenProperties
  <2>3. \A i \in DOMAIN ledger : Redacted(ledger[i]).status = "redacted"
    BY <1>2 DEF Redacted, Row
  <2>. QED
    BY <1>1, <2>2, <2>3 DEF KeepsRows
<1>. QED
  BY <1>3, <1>4, <1>5, <1>6

LEMMA RetireStep == LedgerInv /\ [Next]_vars => KeepsRows(ledger, ledger')
<1>. SUFFICES ASSUME LedgerInv, [Next]_vars PROVE KeepsRows(ledger, ledger')
  OBVIOUS
<1>1. ledger \in Seq(Row) /\ req \in [Workers -> Request]
  BY DEF LedgerInv, TypeOK
<1>2. CASE UNCHANGED ledger
  BY <1>1, <1>2, StatementsKeepRows
<1>3. ASSUME NEW w \in Workers, MarkCorrected(w) PROVE KeepsRows(ledger, ledger')
  <2>1. req[w].target \in DOMAIN ledger
    BY <1>3 DEF MarkCorrected, LedgerInv, TargetsKnown, TargetKnown
  <2>. QED
    BY <1>1, <1>3, <2>1, StatementsKeepRows DEF MarkCorrected
<1>4. ASSUME NEW w \in Workers, InsertRow(w) PROVE KeepsRows(ledger, ledger')
  <2>1. NewRow(req[w]) \in Row
    BY <1>1 DEF NewRow, Row, Request, Status
  <2>. QED
    BY <1>1, <1>4, <2>1, StatementsKeepRows DEF InsertRow
<1>5. ASSUME NEW w \in Workers, Deactivate(w) PROVE KeepsRows(ledger, ledger')
  <2>1. req[w].target \in DOMAIN ledger
    BY <1>5 DEF Deactivate, LedgerInv, TargetsKnown, TargetKnown
  <2>. QED
    BY <1>1, <1>5, <2>1, StatementsKeepRows DEF Deactivate
<1>6. ASSUME NEW u \in Users, AnonymizeAllUserExpenses(u) PROVE KeepsRows(ledger, ledger')
  BY <1>1, <1>6, StatementsKeepRows DEF AnonymizeAllUserExpenses
<1>. QED
  BY <1>2, <1>3, <1>4, <1>5, <1>6
     DEF Next, Step, vars, Begin, BeginCreate, BeginInstallment, BeginCorrect, BeginDelete,
         Replay, NoReplay, LoadPeriod, Convert, Fail, AfterFailure, NextMonth

\* immudb keeps every version of a row; the service's statements keep every row
\* but for its status and its redaction, in every interleaving.
THEOREM LedgerRowsOnlyRetire == Spec => RowsOnlyRetire
<1>1. LedgerInv /\ [Next]_vars => [KeepsRows(ledger, ledger')]_vars
  BY RetireStep
<1>. QED
  BY <1>1, LedgerInvInit, LedgerInvNext, PTL DEF Spec, RowsOnlyRetire, KeepsRows
------------------------------------------------------------------------------
(* OneRowPerKey, under the premise of SerialSpec.                          *)

\* A create that has passed its lookup still finds no row of its key, as no
\* other request of its user runs; only creates bring keys.
KeysFree ==
  \A w \in Workers : pc[w] # "idle" =>
    /\ req[w].user \in Users
    /\ req[w].op # "create" => req[w].key = NoKey
    /\ pc[w] # "lookup" /\ req[w].op = "create" => Matches(req[w].user, req[w].key) = {}

SerialInv == LedgerInv /\ Serial /\ KeysFree /\ OneRowPerKey

\* A table of the same rows, some of which have become Deleted.
SameKeys(old, new) ==
  /\ DOMAIN new = DOMAIN old
  /\ \A i \in DOMAIN old : new[i].key = old[i].key /\ new[i].user \in {old[i].user, Deleted}

\* The UPDATEs change no key, and give a row to nobody but Deleted.
LEMMA UpdatesKeepKeys ==
  ASSUME ledger \in Seq(Row)
  PROVE  /\ \A i \in DOMAIN ledger : SameKeys(ledger, [ledger EXCEPT ![i].status = "corrected"])
         /\ \A u \in Users :
              SameKeys(ledger, [i \in DOMAIN ledger |->
                                  IF ledger[i].user = u THEN Redacted(ledger[i]) ELSE ledger[i]])
<1>1. \A i \in DOMAIN ledger : ledger[i] \in Row
  BY ElementOfSeq, LenProperties
<1>2. ASSUME NEW i \in DOMAIN ledger
      PROVE  SameKeys(ledger, [ledger EXCEPT ![i].status = "corrected"])
  <2>. DEFINE row == [ledger[i] EXCEPT !.status = "corrected"]
              new == [ledger EXCEPT ![i] = row]
  <2>1. row.key = ledger[i].key /\ row.user = ledger[i].user
    BY <1>1 DEF Row
  <2>2. DOMAIN new = DOMAIN ledger /\ \A j \in DOMAIN ledger : new[j] = IF j = i THEN row ELSE ledger[j]
    OBVIOUS
  <2>. QED
    BY <2>1, <2>2 DEF SameKeys
<1>3. \A i \in DOMAIN ledger :
        Redacted(ledger[i]).key = ledger[i].key /\ Redacted(ledger[i]).user = Deleted
  BY <1>1 DEF Redacted, Row
<1>. QED
  BY <1>2, <1>3 DEF SameKeys

\* After such an UPDATE no user has a row of a key they had none of before, and
\* no two.
LEMMA SameKeysStayFree ==
  ASSUME SameKeys(ledger, ledger'), NEW u \in Users, NEW k
  PROVE  /\ Matches(u, k) = {} => Matches(u, k)' = {}
         /\ OneRowPerKey => OneRowPerKey'
<1>1. u # Deleted
  BY LedgerAssumption
<1>2. \A i \in DOMAIN ledger' : ledger'[i].user = u => ledger[i].user = u
  BY <1>1 DEF SameKeys
<1>. QED
  BY <1>1, <1>2 DEF SameKeys, Matches, OneRowPerKey

LEMMA SerialInvInit == Init => SerialInv
<1>. SUFFICES ASSUME Init PROVE SerialInv
  OBVIOUS
<1>1. LedgerInv
  BY LedgerInvInit
<1>2. Serial /\ KeysFree
  BY DEF Init, Serial, Busy, KeysFree
<1>3. OneRowPerKey
  BY DEF Init, OneRowPerKey
<1>. QED
  BY <1>1, <1>2, <1>3 DEF SerialInv

\* A step that starts a request.
LEMMA BeginKeepsKeys ==
  ASSUME SerialInv, NEW w \in Workers, NEW r, NEW point, Begin(w, point, r),
         r.user \in Users, r.op # "create" => r.key = NoKey,
         r.op = "create" => point = "lookup"
  PROVE  KeysFree' /\ OneRowPerKey'
BY DEF SerialInv, LedgerInv, TypeOK, KeysFree, OneRowPerKey, Matches, Begin

\* A step that ends a request without a new row.
LEMMA ReturnKeepsKeys ==
  ASSUME SerialInv, NEW w \in Workers, Return(w), SameKeys(ledger, ledger')
  PROVE  KeysFree' /\ OneRowPerKey'
<1>1. ASSUME NEW x \in Workers, x # w PROVE pc'[x] = pc[x] /\ req'[x] = req[x]
  BY <1>1 DEF Return, SerialInv, LedgerInv, TypeOK
<1>2. pc'[w] = "idle"
  BY DEF Return, SerialInv, LedgerInv, TypeOK
<1>3. KeysFree'
  BY <1>1, <1>2, SameKeysStayFree DEF SerialInv, KeysFree
<1>4. OneRowPerKey'
  BY LedgerAssumption DEF SerialInv, OneRowPerKey, SameKeys
<1>. QED
  BY <1>3, <1>4

\* The INSERT of a request.
LEMMA InsertKeepsKeys ==
  ASSUME SerialInv, NEW w \in Workers, InsertRow(w)
  PROVE  KeysFree' /\ OneRowPerKey'
<1>. DEFINE row == NewRow(req[w])
            n == Len(ledger) + 1
<1>1. /\ ledger \in Seq(Row) /\ req[w] \in Request /\ pc[w] = "insert"
      /\ pc \in [Workers -> Point] /\ req \in [Workers -> Request]
  BY DEF SerialInv, LedgerInv, TypeOK, InsertRow
<1>2. row \in Row /\ row.user = req[w].user /\ row.key = req[w].key
  BY <1>1 DEF NewRow, Row, Request, Status
<1>3. /\ DOMAIN ledger' = DOMAIN ledger \cup {n}
      /\ ledger'[n] = row
      /\ \A i \in DOMAIN ledger : ledger'[i] = ledger[i]
  BY <1>1, <1>2, AppendingRetires DEF InsertRow
<1>4. row.key # NoKey => Matches(row.user, row.key) = {}
  BY <1>1, <1>2 DEF SerialInv, KeysFree
<1>5. OneRowPerKey'
  BY <1>3, <1>4 DEF SerialInv, OneRowPerKey, Matches
<1>6. ASSUME NEW x \in Workers, pc'[x] # "idle"
      PROVE  /\ pc'[x] = pc[x] /\ req'[x] = req[x]
             /\ req[x].user # row.user
  <2>1. x # w
    BY <1>1, <1>6 DEF InsertRow, Return
  <2>2. pc'[x] = pc[x] /\ req'[x] = req[x]
    BY <1>1, <2>1 DEF InsertRow, Return
  <2>3. req[w].user \in Users
    BY <1>1 DEF SerialInv, KeysFree
  <2>. QED
    BY <1>1, <1>2, <1>6, <2>1, <2>2, <2>3 DEF SerialInv, Serial, Busy
<1>7. KeysFree'
  BY <1>3, <1>6 DEF SerialInv, KeysFree, Matches
<1>. QED
  BY <1>5, <1>7

LEMMA SerialInvNext == SerialInv /\ [SerialNext]_vars => SerialInv'
<1>. SUFFICES ASSUME SerialInv, [SerialNext]_vars PROVE SerialInv'
  OBVIOUS
<1>1. /\ ledger \in Seq(Row) /\ req \in [Workers -> Request] /\ pc \in [Workers -> Point]
      /\ TargetsKnown
  BY DEF SerialInv, LedgerInv, TypeOK
<1>2. LedgerInv'
  BY LedgerInvNext DEF SerialInv, SerialNext, Next
<1>3. Serial'
  BY DEF SerialInv, SerialNext, AnonymizeAllUserExpenses, NextMonth, vars, Serial, Busy
<1>4. SameKeys(ledger, ledger)
  BY DEF SameKeys
<1>5. ASSUME NEW w \in Workers, Step(w) PROVE KeysFree' /\ OneRowPerKey'
  <2>1. ASSUME NEW u \in Users, NEW k \in Keys, NEW p \in Months, BeginCreate(w, u, k, p)
        PROVE  KeysFree' /\ OneRowPerKey'
    BY <2>1, BeginKeepsKeys DEF BeginCreate
  <2>2. ASSUME NEW u \in Users, NEW p \in Months, BeginInstallment(w, u, p)
        PROVE  KeysFree' /\ OneRowPerKey'
    BY <2>2, BeginKeepsKeys DEF BeginInstallment
  <2>3. ASSUME NEW u \in Users, NEW i \in DOMAIN ledger, BeginCorrect(w, u, i) \/ BeginDelete(w, u, i)
        PROVE  KeysFree' /\ OneRowPerKey'
    BY <2>3, BeginKeepsKeys DEF BeginCorrect, BeginDelete
  <2>4. ASSUME Replay(w) \/ Fail(w) PROVE KeysFree' /\ OneRowPerKey'
    BY <1>4, <2>4, ReturnKeepsKeys DEF Replay, Fail, AfterFailure
  <2>5. CASE NoReplay(w)
    BY <1>1, <2>5 DEF NoReplay, SerialInv, KeysFree, OneRowPerKey, Matches
  <2>6. ASSUME NEW amount, LoadPeriod(w) \/ Convert(w, amount) PROVE KeysFree' /\ OneRowPerKey'
    <3>1. /\ ledger' = ledger
          /\ pc[w] \in {"period", "convert"}
          /\ req'[w].user = req[w].user /\ req'[w].key = req[w].key /\ req'[w].op = req[w].op
          /\ \A x \in Workers : x # w => pc'[x] = pc[x] /\ req'[x] = req[x]
      BY <1>1, <2>6 DEF LoadPeriod, Convert, Request
    <3>. QED
      BY <3>1 DEF SerialInv, KeysFree, OneRowPerKey, Matches
  <2>7. CASE MarkCorrected(w)
    <3>1. /\ req[w].target \in DOMAIN ledger /\ req[w].op = "correct"
          /\ pc[w] = "mark" /\ pc' = [pc EXCEPT ![w] = "insert"] /\ req' = req
      BY <1>1, <2>7 DEF MarkCorrected, TargetsKnown, TargetKnown
    <3>2. SameKeys(ledger, ledger')
      BY <1>1, <2>7, <3>1, UpdatesKeepKeys DEF MarkCorrected
    <3>3. KeysFree'
      BY <1>1, <3>1, <3>2, SameKeysStayFree DEF SerialInv, KeysFree
    <3>4. OneRowPerKey'
      BY <3>2, LedgerAssumption DEF SerialInv, OneRowPerKey, SameKeys
    <3>. QED
      BY <3>3, <3>4
  <2>8. CASE InsertRow(w)
    BY <2>8, InsertKeepsKeys
  <2>9. CASE Deactivate(w)
    <3>1. req[w].target \in DOMAIN ledger
      BY <1>1, <2>9 DEF Deactivate, TargetsKnown, TargetKnown
    <3>2. SameKeys(ledger, ledger') /\ Return(w)
      BY <1>1, <1>4, <2>9, <3>1, UpdatesKeepKeys DEF Deactivate
    <3>. QED
      BY <3>2, ReturnKeepsKeys
  <2>. QED
    BY <1>5, <2>1, <2>2, <2>3, <2>4, <2>5, <2>6, <2>7, <2>8, <2>9 DEF Step
<1>6. ASSUME NEW u \in Users, AnonymizeAllUserExpenses(u) PROVE KeysFree' /\ OneRowPerKey'
  <2>1. SameKeys(ledger, ledger') /\ pc' = pc /\ req' = req
    BY <1>1, <1>6, UpdatesKeepKeys DEF AnonymizeAllUserExpenses
  <2>2. KeysFree'
    BY <2>1, SameKeysStayFree DEF SerialInv, KeysFree
  <2>3. OneRowPerKey'
    BY <2>1, LedgerAssumption DEF SerialInv, OneRowPerKey, SameKeys
  <2>. QED
    BY <2>2, <2>3
<1>7. ASSUME ledger' = ledger, pc' = pc, req' = req PROVE KeysFree' /\ OneRowPerKey'
  <2>1. KeysFree'
    BY <1>4, <1>7, SameKeysStayFree DEF SerialInv, KeysFree
  <2>2. OneRowPerKey'
    BY <1>7 DEF SerialInv, OneRowPerKey
  <2>. QED
    BY <2>1, <2>2
<1>8. CASE \E w \in Workers : Step(w) /\ Serial'
  BY <1>2, <1>3, <1>5, <1>8 DEF SerialInv
<1>9. CASE \E u \in Users : AnonymizeAllUserExpenses(u)
  BY <1>2, <1>3, <1>6, <1>9 DEF SerialInv
<1>10. CASE NextMonth \/ UNCHANGED vars
  BY <1>2, <1>3, <1>7, <1>10 DEF SerialInv, NextMonth, vars
<1>. QED
  BY <1>8, <1>9, <1>10 DEF SerialNext

\* Sending a key again leaves one row, whatever fails or dies in between, for any
\* number of users and rows, as long as a user's requests do not overlap.
THEOREM CreatesAreIdempotent == SerialSpec => []OneRowPerKey
<1>1. SerialInv => OneRowPerKey
  BY DEF SerialInv
<1>. QED
  BY <1>1, SerialInvInit, SerialInvNext, PTL DEF SerialSpec
-----------------------------------------------------------------------------
(* When a user's requests do not overlap, the handlers implement           *)
(* AtomicLedger, with every failure and crash between statements.          *)

\* A correction or deletion in progress: nobody else has touched its target.
Holds(w) == (pc[w] # "idle" /\ req[w].op = "correct") \/ pc[w] = "deactivate"

TargetHeld(w) ==
  /\ req[w].target \in DOMAIN ledger
  /\ ledger[req[w].target].user = req[w].user
  /\ ledger[req[w].target].period = req[w].period
  /\ ledger[req[w].target].status = IF pc[w] = "insert" THEN "corrected" ELSE "active"

TargetsHeld == \A w \in Workers : Holds(w) => TargetHeld(w)

HeldInv == SerialInv /\ TargetsHeld

\* What a step of one worker w may do to the rows of others.
LEMMA OthersStayHeld ==
  ASSUME HeldInv, NEW x \in Workers, pc'[x] = pc[x], req'[x] = req[x],
         DOMAIN ledger \subseteq DOMAIN ledger',
         \A i \in DOMAIN ledger : ledger[i].user = req[x].user => ledger'[i] = ledger[i]
  PROVE  (Holds(x) => TargetHeld(x))'
BY DEF HeldInv, TargetsHeld, Holds, TargetHeld

\* Only one worker has a request of a user.
LEMMA OneRequest ==
  ASSUME SerialInv, NEW w \in Workers, NEW x \in Workers,
         pc[w] # "idle", pc[x] # "idle", req[w].user = req[x].user
  PROVE  w = x
BY DEF SerialInv, Serial, Busy, KeysFree

\* One row changed by its owner's request, or rows changed of a user without one.
LEMMA MarkKeepsOthers ==
  ASSUME HeldInv, NEW w \in Workers, pc[w] # "idle",
         NEW t \in DOMAIN ledger, ledger[t].user = req[w].user,
         ledger' = [ledger EXCEPT ![t].status = "corrected"],
         NEW x \in Workers, x # w, pc'[x] = pc[x], req'[x] = req[x]
  PROVE  (Holds(x) => TargetHeld(x))'
<1>1. pc[x] = "idle" \/ req[x].user # req[w].user
  BY OneRequest DEF HeldInv
<1>2. \A i \in DOMAIN ledger : i # t => ledger'[i] = ledger[i]
  OBVIOUS
<1>3. DOMAIN ledger' = DOMAIN ledger
  OBVIOUS
<1>4. CASE pc[x] = "idle"
  BY <1>4 DEF Holds
<1>5. CASE req[x].user # req[w].user
  BY <1>2, <1>3, <1>5, OthersStayHeld
<1>. QED
  BY <1>1, <1>4, <1>5

LEMMA HeldInvInit == Init => HeldInv
BY SerialInvInit DEF HeldInv, TargetsHeld, Holds, Init

LEMMA HeldInvNext == HeldInv /\ [SerialNext]_vars => HeldInv'
<1>. SUFFICES ASSUME HeldInv, [SerialNext]_vars PROVE HeldInv'
  OBVIOUS
<1>1. /\ ledger \in Seq(Row) /\ req \in [Workers -> Request] /\ pc \in [Workers -> Point]
      /\ TargetsKnown /\ SerialInv /\ KeysFree
  BY DEF HeldInv, SerialInv, LedgerInv, TypeOK
<1>2. SerialInv'
  BY SerialInvNext DEF HeldInv
<1>3. ASSUME NEW w \in Workers, NEW x \in Workers, x # w, Step(w)
      PROVE  pc'[x] = pc[x] /\ req'[x] = req[x]
  BY <1>1, <1>3 DEF Step, BeginCreate, BeginInstallment, BeginCorrect, BeginDelete, Begin, Replay,
     NoReplay, LoadPeriod, Convert, MarkCorrected, InsertRow, Deactivate, Fail, Return
<1>4. ASSUME NEW w \in Workers, Step(w), ledger' = ledger PROVE TargetsHeld'
  <2>1. ASSUME NEW x \in Workers, x # w PROVE (Holds(x) => TargetHeld(x))'
    BY <1>3, <1>4, <2>1, OthersStayHeld
  <2>2. (Holds(w) => TargetHeld(w))'
    <3>1. CASE \/ \E u \in Users, k \in Keys, p \in Months : BeginCreate(w, u, k, p)
               \/ \E u \in Users, p \in Months : BeginInstallment(w, u, p)
      BY <1>1, <3>1 DEF BeginCreate, BeginInstallment, Begin, Holds
    <3>2. CASE \E u \in Users, i \in DOMAIN ledger : BeginCorrect(w, u, i) \/ BeginDelete(w, u, i)
      BY <1>1, <3>2 DEF BeginCorrect, BeginDelete, Begin, Changeable, Holds, TargetHeld
    <3>3. CASE Replay(w) \/ InsertRow(w) \/ Deactivate(w) \/ Fail(w)
      BY <1>1, <3>3 DEF Replay, InsertRow, Deactivate, Fail, Return, Holds, NoRequest
    <3>4. CASE NoReplay(w)
      BY <1>1, <1>4, <3>4 DEF NoReplay, HeldInv, TargetsHeld, Holds, TargetHeld
    <3>5. ASSUME NEW amount \in Converted \cup {1}, LoadPeriod(w) \/ Convert(w, amount)
          PROVE  (Holds(w) => TargetHeld(w))'
      <4>1. /\ pc[w] \in {"period", "convert"}
            /\ req'[w].user = req[w].user /\ req'[w].op = req[w].op
            /\ req'[w].target = req[w].target /\ req'[w].period = req[w].period
        BY <1>1, <3>5 DEF LoadPeriod, Convert, Request
      <4>2. pc'[w] \notin {"idle", "deactivate"} /\ (pc'[w] = "insert" => req[w].op # "correct")
        BY <1>1, <3>5 DEF LoadPeriod, Convert, AfterConvert
      <4>. QED
        BY <1>4, <4>1, <4>2 DEF HeldInv, TargetsHeld, Holds, TargetHeld
    <3>6. CASE MarkCorrected(w)
      <4>1. /\ req[w].op = "correct" /\ pc[w] = "mark" /\ pc'[w] = "insert" /\ req' = req
            /\ TargetHeld(w)
        BY <1>1, <3>6 DEF MarkCorrected, TargetsKnown, TargetKnown, HeldInv, TargetsHeld, Holds
      <4>2. ledger'[req[w].target].status = "corrected"
        <5>1. ledger[req[w].target] \in Row
          BY <1>1, <4>1, ElementOfSeq, LenProperties DEF TargetHeld
        <5>. QED
          BY <3>6, <4>1, <5>1 DEF MarkCorrected, TargetHeld, Row
      <4>. QED
        BY <1>4, <4>1, <4>2 DEF TargetHeld
    <3>. QED
      BY <1>4, <3>1, <3>2, <3>3, <3>4, <3>5, <3>6 DEF Step
  <2>. QED
    BY <2>1, <2>2 DEF TargetsHeld
<1>5. ASSUME NEW w \in Workers, MarkCorrected(w) PROVE TargetsHeld'
  <2>1. /\ req[w].op = "correct" /\ pc[w] = "mark" /\ pc'[w] = "insert" /\ req' = req
        /\ TargetHeld(w)
        /\ ledger' = [ledger EXCEPT ![req[w].target].status = "corrected"]
    BY <1>1, <1>5 DEF MarkCorrected, TargetsKnown, TargetKnown, HeldInv, TargetsHeld, Holds
  <2>2. ASSUME NEW x \in Workers, x # w PROVE (Holds(x) => TargetHeld(x))'
    BY <1>3, <1>5, <2>1, <2>2, MarkKeepsOthers DEF TargetHeld, Step
  <2>3. ledger[req[w].target] \in Row
    BY <1>1, <2>1, ElementOfSeq, LenProperties DEF TargetHeld
  <2>4. TargetHeld(w)'
    BY <2>1, <2>3 DEF TargetHeld, Row
  <2>. QED
    BY <2>2, <2>4 DEF TargetsHeld
<1>6. ASSUME NEW w \in Workers, InsertRow(w) PROVE TargetsHeld'
  <2>1. NewRow(req[w]) \in Row
    BY <1>1 DEF NewRow, Row, Request, Status
  <2>2. /\ DOMAIN ledger \subseteq DOMAIN ledger'
        /\ \A i \in DOMAIN ledger : ledger'[i] = ledger[i]
    BY <1>1, <1>6, <2>1, AppendingRetires DEF InsertRow
  <2>3. ASSUME NEW x \in Workers, x # w PROVE (Holds(x) => TargetHeld(x))'
    BY <1>3, <1>6, <2>2, <2>3, OthersStayHeld DEF Step
  <2>4. ~ Holds(w)'
    BY <1>1, <1>6 DEF InsertRow, Return, Holds
  <2>. QED
    BY <2>3, <2>4 DEF TargetsHeld
<1>7. ASSUME NEW w \in Workers, Deactivate(w) PROVE TargetsHeld'
  <2>1. /\ pc[w] = "deactivate" /\ TargetHeld(w)
        /\ ledger' = [ledger EXCEPT ![req[w].target].status = "corrected"]
    BY <1>7 DEF Deactivate, HeldInv, TargetsHeld, Holds, TargetHeld
  <2>2. ASSUME NEW x \in Workers, x # w PROVE (Holds(x) => TargetHeld(x))'
    BY <1>3, <1>7, <2>1, <2>2, MarkKeepsOthers DEF TargetHeld, Step
  <2>3. ~ Holds(w)'
    BY <1>1, <1>7 DEF Deactivate, Return, Holds
  <2>. QED
    BY <2>2, <2>3 DEF TargetsHeld
<1>8. ASSUME NEW u \in Users, \A w \in Workers : ~ Busy(w, u), AnonymizeAllUserExpenses(u)
      PROVE  TargetsHeld'
  <2>1. /\ DOMAIN ledger' = DOMAIN ledger /\ pc' = pc /\ req' = req
        /\ \A i \in DOMAIN ledger : ledger[i].user # u => ledger'[i] = ledger[i]
    BY <1>8 DEF AnonymizeAllUserExpenses
  <2>2. ASSUME NEW x \in Workers PROVE (Holds(x) => TargetHeld(x))'
    <3>1. CASE pc[x] = "idle"
      BY <2>1, <3>1 DEF Holds
    <3>2. CASE req[x].user # u
      BY <2>1, <3>2, OthersStayHeld
    <3>. QED
      BY <1>8, <3>1, <3>2 DEF Busy
  <2>. QED
    BY <2>2 DEF TargetsHeld
<1>9. ASSUME ledger' = ledger, pc' = pc, req' = req PROVE TargetsHeld'
  BY <1>9 DEF HeldInv, TargetsHeld, Holds, TargetHeld
<1>10. ASSUME NEW w \in Workers, Step(w) PROVE TargetsHeld'
  <2>1. ledger' = ledger \/ MarkCorrected(w) \/ InsertRow(w) \/ Deactivate(w)
    BY <1>10 DEF Step, BeginCreate, BeginInstallment, BeginCorrect, BeginDelete, Begin, Replay,
       NoReplay, LoadPeriod, Convert, Fail, AfterFailure
  <2>. QED
    BY <1>4, <1>5, <1>6, <1>7, <1>10, <2>1
<1>11. TargetsHeld'
  BY <1>8, <1>9, <1>10 DEF SerialNext, NextMonth, vars
<1>. QED
  BY <1>2, <1>11 DEF HeldInv
----------------------------------------------------------------------------
(* The refinement mapping.                                                 *)

LEMMA EntriesType ==
  ASSUME TypeOK
  PROVE  /\ Entries \in Seq(Atomic!Entry)
         /\ DOMAIN Entries = DOMAIN ledger
         /\ DOMAIN ledger = 1..Len(ledger) /\ Len(ledger) \in Nat /\ Len(Entries) = Len(ledger)
         /\ \A i \in DOMAIN ledger : ledger[i] \in Row
<1>1. ledger \in Seq(Row)
  BY DEF TypeOK
<1>2. DOMAIN ledger = 1..Len(ledger) /\ Len(ledger) \in Nat
  BY <1>1, LenProperties
<1>3. \A i \in DOMAIN ledger : ledger[i] \in Row
  BY <1>1, <1>2, ElementOfSeq
<1>4. DOMAIN Entries = DOMAIN ledger
  BY DEF Entries
<1>5. \A i \in DOMAIN ledger : Entries[i] \in Atomic!Entry
  BY <1>3 DEF Entries, Atomic!Entry, Row, Status
<1>6. Entries \in [1..Len(ledger) -> Atomic!Entry]
  BY <1>2, <1>5 DEF Entries
<1>7. Entries \in Seq(Atomic!Entry)
  BY <1>2, <1>6, SeqDef
<1>8. Len(Entries) = Len(ledger)
  BY <1>2, <1>4, <1>7, LenProperties
<1>. QED
  BY <1>2, <1>3, <1>4, <1>7, <1>8

\* The same entries are shown when no row and no half-made correction changes.
LEMMA SameEntries ==
  ASSUME ledger' = ledger, \A i \in DOMAIN ledger : HalfCorrected(i)' <=> HalfCorrected(i)
  PROVE  Entries' = Entries
BY DEF Entries

\* A function that differs from another at one place.
LEMMA OneUpdated ==
  ASSUME NEW S, NEW f, NEW g, f = [i \in S |-> f[i]], g = [i \in S |-> g[i]],
         NEW t \in S, NEW e, g[t] = e, \A i \in S : i # t => g[i] = f[i]
  PROVE  g = [f EXCEPT ![t] = e]
OBVIOUS

\* What Append is, entry by entry.
LEMMA IsAppend ==
  ASSUME NEW S, NEW s \in Seq(S), NEW t \in Seq(S), NEW e \in S,
         Len(t) = Len(s) + 1, t[Len(s) + 1] = e, \A i \in 1..Len(s) : t[i] = s[i]
  PROVE  t = Append(s, e)
<1>1. /\ Append(s, e) \in Seq(S)
      /\ Len(Append(s, e)) = Len(s) + 1
      /\ \A i \in 1..Len(s) : Append(s, e)[i] = s[i]
      /\ Append(s, e)[Len(s) + 1] = e
  BY AppendProperties
<1>2. Len(s) \in Nat
  BY LenProperties
<1>3. \A i \in 1..Len(t) : t[i] = Append(s, e)[i]
  BY <1>1, <1>2
<1>. QED
  BY <1>1, <1>3, SeqEqual

\* A step that neither begins nor ends the second half of a correction.
LEMMA HalvesStay ==
  ASSUME HeldInv, NEW w \in Workers,
         \A x \in Workers : x # w => pc'[x] = pc[x] /\ req'[x] = req[x],
         ~ (pc[w] = "insert" /\ req[w].op = "correct"),
         ~ (pc'[w] = "insert" /\ req'[w].op = "correct")
  PROVE  \A i \in DOMAIN ledger : HalfCorrected(i)' <=> HalfCorrected(i)
BY DEF HalfCorrected

\* A target is half corrected by its holder only.
LEMMA HalfOfHolder ==
  ASSUME HeldInv, NEW w \in Workers, Holds(w), NEW x \in Workers,
         pc[x] = "insert", req[x].op = "correct", req[x].target = req[w].target
  PROVE  x = w
<1>1. pc[w] # "idle" /\ TargetHeld(w) /\ TargetHeld(x)
  BY DEF HeldInv, TargetsHeld, Holds
<1>. QED
  BY <1>1, OneRequest DEF TargetHeld, HeldInv

\* The end of a correction's or a deletion's hold of its target.
LEMMA ReleasedTarget ==
  ASSUME HeldInv, NEW w \in Workers, Holds(w),
         \A x \in Workers : x # w => pc'[x] = pc[x] /\ req'[x] = req[x],
         pc'[w] = "idle"
  PROVE  \A i \in DOMAIN ledger :
           HalfCorrected(i)' <=> HalfCorrected(i) /\ i # req[w].target
BY HalfOfHolder DEF HalfCorrected, HeldInv, TargetsHeld, Holds, TargetHeld

\* The UPDATE of a deletion, and a correction that stops half-way.
LEMMA DeletionStep ==
  ASSUME HeldInv, NEW w \in Workers, Deactivate(w) \/ Fail(w)
  PROVE  [Atomic!Next]_Entries
<1>. DEFINE t == req[w].target
<1>1. /\ TypeOK /\ pc \in [Workers -> Point] /\ req \in [Workers -> Request]
  BY DEF HeldInv, SerialInv, LedgerInv, TypeOK
<1>2. /\ pc'[w] = "idle"
      /\ \A x \in Workers : x # w => pc'[x] = pc[x] /\ req'[x] = req[x]
  BY <1>1 DEF Deactivate, Fail, Return
<1>3. CASE ~ (pc[w] = "insert" /\ req[w].op = "correct") /\ ~ Deactivate(w)
  <2>1. ledger' = ledger
    BY <1>3 DEF Fail, AfterFailure
  <2>. QED
    BY <1>2, <1>3, <2>1, HalvesStay, SameEntries
<1>4. CASE (pc[w] = "insert" /\ req[w].op = "correct") \/ Deactivate(w)
  <2>1. Holds(w) /\ TargetHeld(w) /\ t \in DOMAIN ledger
    BY <1>4 DEF Holds, Deactivate, HeldInv, TargetsHeld, TargetHeld
  <2>2. \A i \in DOMAIN ledger : HalfCorrected(i)' <=> HalfCorrected(i) /\ i # t
    BY <1>2, <2>1, ReleasedTarget
  <2>3. Entries[t].status = "active"
    BY <1>4, <2>1 DEF Entries, HalfCorrected, TargetHeld, Deactivate
  <2>4. /\ DOMAIN ledger' = DOMAIN ledger
        /\ \A i \in DOMAIN ledger : i # t => ledger'[i] = ledger[i]
        /\ ledger'[t] = [ledger[t] EXCEPT !.status = "corrected"]
    <3>1. CASE Deactivate(w)
      BY <2>1, <3>1 DEF Deactivate, TargetHeld
    <3>2. CASE Fail(w) /\ pc[w] = "insert"
      <4>1. ledger' = ledger /\ ledger[t].status = "corrected" /\ ledger[t] \in Row
        BY <1>1, <2>1, <3>2, EntriesType DEF Fail, AfterFailure, TargetHeld
      <4>. QED
        BY <4>1 DEF Row
    <3>. QED
      BY <1>4, <3>1, <3>2
  <2>5. \A i \in DOMAIN ledger : i # t => Entries'[i] = Entries[i]
    BY <2>2, <2>4 DEF Entries
  <2>6. Entries'[t] = [Entries[t] EXCEPT !.status = "corrected"]
    <3>1. ledger[t] \in Row
      BY <1>1, <2>1, EntriesType
    <3>2. /\ ledger'[t].user = ledger[t].user /\ ledger'[t].corrects = ledger[t].corrects
          /\ ledger'[t].period = ledger[t].period /\ ledger'[t].key = ledger[t].key
          /\ ledger'[t].status = "corrected"
      BY <2>4, <3>1 DEF Row
    <3>3. Entries[t] = [user |-> ledger[t].user, corrects |-> ledger[t].corrects,
                        period |-> ledger[t].period, key |-> ledger[t].key,
                        status |-> "active"]
      BY <2>1, <2>3 DEF Entries
    <3>4. Entries'[t] = [user |-> ledger[t].user, corrects |-> ledger[t].corrects,
                         period |-> ledger[t].period, key |-> ledger[t].key,
                         status |-> "corrected"]
      BY <2>1, <2>2, <2>4, <3>2 DEF Entries
    <3>. QED
      BY <3>3, <3>4
  <2>7. Entries' = [Entries EXCEPT ![t].status = "corrected"]
    <3>1. /\ Entries = [i \in DOMAIN ledger |-> Entries[i]]
          /\ Entries' = [i \in DOMAIN ledger |-> Entries'[i]]
      BY <2>4 DEF Entries
    <3>. QED
      BY <2>1, <2>5, <2>6, <3>1, OneUpdated
  <2>8. Atomic!Delete(t) /\ t \in DOMAIN Entries
    BY <2>1, <2>3, <2>7 DEF Atomic!Delete, Entries
  <2>. QED
    BY <2>8 DEF Atomic!Next
<1>. QED
  BY <1>3, <1>4

\* The INSERT of a create, an installment or a correction.
LEMMA InsertStep ==
  ASSUME HeldInv, HeldInv', NEW w \in Workers, InsertRow(w)
  PROVE  [Atomic!Next]_Entries
<1>. DEFINE t == req[w].target
            row == NewRow(req[w])
            n == Len(ledger) + 1
            entry == [user |-> row.user, corrects |-> row.corrects, period |-> row.period,
                      key |-> row.key, status |-> "active"]
<1>1. /\ TypeOK /\ TypeOK' /\ pc[w] = "insert" /\ req[w] \in Request /\ ledger \in Seq(Row)
      /\ pc \in [Workers -> Point] /\ req \in [Workers -> Request]
  BY DEF HeldInv, SerialInv, LedgerInv, TypeOK, InsertRow
<1>2. /\ pc'[w] = "idle"
      /\ \A x \in Workers : x # w => pc'[x] = pc[x] /\ req'[x] = req[x]
  BY <1>1 DEF InsertRow, Return
<1>3. row \in Row /\ row.status = "active" /\ entry \in Atomic!Entry
  BY <1>1 DEF NewRow, Row, Request, Status, Atomic!Entry
<1>4. /\ DOMAIN ledger = 1..Len(ledger) /\ Len(ledger) \in Nat /\ Len(Entries) = Len(ledger)
      /\ DOMAIN Entries = DOMAIN ledger /\ Entries \in Seq(Atomic!Entry)
  BY <1>1, EntriesType
<1>5. /\ ledger' = Append(ledger, row)
      /\ DOMAIN ledger' = DOMAIN ledger \cup {n}
      /\ ledger'[n] = row
      /\ \A i \in DOMAIN ledger : ledger'[i] = ledger[i]
  BY <1>1, <1>3, AppendingRetires DEF InsertRow
<1>6. /\ Entries' \in Seq(Atomic!Entry)
      /\ Len(Entries') = Len(Entries) + 1
  <2>1. DOMAIN ledger' = 1..n /\ n \in Nat
    BY <1>4, <1>5
  <2>2. \A i \in 1..n : ledger'[i] \in Row
    BY <1>1, <1>3, <1>5, <2>1, EntriesType
  <2>3. \A i \in 1..n : Entries'[i] \in Atomic!Entry
    BY <2>1, <2>2 DEF Entries, Atomic!Entry, Row, Status
  <2>4. Entries' \in [1..n -> Atomic!Entry]
    BY <2>1, <2>3 DEF Entries
  <2>5. Entries' \in Seq(Atomic!Entry)
    BY <2>1, <2>4, SeqDef
  <2>6. DOMAIN Entries' = 1..n /\ DOMAIN Entries' = 1..Len(Entries') /\ Len(Entries') \in Nat
    BY <2>4, <2>5, LenProperties
  <2>. QED
    BY <1>4, <2>1, <2>5, <2>6
<1>7. \A m \in Nat : m = n => ~ HalfCorrected(m)'
  <2>1. ASSUME NEW x \in Workers, pc'[x] = "insert", req'[x].op = "correct"
        PROVE  req'[x].target # n
    <3>1. x # w /\ pc[x] = "insert" /\ req[x].op = "correct" /\ req'[x] = req[x]
      BY <1>2, <2>1
    <3>2. req[x].target \in DOMAIN ledger
      BY <3>1 DEF HeldInv, TargetsHeld, Holds, TargetHeld
    <3>. QED
      BY <1>4, <3>1, <3>2
  <2>. QED
    BY <2>1 DEF HalfCorrected
<1>8. Entries'[n] = entry /\ n = Len(Entries) + 1
  BY <1>3, <1>4, <1>5, <1>7 DEF Entries
<1>9. CASE req[w].op # "correct"
  <2>1. \A i \in DOMAIN ledger : HalfCorrected(i)' <=> HalfCorrected(i)
    BY <1>2, <1>9, HalvesStay
  <2>2. \A i \in 1..Len(Entries) : Entries'[i] = Entries[i]
    BY <1>4, <1>5, <2>1 DEF Entries
  <2>3. Entries' = Append(Entries, entry)
    BY <1>3, <1>4, <1>6, <1>8, <2>2, IsAppend
  <2>4. entry = [user |-> req[w].user, status |-> "active", corrects |-> 0,
                 period |-> req[w].period, key |-> req[w].key]
    BY <1>9 DEF NewRow
  <2>5. req[w].user \in Users /\ req[w].key \in Keys \cup {NoKey} /\ req[w].period \in Months
    BY <1>1 DEF HeldInv, SerialInv, KeysFree, Request
  <2>6. req[w].key # NoKey =>
          \A i \in DOMAIN Entries : ~ (Entries[i].user = req[w].user /\ Entries[i].key = req[w].key)
    <3>1. req[w].key # NoKey => Matches(req[w].user, req[w].key) = {}
      BY <1>1 DEF HeldInv, SerialInv, KeysFree
    <3>. QED
      BY <1>4, <3>1 DEF Matches, Entries
  <2>7. Atomic!Create(req[w].user, req[w].key, req[w].period)
    BY <2>3, <2>4, <2>6 DEF Atomic!Create
  <2>. QED
    BY <2>5, <2>7 DEF Atomic!Next
<1>10. CASE req[w].op = "correct"
  <2>. DEFINE marked == [Entries EXCEPT ![t].status = "corrected"]
  <2>1. Holds(w) /\ TargetHeld(w) /\ t \in DOMAIN ledger /\ ledger[t] \in Row
    BY <1>1, <1>10, EntriesType DEF Holds, HeldInv, TargetsHeld, TargetHeld
  <2>2. \A i \in DOMAIN ledger : HalfCorrected(i)' <=> HalfCorrected(i) /\ i # t
    BY <1>2, <2>1, ReleasedTarget
  <2>3. /\ Entries[t].status = "active" /\ Entries[t].user = req[w].user
        /\ Entries[t].period = req[w].period /\ Entries[t] \in Atomic!Entry
    BY <1>1, <1>4, <1>10, <2>1, ElementOfSeq DEF Entries, HalfCorrected, TargetHeld
  <2>4. Entries'[t] = [Entries[t] EXCEPT !.status = "corrected"]
    BY <1>1, <1>5, <2>1, <2>2 DEF Entries, TargetHeld
  <2>5. /\ marked \in Seq(Atomic!Entry) /\ Len(marked) = Len(Entries)
        /\ \A i \in 1..Len(marked) : Entries'[i] = marked[i]
    <3>1. [Entries[t] EXCEPT !.status = "corrected"] \in Atomic!Entry
      BY <2>3 DEF Atomic!Entry
    <3>2. \A i \in DOMAIN ledger : i # t => Entries'[i] = Entries[i]
      BY <1>5, <2>2 DEF Entries
    <3>. QED
      BY <1>4, <2>1, <2>4, <3>1, <3>2, ExceptSeq
  <2>6. Entries' = Append(marked, entry)
    <3>. HIDE DEF marked, entry, n
    <3>1. entry \in Atomic!Entry /\ Len(Entries') = Len(marked) + 1 /\ Entries'[Len(marked) + 1] = entry
      BY <1>3, <1>6, <1>8, <2>5
    <3>. QED
      BY <1>6, <2>5, <3>1, IsAppend
  <2>7. entry = [user |-> Entries[t].user, status |-> "active", corrects |-> t,
                 period |-> Entries[t].period, key |-> NoKey]
    <3>1. req[w].key = NoKey
      BY <1>1, <1>10 DEF HeldInv, SerialInv, KeysFree
    <3>. QED
      BY <1>10, <2>3, <3>1 DEF NewRow
  <2>8. Atomic!Correct(t) /\ t \in DOMAIN Entries
    BY <1>4, <2>1, <2>3, <2>6, <2>7 DEF Atomic!Correct
  <2>. QED
    BY <2>8 DEF Atomic!Next
<1>. QED
  BY <1>9, <1>10

\* The UPDATE of a correction shows nothing.
LEMMA MarkStep ==
  ASSUME HeldInv, NEW w \in Workers, MarkCorrected(w)
  PROVE  Entries' = Entries
<1>. DEFINE t == req[w].target
<1>1. /\ TypeOK /\ pc[w] = "mark" /\ req[w].op = "correct" /\ TargetHeld(w)
      /\ pc' = [pc EXCEPT ![w] = "insert"] /\ req' = req /\ pc'[w] = "insert"
      /\ t \in DOMAIN ledger /\ ledger[t].status = "active"
      /\ ledger' = [ledger EXCEPT ![t].status = "corrected"]
  BY DEF MarkCorrected, HeldInv, SerialInv, LedgerInv, TypeOK, TargetsKnown, TargetKnown,
         TargetsHeld, Holds, TargetHeld
<1>2. HalfCorrected(t)'
  BY <1>1 DEF HalfCorrected
<1>3. \A i \in DOMAIN ledger : i # t => (HalfCorrected(i)' <=> HalfCorrected(i))
  <2>1. \A x \in Workers : x # w => pc'[x] = pc[x]
    BY <1>1 DEF TypeOK
  <2>. QED
    BY <1>1, <2>1 DEF HalfCorrected
<1>4. DOMAIN ledger' = DOMAIN ledger /\ \A i \in DOMAIN ledger : i # t => ledger'[i] = ledger[i]
  BY <1>1
<1>5. ledger[t] \in Row
  BY <1>1, EntriesType
<1>6. /\ ledger'[t].user = ledger[t].user /\ ledger'[t].corrects = ledger[t].corrects
      /\ ledger'[t].period = ledger[t].period /\ ledger'[t].key = ledger[t].key
  BY <1>1, <1>5 DEF Row
<1>7. \A i \in DOMAIN ledger : Entries'[i] = Entries[i]
  BY <1>1, <1>2, <1>3, <1>4, <1>6 DEF Entries
<1>. QED
  BY <1>4, <1>7 DEF Entries

\* The UPDATE of an erasure of a user who has no request.
LEMMA EraseStep ==
  ASSUME HeldInv, NEW u \in Users, \A w \in Workers : ~ Busy(w, u), AnonymizeAllUserExpenses(u)
  PROVE  Atomic!Erase(u)
<1>1. TypeOK /\ pc' = pc /\ req' = req /\ DOMAIN ledger' = DOMAIN ledger
  BY DEF AnonymizeAllUserExpenses, HeldInv, SerialInv, LedgerInv
<1>2. \A i \in DOMAIN ledger : HalfCorrected(i)' <=> HalfCorrected(i)
  BY <1>1 DEF HalfCorrected
<1>3. \A i \in DOMAIN ledger : ledger[i].user = u => ~ HalfCorrected(i)
  BY DEF HalfCorrected, Busy, HeldInv, TargetsHeld, Holds, TargetHeld
<1>4. ASSUME NEW i \in DOMAIN ledger
      PROVE  Entries'[i] = IF Entries[i].user = u
                           THEN [Entries[i] EXCEPT !.user = Deleted, !.status = "redacted"]
                           ELSE Entries[i]
  <2>1. CASE ledger[i].user # u
    <3>1. ledger'[i] = ledger[i]
      BY <2>1 DEF AnonymizeAllUserExpenses
    <3>. QED
      BY <1>1, <1>2, <2>1, <3>1 DEF Entries
  <2>2. CASE ledger[i].user = u
    <3>1. ledger'[i] = Redacted(ledger[i]) /\ ledger[i] \in Row
      BY <1>1, <2>2, EntriesType DEF AnonymizeAllUserExpenses
    <3>2. /\ ledger'[i].user = Deleted /\ ledger'[i].corrects = ledger[i].corrects
          /\ ledger'[i].period = ledger[i].period /\ ledger'[i].key = ledger[i].key
          /\ ledger'[i].status = "redacted"
      BY <3>1 DEF Redacted, Row
    <3>. QED
      BY <1>1, <1>2, <1>3, <2>2, <3>2 DEF Entries
  <2>. QED
    BY <2>1, <2>2
<1>. QED
  BY <1>1, <1>4 DEF Atomic!Erase, Entries

LEMMA RefinementStep == HeldInv /\ HeldInv' /\ [SerialNext]_vars => [Atomic!Next]_Entries
<1>. SUFFICES ASSUME HeldInv, HeldInv', [SerialNext]_vars PROVE [Atomic!Next]_Entries
  OBVIOUS
<1>1. pc \in [Workers -> Point] /\ req \in [Workers -> Request] /\ TargetsKnown
  BY DEF HeldInv, SerialInv, LedgerInv, TypeOK
<1>2. ASSUME NEW w \in Workers, Step(w) PROVE [Atomic!Next]_Entries
  <2>1. CASE \/ \E u \in Users, k \in Keys, p \in Months : BeginCreate(w, u, k, p)
             \/ \E u \in Users, p \in Months : BeginInstallment(w, u, p)
             \/ \E u \in Users, i \in DOMAIN ledger : BeginCorrect(w, u, i) \/ BeginDelete(w, u, i)
             \/ Replay(w) \/ NoReplay(w) \/ LoadPeriod(w)
             \/ \E amount \in Converted \cup {1} : Convert(w, amount)
    <3>1. /\ ledger' = ledger /\ pc[w] # "insert"
          /\ \A x \in Workers : x # w => pc'[x] = pc[x] /\ req'[x] = req[x]
      BY <1>1, <2>1 DEF BeginCreate, BeginInstallment, BeginCorrect, BeginDelete, Begin, Replay,
         NoReplay, LoadPeriod, Convert, Return
    <3>2. ~ (pc'[w] = "insert" /\ req'[w].op = "correct")
      <4>1. CASE \E amount \in Converted \cup {1} : Convert(w, amount)
        <5>1. req'[w].op = req[w].op /\ (req[w].op = "correct" => pc'[w] = "mark")
          BY <1>1, <4>1 DEF Convert, AfterConvert, Request
        <5>. QED
          BY <5>1
      <4>2. CASE ~ \E amount \in Converted \cup {1} : Convert(w, amount)
        BY <1>1, <2>1, <4>2 DEF BeginCreate, BeginInstallment, BeginCorrect, BeginDelete, Begin,
           Replay, NoReplay, LoadPeriod, Return
      <4>. QED
        BY <4>1, <4>2
    <3>. QED
      BY <3>1, <3>2, HalvesStay, SameEntries
  <2>2. CASE MarkCorrected(w)
    BY <2>2, MarkStep
  <2>3. CASE InsertRow(w)
    BY <2>3, InsertStep
  <2>4. CASE Deactivate(w) \/ Fail(w)
    BY <2>4, DeletionStep
  <2>. QED
    BY <1>2, <2>1, <2>2, <2>3, <2>4 DEF Step
<1>3. ASSUME NEW u \in Users, \A w \in Workers : ~ Busy(w, u), AnonymizeAllUserExpenses(u)
      PROVE  [Atomic!Next]_Entries
  BY <1>3, EraseStep DEF Atomic!Next
<1>4. ASSUME ledger' = ledger, pc' = pc, req' = req PROVE Entries' = Entries
  BY <1>4 DEF Entries, HalfCorrected
<1>. QED
  BY <1>2, <1>3, <1>4 DEF SerialNext, NextMonth, vars

\* The empty table shows no entries.
LEMMA RefinementInit == Init => Atomic!Init
BY DEF Init, Atomic!Init, Entries

\* The statements of the handlers add up to the operations of the atomic ledger:
\* every statement shows as one operation or as nothing, for any number of users,
\* workers and rows, wherever a request stops.
THEOREM LedgerImplementsAtomicLedger == SerialSpec => ImplementsAtomicLedger
BY RefinementInit, RefinementStep, HeldInvInit, HeldInvNext, PTL
   DEF SerialSpec, ImplementsAtomicLedger, Atomic!Spec
============================================================================
