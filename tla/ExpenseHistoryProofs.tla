------------------------ MODULE ExpenseHistoryProofs ------------------------
(***************************************************************************)
(* Correction chains when a user's requests do not overlap: a row has at   *)
(* most one correction, so GetCorrectionHistory lists the whole chain from *)
(* its first entry, and one entry of a chain at most is active.            *)
(***************************************************************************)
EXTENDS ExpenseHistory, ExpenseLedgerProofs, FiniteLemmas

\* An entry is corrected at most once: chains do not branch.
OneCorrection ==
  \A i, j \in DOMAIN ledger :
    ledger[i].corrects # 0 /\ ledger[i].corrects = ledger[j].corrects => i = j

\* A correction that has marked its original is the first one of it.
MarkedUncorrected ==
  \A w \in Workers : pc[w] = "insert" /\ req[w].op = "correct" =>
    \A i \in DOMAIN ledger : ledger[i].corrects # req[w].target

\* The inductive invariant.
ChainInv == HeldInv /\ OneCorrection /\ MarkedUncorrected

LEMMA ChainInvInit == Init => ChainInv
BY HeldInvInit DEF ChainInv, OneCorrection, MarkedUncorrected, Init


\* The UPDATE of a correction finds its original active, hence uncorrected.
LEMMA MarkStarts ==
  ASSUME ChainInv, NEW w \in Workers, MarkCorrected(w)
  PROVE  OneCorrection' /\ MarkedUncorrected'
<1>1. /\ ledger \in Seq(Row) /\ pc \in [Workers -> Point] /\ TargetsKnown /\ SupersededIsRetired
  BY DEF ChainInv, HeldInv, SerialInv, LedgerInv, TypeOK
<1>2. /\ req[w].op = "correct" /\ pc[w] = "mark" /\ TargetHeld(w) /\ req' = req
      /\ pc' = [pc EXCEPT ![w] = "insert"]
      /\ ledger' = [ledger EXCEPT ![req[w].target].status = "corrected"]
  BY <1>1 DEF MarkCorrected, TargetsKnown, TargetKnown, ChainInv, HeldInv, TargetsHeld, Holds
<1>3. /\ DOMAIN ledger' = DOMAIN ledger
      /\ \A i \in DOMAIN ledger : ledger'[i].corrects = ledger[i].corrects
  BY <1>1, <1>2, MarkingRetires DEF TargetHeld, Retires
<1>4. \A i \in DOMAIN ledger : ledger[i].corrects # req[w].target
  <2>1. req[w].target # 0 /\ ledger[req[w].target].status = "active"
    BY <1>1, <1>2, LenProperties DEF TargetHeld
  <2>. QED
    BY <1>1, <2>1 DEF SupersededIsRetired
<1>5. OneCorrection'
  BY <1>3 DEF ChainInv, OneCorrection
<1>6. MarkedUncorrected'
  BY <1>1, <1>2, <1>3, <1>4 DEF MarkedUncorrected, ChainInv
<1>. QED
  BY <1>5, <1>6

\* The INSERT of a correction is the first of its original, which nobody else holds.
LEMMA InsertContinues ==
  ASSUME ChainInv, NEW w \in Workers, InsertRow(w)
  PROVE  OneCorrection' /\ MarkedUncorrected'
<1>. DEFINE row == NewRow(req[w])
            n == Len(ledger) + 1
<1>1. /\ ledger \in Seq(Row) /\ req \in [Workers -> Request] /\ pc \in [Workers -> Point]
      /\ pc[w] = "insert"
  BY DEF ChainInv, HeldInv, SerialInv, LedgerInv, TypeOK, InsertRow
<1>2. /\ row \in Row
      /\ row.corrects # 0 => row.corrects = req[w].target /\ req[w].op = "correct"
  BY <1>1 DEF NewRow, Row, Request, Status
<1>3. /\ DOMAIN ledger' = DOMAIN ledger \cup {n}
      /\ ledger'[n] = row
      /\ \A i \in DOMAIN ledger : ledger'[i] = ledger[i]
  BY <1>1, <1>2, AppendingRetires DEF InsertRow
<1>. HIDE DEF row, n
<1>4. OneCorrection'
  BY <1>1, <1>2, <1>3 DEF OneCorrection, ChainInv, MarkedUncorrected
<1>5. ASSUME NEW x \in Workers, pc'[x] = "insert", req'[x].op = "correct"
      PROVE  \A i \in DOMAIN ledger' : ledger'[i].corrects # req'[x].target
  <2>1. x # w /\ pc'[x] = pc[x] /\ req'[x] = req[x]
    BY <1>1, <1>5 DEF InsertRow, Return
  <2>2. Holds(x) /\ TargetHeld(x)
    BY <1>5, <2>1 DEF Holds, ChainInv, HeldInv, TargetsHeld
  <2>3. req[x].target # 0
    BY <1>1, <2>2, LenProperties DEF TargetHeld
  <2>4. row.corrects # req[x].target
    BY <1>1, <1>2, <2>1, <2>2, <2>3, HalfOfHolder DEF ChainInv
  <2>. QED
    BY <1>3, <1>5, <2>1, <2>4 DEF ChainInv, MarkedUncorrected
<1>. QED
  BY <1>4, <1>5 DEF MarkedUncorrected

LEMMA ChainInvNext == ChainInv /\ [SerialNext]_vars => ChainInv'
<1>. SUFFICES ASSUME ChainInv, [SerialNext]_vars PROVE ChainInv'
  OBVIOUS
<1>1. /\ ledger \in Seq(Row) /\ req \in [Workers -> Request] /\ pc \in [Workers -> Point]
      /\ TargetsKnown
  BY DEF ChainInv, HeldInv, SerialInv, LedgerInv, TypeOK
<1>2. HeldInv'
  BY HeldInvNext DEF ChainInv
<1>3. ASSUME DOMAIN ledger' = DOMAIN ledger,
             \A i \in DOMAIN ledger : ledger'[i].corrects = ledger[i].corrects,
             \A w \in Workers : \/ pc'[w] = pc[w] /\ req'[w].op = req[w].op
                                                  /\ req'[w].target = req[w].target
                                \/ pc'[w] # "insert" \/ req'[w].op # "correct"
      PROVE  OneCorrection' /\ MarkedUncorrected'
  BY <1>3 DEF ChainInv, OneCorrection, MarkedUncorrected
<1>4. ASSUME NEW w \in Workers, Step(w) PROVE OneCorrection' /\ MarkedUncorrected'
  <2>1. CASE \/ \E u \in Users, k \in Keys, p \in Months : BeginCreate(w, u, k, p)
             \/ \E u \in Users, p \in Months : BeginInstallment(w, u, p)
             \/ \E u \in Users, i \in DOMAIN ledger : BeginCorrect(w, u, i) \/ BeginDelete(w, u, i)
    BY <1>1, <1>3, <2>1 DEF BeginCreate, BeginInstallment, BeginCorrect, BeginDelete, Begin
  <2>2. CASE Replay(w) \/ Fail(w)
    BY <1>1, <1>3, <2>2 DEF Replay, Fail, AfterFailure, Return
  <2>3. CASE NoReplay(w) \/ LoadPeriod(w)
    BY <1>1, <1>3, <2>3 DEF NoReplay, LoadPeriod
  <2>4. ASSUME NEW amount \in Converted \cup {1}, Convert(w, amount)
        PROVE  OneCorrection' /\ MarkedUncorrected'
    <3>1. \/ pc'[w] # "insert" \/ req'[w].op # "correct"
      BY <1>1, <2>4 DEF Convert, AfterConvert, Request
    <3>2. ledger' = ledger /\ \A x \in Workers : x # w => pc'[x] = pc[x] /\ req'[x] = req[x]
      BY <1>1, <2>4 DEF Convert
    <3>. QED
      BY <1>3, <3>1, <3>2
  <2>5. CASE MarkCorrected(w)
    BY <2>5, MarkStarts
  <2>6. CASE InsertRow(w)
    BY <2>6, InsertContinues
  <2>7. CASE Deactivate(w)
    <3>1. req[w].target \in DOMAIN ledger
      BY <1>1, <2>7 DEF Deactivate, TargetsKnown, TargetKnown
    <3>2. /\ DOMAIN ledger' = DOMAIN ledger
          /\ \A i \in DOMAIN ledger : ledger'[i].corrects = ledger[i].corrects
      BY <1>1, <2>7, <3>1, MarkingRetires DEF Deactivate, Retires
    <3>. QED
      BY <1>1, <1>3, <2>7, <3>2 DEF Deactivate, Return
  <2>. QED
    BY <1>4, <2>1, <2>2, <2>3, <2>4, <2>5, <2>6, <2>7 DEF Step
<1>5. ASSUME NEW u \in Users, AnonymizeAllUserExpenses(u) PROVE OneCorrection' /\ MarkedUncorrected'
  <2>1. /\ DOMAIN ledger' = DOMAIN ledger
        /\ \A i \in DOMAIN ledger : ledger'[i].corrects = ledger[i].corrects
    BY <1>1, <1>5, ErasingRetires DEF AnonymizeAllUserExpenses, Retires
  <2>. QED
    BY <1>3, <1>5, <2>1 DEF AnonymizeAllUserExpenses
<1>6. ASSUME NextMonth \/ UNCHANGED vars PROVE OneCorrection' /\ MarkedUncorrected'
  BY <1>3, <1>6 DEF NextMonth, vars
<1>. QED
  BY <1>2, <1>4, <1>5, <1>6 DEF ChainInv, SerialNext
-----------------------------------------------------------------------------
(* The walk back.                                                          *)

\* What the walks rely on: rows link to earlier ones.
LinksGoBack ==
  /\ ledger \in Seq(Row)
  /\ \A i \in DOMAIN ledger : ledger[i].corrects # 0 =>
       ledger[i].corrects \in DOMAIN ledger /\ ledger[i].corrects < i

LEMMA ChainsLink == ChainInv => LinksGoBack
BY OriginalExists DEF ChainInv, HeldInv, SerialInv, LedgerInv, TypeOK, LinksGoBack, SupersededIsRetired

\* A visible original is an earlier row.
LEMMA OriginalIsEarlier ==
  ASSUME LinksGoBack, NEW u \in Users, NEW j \in DOMAIN ledger
  PROVE  /\ DOMAIN ledger = 1..Len(ledger) /\ Len(ledger) \in Nat
         /\ Visible(u, ledger[j].corrects) => ledger[j].corrects \in 1..(j - 1)
<1>1. DOMAIN ledger = 1..Len(ledger) /\ Len(ledger) \in Nat
  BY LenProperties DEF LinksGoBack
<1>2. ASSUME Visible(u, ledger[j].corrects) PROVE ledger[j].corrects \in 1..(j - 1)
  <2>1. ledger[j].corrects \in DOMAIN ledger /\ ledger[j].corrects # 0
    BY <1>1, <1>2 DEF Visible
  <2>2. ledger[j].corrects < j
    BY <2>1 DEF LinksGoBack
  <2>. QED
    BY <1>1, <2>1, <2>2
<1>. QED
  BY <1>1, <1>2

\* The trail of the walk back exists, so WalkBack obeys its equation.
LEMMA WalkBackEquation ==
  ASSUME LinksGoBack, NEW u \in Users, NEW i \in DOMAIN ledger
  PROVE  WalkBack(u, i) = IF Visible(u, ledger[i].corrects)
                          THEN << i >> \o WalkBack(u, ledger[i].corrects)
                          ELSE << i >>
<1>. DEFINE N == Len(ledger)
            From(f, j) == IF Visible(u, ledger[j].corrects)
                          THEN << j >> \o f[ledger[j].corrects]
                          ELSE << j >>
            Solves(f, n) == \A j \in 1..n : f[j] = From(f, j)
            Unsolved == {n \in 1..N : ~ \E f : Solves(f, n)}
            trail[j \in DOMAIN ledger] ==
              IF Visible(u, ledger[j].corrects)
              THEN << j >> \o trail[ledger[j].corrects]
              ELSE << j >>
<1>1. DOMAIN ledger = 1..N /\ N \in Nat
  BY OriginalIsEarlier
<1>2. \A j \in 1..N : Visible(u, ledger[j].corrects) => ledger[j].corrects \in 1..(j - 1)
  BY <1>1, OriginalIsEarlier
<1>. HIDE DEF N
<1>3. Unsolved = {}
  <2>. SUFFICES ASSUME Unsolved # {} PROVE FALSE
    OBVIOUS
  <2>1. PICK n \in Unsolved : \A k \in Unsolved : n <= k
    <3>. Unsolved \in SUBSET (1..N)
      OBVIOUS
    <3>. HIDE DEF Unsolved
    <3>. QED
      BY <1>1, LeastElement
  <2>2. \E f : Solves(f, n - 1)
    <3>1. CASE n = 1
      BY <3>1
    <3>2. CASE n # 1
      <4>1. n \in 1..N /\ n - 1 \in 1..N /\ ~ (n <= n - 1)
        BY <1>1, <3>2
      <4>2. n - 1 \notin Unsolved
        BY <2>1, <4>1
      <4>. HIDE DEF Solves
      <4>. QED
        BY <4>1, <4>2
    <3>. QED
      BY <3>1, <3>2
  <2>3. PICK f : Solves(f, n - 1)
    BY <2>2
  <2>. DEFINE g == [j \in 1..n |-> IF j = n THEN From(f, n) ELSE f[j]]
  <2>4. ASSUME NEW j \in 1..n PROVE g[j] = From(g, j)
    <3>1. Visible(u, ledger[j].corrects) =>
            ledger[j].corrects \in 1..n /\ ledger[j].corrects # n
      <4>1. n \in 1..N /\ j \in 1..N /\ j <= n
        BY <1>1
      <4>2. \A c : c \in 1..(j - 1) => c \in 1..n /\ c # n
        BY <1>1, <4>1
      <4>. QED
        BY <1>2, <4>1, <4>2
    <3>2. From(g, j) = From(f, j)
      BY <3>1
    <3>3. j # n => j \in 1..(n - 1)
      BY <1>1
    <3>. QED
      BY <2>3, <3>2, <3>3
  <2>5. Solves(g, n)
    BY <2>4
  <2>. QED
    BY <2>5
<1>4. \E f : f = [j \in DOMAIN ledger |-> From(f, j)]
  <2>1. CASE N = 0
    BY <1>1, <2>1
  <2>2. CASE N # 0
    <3>1. N \in 1..N
      BY <1>1, <2>2
    <3>2. PICK f : Solves(f, N)
      BY <1>3, <3>1
    <3>. DEFINE g == [j \in DOMAIN ledger |-> f[j]]
    <3>3. ASSUME NEW j \in 1..N PROVE g[j] = From(g, j)
      <4>1. Visible(u, ledger[j].corrects) => ledger[j].corrects \in DOMAIN ledger
        BY DEF Visible
      <4>2. From(g, j) = From(f, j)
        BY <4>1
      <4>. QED
        BY <1>1, <3>2, <4>2
    <3>4. g = [j \in DOMAIN ledger |-> g[j]]
      OBVIOUS
    <3>5. g = [j \in DOMAIN ledger |-> From(g, j)]
      <4>. HIDE DEF g
      <4>. QED
        BY <1>1, <3>3, <3>4
    <3>. QED
      BY <3>5
  <2>. QED
    BY <2>1, <2>2
<1>5. trail = [j \in DOMAIN ledger |-> From(trail, j)]
  <2>1. trail = CHOOSE f : f = [j \in DOMAIN ledger |-> From(f, j)]
    OBVIOUS
  <2>. HIDE DEF trail
  <2>. QED
    BY <1>4, <2>1
<1>6. \A j \in DOMAIN ledger : WalkBack(u, j) = trail[j]
  BY DEF WalkBack
<1>. HIDE DEF trail
<1>7. Visible(u, ledger[i].corrects) => ledger[i].corrects \in DOMAIN ledger
  BY DEF Visible
<1>. QED
  BY <1>5, <1>6, <1>7

\* The walk back visits rows up to the one it started from.
LEMMA WalkBackType ==
  ASSUME LinksGoBack, NEW u \in Users, NEW i \in DOMAIN ledger
  PROVE  WalkBack(u, i) \in Seq(1..i) /\ WalkBack(u, i) # << >>
<1>. DEFINE N == Len(ledger)
            Fine(j) == WalkBack(u, j) \in Seq(1..j) /\ WalkBack(u, j) # << >>
            Wrong == {j \in 1..N : ~ Fine(j)}
<1>1. DOMAIN ledger = 1..N /\ N \in Nat
  BY OriginalIsEarlier
<1>. SUFFICES ASSUME Wrong # {} PROVE FALSE
  BY <1>1
<1>2. PICK n \in Wrong : \A k \in Wrong : n <= k
  <2>. Wrong \in SUBSET (1..N)
    OBVIOUS
  <2>. HIDE DEF Wrong
  <2>. QED
    BY <1>1, LeastElement
<1>. DEFINE c == ledger[n].corrects
<1>3. << n >> \in Seq(1..n) /\ << n >> # << >> /\ Len(<< n >>) = 1
  BY <1>1
<1>4. CASE Visible(u, c)
  <2>1. c \in 1..(n - 1)
    BY <1>1, <1>4, OriginalIsEarlier
  <2>2. WalkBack(u, c) \in Seq(1..c)
    BY <1>1, <1>2, <2>1
  <2>3. WalkBack(u, c) \in Seq(1..n)
    <3>1. 1..c \subseteq 1..n
      BY <1>1, <2>1
    <3>. QED
      BY <2>2, <3>1, SeqMonotonic
  <2>4. WalkBack(u, n) = << n >> \o WalkBack(u, c)
    BY <1>1, <1>4, WalkBackEquation
  <2>5. /\ << n >> \o WalkBack(u, c) \in Seq(1..n)
        /\ << n >> \o WalkBack(u, c) # << >>
    BY <1>3, <2>3, ConcatProperties, ConcatEqualIffEmpty
  <2>. QED
    BY <2>4, <2>5
<1>5. CASE ~ Visible(u, c)
  BY <1>1, <1>3, <1>5, WalkBackEquation
<1>. QED
  BY <1>4, <1>5

\* The root of a row is the root of its original, or the row itself.
LEMMA RootEquation ==
  ASSUME LinksGoBack, NEW u \in Users, NEW i \in DOMAIN ledger
  PROVE  /\ RootOf(u, i) \in 1..i
         /\ RootOf(u, i) = IF Visible(u, ledger[i].corrects)
                           THEN RootOf(u, ledger[i].corrects) ELSE i
<1>. DEFINE c == ledger[i].corrects
            back == WalkBack(u, i)
<1>1. DOMAIN ledger = 1..Len(ledger) /\ Len(ledger) \in Nat
  BY OriginalIsEarlier
<1>2. back \in Seq(1..i) /\ back # << >>
  BY WalkBackType
<1>3. RootOf(u, i) \in 1..i
  <2>. HIDE DEF back
  <2>1. Len(back) \in Nat \ {0}
    BY <1>2, EmptySeq
  <2>2. back[Len(back)] \in 1..i
    BY <1>2, <2>1, ElementOfSeq
  <2>. QED
    BY <2>2 DEF RootOf, back
<1>4. CASE Visible(u, c)
  <2>. DEFINE rest == WalkBack(u, c)
  <2>1. c \in 1..(i - 1)
    BY <1>4, OriginalIsEarlier
  <2>2. rest \in Seq(1..c) /\ rest # << >>
    BY <1>1, <2>1, WalkBackType
  <2>3. back = << i >> \o rest
    BY <1>4, WalkBackEquation
  <2>4. RootOf(u, i) = back[Len(back)] /\ RootOf(u, c) = rest[Len(rest)]
    BY DEF RootOf
  <2>. HIDE DEF back, rest, c
  <2>5. << i >> \in Seq(1..i) /\ Len(<< i >>) = 1
    BY <1>1
  <2>6. 1..c \subseteq 1..i
    BY <1>1, <2>1
  <2>7. rest \in Seq(1..i) /\ Len(rest) \in Nat \ {0}
    BY <2>2, <2>6, SeqMonotonic, EmptySeq
  <2>8. back[Len(back)] = rest[Len(rest)]
    BY <2>3, <2>5, <2>7, ConcatProperties
  <2>. QED
    BY <1>3, <1>4, <2>4, <2>8 DEF c
<1>5. CASE ~ Visible(u, c)
  <2>1. back = << i >>
    BY <1>5, WalkBackEquation
  <2>. QED
    BY <1>3, <1>5, <2>1 DEF RootOf
<1>. QED
  BY <1>4, <1>5
-----------------------------------------------------------------------------
(* The walk forward.                                                       *)

\* The answer after one more forward query: what CorrectionHistory appends.
Followed(u, i, sofar) ==
  LET back  == WalkBack(u, i)
      found == NextQuery(u, sofar[Len(sofar)])
      next  == CHOOSE j \in found : TRUE
      seen  == {back[k] : k \in DOMAIN back} \cup {sofar[k] : k \in DOMAIN sofar}
  IN IF found = {} \/ next \in seen THEN sofar ELSE Append(sofar, next)

\* The walk forward exists, so the answer is its last stage.
LEMMA WalkForwardEquation ==
  ASSUME LinksGoBack, NEW u \in Users, NEW i \in DOMAIN ledger
  PROVE  \E chain : /\ CorrectionHistory(u, i) = chain[Len(ledger)]
                    /\ chain[1] = << RootOf(u, i) >>
                    /\ \A n \in 2..Len(ledger) : chain[n] = Followed(u, i, chain[n - 1])
<1>. DEFINE N == Len(ledger)
            back == WalkBack(u, i)
            From(f, n) == IF n = 1 THEN << back[Len(back)] >> ELSE Followed(u, i, f[n - 1])
            Solves(f, n) == \A j \in 1..n : f[j] = From(f, j)
            Unsolved == {n \in 1..N : ~ \E f : Solves(f, n)}
            chain[n \in 1..Len(ledger)] ==
              IF n = 1 THEN << back[Len(back)] >>
              ELSE LET sofar == chain[n - 1]
                       found == NextQuery(u, sofar[Len(sofar)])
                       next  == CHOOSE j \in found : TRUE
                       seen  == {back[k] : k \in DOMAIN back} \cup {sofar[k] : k \in DOMAIN sofar}
                   IN IF found = {} \/ next \in seen THEN sofar ELSE Append(sofar, next)
<1>1. DOMAIN ledger = 1..N /\ N \in Nat /\ N # 0
  BY OriginalIsEarlier
<1>2. CorrectionHistory(u, i) = chain[N]
  BY DEF CorrectionHistory
<1>3. chain = CHOOSE f : f = [n \in 1..N |-> From(f, n)]
  BY DEF Followed
<1>. HIDE DEF N, back, chain
<1>4. Unsolved = {}
  <2>. SUFFICES ASSUME Unsolved # {} PROVE FALSE
    OBVIOUS
  <2>1. PICK n \in Unsolved : \A k \in Unsolved : n <= k
    <3>. Unsolved \in SUBSET (1..N)
      OBVIOUS
    <3>. HIDE DEF Unsolved
    <3>. QED
      BY <1>1, LeastElement
  <2>2. \E f : Solves(f, n - 1)
    <3>1. CASE n = 1
      BY <3>1
    <3>2. CASE n # 1
      <4>1. n \in 1..N /\ n - 1 \in 1..N /\ ~ (n <= n - 1)
        BY <1>1, <3>2
      <4>2. n - 1 \notin Unsolved
        BY <2>1, <4>1
      <4>. HIDE DEF Solves
      <4>. QED
        BY <4>1, <4>2
    <3>. QED
      BY <3>1, <3>2
  <2>3. PICK f : Solves(f, n - 1)
    BY <2>2
  <2>. DEFINE g == [j \in 1..n |-> IF j = n THEN From(f, n) ELSE f[j]]
  <2>4. ASSUME NEW j \in 1..n PROVE g[j] = From(g, j)
    <3>1. j = 1 \/ (j - 1 \in 1..n /\ j - 1 # n)
      BY <1>1
    <3>2. From(g, j) = From(f, j)
      BY <3>1
    <3>3. j # n => j \in 1..(n - 1)
      BY <1>1
    <3>. QED
      BY <2>3, <3>2, <3>3
  <2>5. Solves(g, n)
    BY <2>4
  <2>. QED
    BY <2>5
<1>5. \E f : f = [n \in 1..N |-> From(f, n)]
  <2>1. N \in 1..N
    BY <1>1
  <2>2. PICK f : Solves(f, N)
    BY <1>4, <2>1
  <2>. DEFINE g == [j \in 1..N |-> f[j]]
  <2>3. ASSUME NEW j \in 1..N PROVE g[j] = From(g, j)
    <3>1. j = 1 \/ j - 1 \in 1..N
      BY <1>1
    <3>2. From(g, j) = From(f, j)
      BY <3>1
    <3>. QED
      BY <2>2, <3>2
  <2>4. g = [j \in 1..N |-> g[j]]
    OBVIOUS
  <2>5. g = [j \in 1..N |-> From(g, j)]
    <3>. HIDE DEF g
    <3>. QED
      BY <2>3, <2>4
  <2>. QED
    BY <2>5
<1>6. chain = [n \in 1..N |-> From(chain, n)]
  BY <1>3, <1>5
<1>7. chain[1] = << RootOf(u, i) >>
  <2>1. 1 \in 1..N
    BY <1>1
  <2>. QED
    BY <1>6, <2>1 DEF RootOf, back
<1>8. \A n \in 2..N : chain[n] = Followed(u, i, chain[n - 1])
  <2>1. \A n \in 2..N : n \in 1..N /\ n # 1
    BY <1>1
  <2>. QED
    BY <1>6, <2>1
<1>. QED
  BY <1>2, <1>7, <1>8 DEF N

\* A place before the last has a next one.
LEMMA NextPlace ==
  ASSUME NEW n \in Nat, NEW k \in 1..n
  PROVE  /\ k # n => k \in 1..(n - 1) /\ k + 1 \in 1..n
         /\ k = n \/ k \in 1..(n - 1)
OBVIOUS

\* A row that is its own root: its walk back is itself.
LEMMA WalkBackOfRoot ==
  ASSUME LinksGoBack, NEW u \in Users, NEW i \in DOMAIN ledger, RootOf(u, i) = i
  PROVE  WalkBack(u, i) = << i >> /\ ~ Visible(u, ledger[i].corrects)
<1>1. ~ Visible(u, ledger[i].corrects)
  <2>. SUFFICES ASSUME Visible(u, ledger[i].corrects) PROVE FALSE
    OBVIOUS
  <2>1. ledger[i].corrects \in 1..(i - 1) /\ ledger[i].corrects \in DOMAIN ledger /\ i \in Nat
    BY OriginalIsEarlier DEF Visible
  <2>2. i = RootOf(u, ledger[i].corrects) /\ RootOf(u, ledger[i].corrects) \in 1..ledger[i].corrects
    BY <2>1, RootEquation
  <2>. QED
    BY <2>1, <2>2
<1>. QED
  BY <1>1, WalkBackEquation

\* A stretch of the chain of root i: each row corrects the one before.
Stretch(u, i, s) ==
  /\ s \in Seq(DOMAIN ledger) /\ s # << >> /\ s[1] = i
  /\ \A k \in 1..Len(s) : /\ Visible(u, s[k]) /\ RootOf(u, s[k]) = i
                          /\ k <= s[k] /\ s[k] <= s[Len(s)]
  /\ \A k \in 1..(Len(s) - 1) : ledger[s[k + 1]].corrects = s[k]

\* One query lengthens the stretch, or its last row has no correction.
LEMMA FollowedStretch ==
  ASSUME LinksGoBack, NEW u \in Users, NEW i \in DOMAIN ledger, RootOf(u, i) = i,
         NEW s, Stretch(u, i, s)
  PROVE  \/ /\ Corrections(u, s[Len(s)]) = {}
            /\ Followed(u, i, s) = s
         \/ /\ Stretch(u, i, Followed(u, i, s))
            /\ Len(Followed(u, i, s)) = Len(s) + 1
<1>. DEFINE found == Corrections(u, s[Len(s)])
            next == CHOOSE j \in found : TRUE
            last == s[Len(s)]
            t == Append(s, next)
<1>1. /\ s \in Seq(DOMAIN ledger) /\ s[1] = i
      /\ Len(s) \in Nat \ {0} /\ DOMAIN s = 1..Len(s)
  BY EmptySeq, LenProperties DEF Stretch
<1>2. DOMAIN ledger = 1..Len(ledger) /\ Len(ledger) \in Nat
  BY OriginalIsEarlier
<1>3. CASE found = {}
  BY <1>3 DEF Followed, NextQuery
<1>4. CASE found # {}
  <2>1. next \in found
    BY <1>4
  <2>2. next \in DOMAIN ledger /\ ledger[next].corrects = last /\ Visible(u, next)
    BY <2>1 DEF Corrections
  <2>3. \A k \in 1..Len(s) : /\ s[k] \in DOMAIN ledger /\ Visible(u, s[k]) /\ RootOf(u, s[k]) = i
                             /\ k <= s[k] /\ s[k] <= last
    BY <1>1, ElementOfSeq DEF Stretch
  <2>4. last \in DOMAIN ledger /\ Visible(u, last) /\ RootOf(u, last) = i /\ Len(s) <= last
    BY <1>1, <2>3
  <2>. HIDE DEF next, last, found
  <2>5. last < next /\ RootOf(u, next) = i
    BY <1>2, <2>2, <2>4, OriginalIsEarlier, RootEquation
  <2>6. \A k \in 1..Len(s) : s[k] # next
    BY <1>2, <2>2, <2>3, <2>4, <2>5
  <2>7. Followed(u, i, s) = t
    <3>. DEFINE back == WalkBack(u, i)
    <3>1. {back[k] : k \in DOMAIN back} = {s[1]}
      <4>1. back = << s[1] >>
        BY <1>1, WalkBackOfRoot
      <4>. HIDE DEF back
      <4>2. DOMAIN back = {1} /\ back[1] = s[1]
        BY <4>1
      <4>. QED
        BY <4>2
    <3>2. next \notin {back[k] : k \in DOMAIN back} \cup {s[k] : k \in DOMAIN s}
      <4>. HIDE DEF back
      <4>1. 1 \in 1..Len(s)
        BY <1>1
      <4>. QED
        BY <1>1, <2>6, <3>1, <4>1
    <3>. QED
      BY <1>4, <3>2 DEF Followed, NextQuery, next, found, last
  <2>8. /\ t \in Seq(DOMAIN ledger) /\ t # << >> /\ Len(t) = Len(s) + 1
        /\ \A k \in 1..Len(s) : t[k] = s[k]
        /\ t[Len(s) + 1] = next
    BY <1>1, <2>2, AppendProperties
  <2>. HIDE DEF t
  <2>9. ASSUME NEW k \in 1..Len(t)
        PROVE  /\ Visible(u, t[k]) /\ RootOf(u, t[k]) = i
               /\ k <= t[k] /\ t[k] <= t[Len(t)]
    <3>1. CASE k \in 1..Len(s)
      BY <1>1, <1>2, <2>2, <2>3, <2>4, <2>5, <2>8, <3>1
    <3>2. CASE k = Len(s) + 1
      BY <1>1, <1>2, <2>2, <2>4, <2>5, <2>8, <3>2
    <3>. QED
      BY <1>1, <2>8, <3>1, <3>2
  <2>10. ASSUME NEW k \in 1..(Len(t) - 1) PROVE ledger[t[k + 1]].corrects = t[k]
    <3>1. CASE k \in 1..(Len(s) - 1)
      <4>1. k \in 1..Len(s) /\ k + 1 \in 1..Len(s)
        BY <1>1, <3>1
      <4>. QED
        BY <2>8, <3>1, <4>1 DEF Stretch
    <3>2. CASE k = Len(s)
      BY <1>1, <2>2, <2>8, <3>2 DEF last
    <3>3. k \in 1..Len(s)
      BY <1>1, <2>8
    <3>. QED
      BY <1>1, <3>1, <3>2, <3>3, NextPlace
  <2>11. t[1] = i
    BY <1>1, <2>8
  <2>12. Stretch(u, i, t)
    BY <2>8, <2>9, <2>10, <2>11 DEF Stretch
  <2>. QED
    BY <2>7, <2>8, <2>12
<1>. QED
  BY <1>3, <1>4

\* From a first entry the answer is a stretch whose last row has no correction.
LEMMA AnswerIsStretch ==
  ASSUME LinksGoBack, NEW u \in Users, NEW i \in DOMAIN ledger,
         Visible(u, i), RootOf(u, i) = i
  PROVE  /\ Stretch(u, i, CorrectionHistory(u, i))
         /\ LET answer == CorrectionHistory(u, i)
            IN Corrections(u, answer[Len(answer)]) = {}
<1>. DEFINE N == Len(ledger)
<1>1. DOMAIN ledger = 1..N /\ N \in Nat /\ i \in 1..N
  BY OriginalIsEarlier
<1>. HIDE DEF N
<1>2. PICK chain : /\ CorrectionHistory(u, i) = chain[N]
                   /\ chain[1] = << i >>
                   /\ \A n \in 2..N : chain[n] = Followed(u, i, chain[n - 1])
  <2>1. PICK chain : /\ CorrectionHistory(u, i) = chain[Len(ledger)]
                     /\ chain[1] = << RootOf(u, i) >>
                     /\ \A n \in 2..Len(ledger) : chain[n] = Followed(u, i, chain[n - 1])
    BY WalkForwardEquation
  <2>2. chain[1] = << i >>
    BY <2>1
  <2>. QED
    BY <2>1, <2>2 DEF N
<1>. DEFINE Ended(s) == Corrections(u, s[Len(s)]) = {}
            Fine(n) == Stretch(u, i, chain[n]) /\ (Len(chain[n]) = n \/ Ended(chain[n]))
            Wrong == {n \in 1..N : ~ Fine(n)}
<1>3. Fine(1)
  <2>1. /\ << i >> \in Seq(DOMAIN ledger) /\ << i >> # << >> /\ Len(<< i >>) = 1
        /\ << i >>[1] = i
    OBVIOUS
  <2>2. Stretch(u, i, << i >>)
    BY <1>1, <2>1 DEF Stretch
  <2>. QED
    BY <1>2, <2>1, <2>2
<1>4. ASSUME NEW n \in 2..N, Fine(n - 1) PROVE Fine(n)
  <2>. DEFINE s == chain[n - 1]
  <2>1. chain[n] = Followed(u, i, s) /\ Stretch(u, i, s) /\ (Len(s) = n - 1 \/ Ended(s))
    BY <1>2, <1>4
  <2>. HIDE DEF s
  <2>2. CASE Ended(s)
    <3>1. Followed(u, i, s) = s
      BY <2>2 DEF Followed, NextQuery
    <3>. QED
      BY <2>1, <2>2, <3>1
  <2>3. CASE ~ Ended(s)
    <3>1. Stretch(u, i, Followed(u, i, s)) /\ Len(Followed(u, i, s)) = Len(s) + 1
      BY <2>1, <2>3, FollowedStretch
    <3>2. Len(Followed(u, i, s)) = n
      BY <1>1, <2>1, <2>3, <3>1
    <3>. QED
      BY <2>1, <3>1, <3>2
  <2>. QED
    BY <2>2, <2>3
<1>. HIDE DEF N, Fine
<1>5. Wrong = {}
  <2>. SUFFICES ASSUME Wrong # {} PROVE FALSE
    OBVIOUS
  <2>1. PICK n \in Wrong : \A k \in Wrong : n <= k
    <3>. Wrong \in SUBSET (1..N)
      OBVIOUS
    <3>. HIDE DEF Wrong
    <3>. QED
      BY <1>1, LeastElement
  <2>2. n \in 2..N /\ n - 1 \in 1..N /\ ~ (n <= n - 1)
    BY <1>1, <1>3
  <2>3. Fine(n - 1)
    BY <2>1, <2>2
  <2>. QED
    BY <1>4, <2>2, <2>3
<1>6. Fine(N)
  BY <1>1, <1>5
<1>. DEFINE answer == CorrectionHistory(u, i)
<1>7. Stretch(u, i, answer) /\ (Len(answer) = N \/ Ended(answer))
  BY <1>2, <1>6 DEF Fine
<1>. HIDE DEF answer
<1>8. CASE Len(answer) = N
  <2>1. N <= answer[N] /\ answer[N] \in 1..N
    <3>1. N \in 1..Len(answer) /\ answer \in Seq(DOMAIN ledger)
      BY <1>1, <1>7, <1>8 DEF Stretch
    <3>. QED
      BY <1>1, <1>7, <3>1, ElementOfSeq DEF Stretch
  <2>2. answer[Len(answer)] = N
    BY <1>1, <1>8, <2>1
  <2>3. ASSUME NEW j \in Corrections(u, N) PROVE FALSE
    <3>1. j \in DOMAIN ledger /\ ledger[j].corrects = N /\ N # 0
      BY <1>1, <2>3 DEF Corrections
    <3>. QED
      BY <1>1, <3>1 DEF LinksGoBack
  <2>4. Ended(answer)
    BY <2>2, <2>3
  <2>. QED
    BY <1>7, <2>4 DEF answer
<1>. QED
  BY <1>7, <1>8 DEF answer
-----------------------------------------------------------------------------
(* The chain and its one active entry.                                     *)

\* Where chains do not branch, every row of the chain is on the stretch.
LEMMA AnswerIsChain ==
  ASSUME LinksGoBack, OneCorrection, NEW u \in Users, NEW i \in DOMAIN ledger,
         Visible(u, i), RootOf(u, i) = i
  PROVE  ListsChain(u, i)
<1>. DEFINE N == Len(ledger)
            answer == CorrectionHistory(u, i)
            Listed == {answer[k] : k \in DOMAIN answer}
            Chain == ChainOf(u, i)
            Missing == {j \in 1..N : j \in Chain /\ j \notin Listed}
<1>1. DOMAIN ledger = 1..N /\ N \in Nat
  BY OriginalIsEarlier
<1>2. Stretch(u, i, answer) /\ Corrections(u, answer[Len(answer)]) = {}
  BY AnswerIsStretch
<1>. HIDE DEF answer
<1>3. /\ answer \in Seq(DOMAIN ledger) /\ DOMAIN answer = 1..Len(answer)
      /\ Len(answer) \in Nat \ {0} /\ answer[1] = i
  BY <1>2, LenProperties, EmptySeq DEF Stretch
<1>4. Listed \subseteq Chain
  BY <1>2, <1>3, ElementOfSeq DEF Stretch, ChainOf
<1>5. Missing = {}
  <2>. SUFFICES ASSUME Missing # {} PROVE FALSE
    OBVIOUS
  <2>1. PICK m \in Missing : \A k \in Missing : m <= k
    <3>. Missing \in SUBSET (1..N)
      OBVIOUS
    <3>. HIDE DEF Missing
    <3>. QED
      BY <1>1, LeastElement
  <2>. DEFINE c == ledger[m].corrects
  <2>2. m \in DOMAIN ledger /\ Visible(u, m) /\ RootOf(u, m) = i /\ m \notin Listed
    BY <1>1, <2>1 DEF ChainOf
  <2>3. m # i
    BY <1>3, <2>2
  <2>4. Visible(u, c) /\ RootOf(u, c) = i
    BY <2>2, <2>3, RootEquation
  <2>5. c \in DOMAIN ledger /\ c \in 1..N /\ c < m /\ c # 0
    BY <1>1, <2>2, <2>4, OriginalIsEarlier
  <2>6. c \in Chain
    BY <2>4, <2>5 DEF ChainOf
  <2>7. c \in Listed
    BY <1>1, <2>1, <2>2, <2>5, <2>6
  <2>8. PICK k \in 1..Len(answer) : answer[k] = c
    BY <1>3, <2>7
  <2>9. CASE k = Len(answer)
    BY <1>2, <2>2, <2>8, <2>9 DEF Corrections
  <2>10. CASE k # Len(answer)
    <3>1. k \in 1..(Len(answer) - 1) /\ k + 1 \in 1..Len(answer)
      BY <1>3, <2>10, NextPlace
    <3>2. ledger[answer[k + 1]].corrects = c /\ answer[k + 1] \in DOMAIN ledger
      BY <1>2, <1>3, <2>8, <3>1, ElementOfSeq DEF Stretch
    <3>3. answer[k + 1] = m
      BY <2>2, <2>5, <3>2 DEF OneCorrection
    <3>. QED
      BY <1>3, <2>2, <3>1, <3>3
  <2>. QED
    BY <2>9, <2>10
<1>6. Listed = Chain
  BY <1>1, <1>4, <1>5 DEF ChainOf
<1>. QED
  BY <1>2, <1>6 DEF ListsChain, Stretch, answer

LEMMA ChainsAreListed == ChainInv => HistoryFromFirstEntry
BY ChainsLink, AnswerIsChain DEF ChainInv, HistoryFromFirstEntry

\* Every entry of an answer but the last was corrected, so it is retired.
LEMMA LastIsActive ==
  ASSUME ChainInv, NEW u \in Users, NEW r \in DOMAIN ledger, Visible(u, r), RootOf(u, r) = r,
         NEW j \in ChainOf(u, r), ledger[j].status = "active"
  PROVE  LET answer == CorrectionHistory(u, r) IN j = answer[Len(answer)]
<1>. DEFINE answer == CorrectionHistory(u, r)
<1>1. LinksGoBack /\ OneCorrection /\ SupersededIsRetired
  BY ChainsLink DEF ChainInv, HeldInv, SerialInv, LedgerInv
<1>2. Stretch(u, r, answer)
  BY <1>1, AnswerIsStretch
<1>3. {answer[k] : k \in DOMAIN answer} = ChainOf(u, r)
  BY <1>1, AnswerIsChain DEF ListsChain
<1>. HIDE DEF answer
<1>4. answer \in Seq(DOMAIN ledger) /\ DOMAIN answer = 1..Len(answer) /\ Len(answer) \in Nat
  BY <1>2, LenProperties DEF Stretch
<1>5. PICK k \in 1..Len(answer) : answer[k] = j
  BY <1>3, <1>4
<1>6. CASE k = Len(answer)
  BY <1>5, <1>6 DEF answer
<1>7. CASE k # Len(answer)
  <2>1. k \in 1..(Len(answer) - 1) /\ k + 1 \in 1..Len(answer)
    BY <1>4, <1>7, NextPlace
  <2>2. ledger[answer[k + 1]].corrects = j /\ answer[k + 1] \in DOMAIN ledger
    BY <1>2, <1>4, <1>5, <2>1, ElementOfSeq DEF Stretch
  <2>3. j # 0
    <3>1. j \in DOMAIN ledger
      BY DEF ChainOf
    <3>. QED
      BY <1>1, <3>1, LenProperties DEF LinksGoBack
  <2>. QED
    BY <1>1, <2>2, <2>3 DEF SupersededIsRetired
<1>. QED
  BY <1>6, <1>7

\* The root of a visible row is a visible row, and its own root.
LEMMA RootIsRoot ==
  ASSUME LinksGoBack, NEW u \in Users, NEW i \in DOMAIN ledger, Visible(u, i)
  PROVE  /\ RootOf(u, i) \in DOMAIN ledger /\ Visible(u, RootOf(u, i))
         /\ RootOf(u, RootOf(u, i)) = RootOf(u, i)
<1>. DEFINE N == Len(ledger)
            Fine(j) == /\ RootOf(u, j) \in DOMAIN ledger /\ Visible(u, RootOf(u, j))
                       /\ RootOf(u, RootOf(u, j)) = RootOf(u, j)
            Wrong == {j \in 1..N : Visible(u, j) /\ ~ Fine(j)}
<1>1. DOMAIN ledger = 1..N /\ N \in Nat
  BY OriginalIsEarlier
<1>. SUFFICES ASSUME Wrong # {} PROVE FALSE
  BY <1>1
<1>2. PICK n \in Wrong : \A k \in Wrong : n <= k
  <2>. Wrong \in SUBSET (1..N)
    OBVIOUS
  <2>. HIDE DEF Wrong
  <2>. QED
    BY <1>1, LeastElement
<1>. DEFINE c == ledger[n].corrects
<1>. HIDE DEF Fine
<1>3. CASE Visible(u, c)
  <2>1. c \in 1..N /\ ~ (n <= c)
    BY <1>1, <1>3, OriginalIsEarlier
  <2>2. Fine(c)
    BY <1>2, <1>3, <2>1
  <2>3. RootOf(u, n) = RootOf(u, c)
    BY <1>1, <1>3, RootEquation
  <2>. QED
    BY <2>2, <2>3 DEF Fine
<1>4. CASE ~ Visible(u, c)
  <2>1. RootOf(u, n) = n
    BY <1>1, <1>4, RootEquation
  <2>. QED
    BY <1>1, <2>1 DEF Fine
<1>. QED
  BY <1>3, <1>4

LEMMA OneEntryIsActive == ChainInv => AtMostOneActivePerChain
<1>. SUFFICES ASSUME ChainInv, NEW u \in Users, NEW i \in DOMAIN ledger, NEW j \in DOMAIN ledger,
                     Visible(u, i), ledger[i].status = "active",
                     Visible(u, j), ledger[j].status = "active",
                     RootOf(u, i) = RootOf(u, j)
              PROVE  i = j
  BY DEF AtMostOneActivePerChain
<1>. DEFINE r == RootOf(u, i)
<1>1. r \in DOMAIN ledger /\ Visible(u, r) /\ RootOf(u, r) = r
  BY ChainsLink, RootIsRoot
<1>. HIDE DEF r
<1>2. i \in ChainOf(u, r) /\ j \in ChainOf(u, r)
  BY <1>1 DEF ChainOf, r
<1>. QED
  BY <1>1, <1>2, LastIsActive

\* An expense that was corrected any number of times, by handlers that fail and die
\* between their statements, enters the totals at most once, for any number of
\* users and rows, as long as a user's requests do not overlap.
THEOREM ChainsCountOnce == SerialSpec => []AtMostOneActivePerChain
BY ChainInvInit, ChainInvNext, OneEntryIsActive, PTL DEF SerialSpec

\* GetCorrectionHistory answers a first entry with its whole chain, in order, under
\* the same condition.
THEOREM FirstEntryListsItsChain == SerialSpec => []HistoryFromFirstEntry
BY ChainInvInit, ChainInvNext, ChainsAreListed, PTL DEF SerialSpec
=============================================================================
