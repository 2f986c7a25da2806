---------------------------- MODULE ExpenseReads ----------------------------
(***************************************************************************)
(* What the expense service answers to reads of one user's rows: the pages *)
(* of a month's listing, the count of a tag, the installments of a plan,   *)
(* and the suggestions for a new expense.                                  *)
(*                                                                         *)
(* A row is a record of id, name, at (the day of created_at, numbered),    *)
(* date, year and month (its period), type, tag, amount, group (its        *)
(* pro-rata plan or NoGroup), index and active.  Names are numbers,        *)
(* compared like the strings.                                              *)
(***************************************************************************)
EXTENDS Integers, Sequences, FiniteSets, SequencesExt

CONSTANTS DefaultPageSize, MaxPageSize

NoGroup == "no group"

Active(rows) == {r \in rows : r.active}

ActiveOfPeriod(rows, year, month) == {r \in Active(rows) : r.year = year /\ r.month = month}

\* ORDER BY: the i-th has i - 1 before it.
InOrder(set, Before(_, _)) ==
  [i \in 1..Cardinality(set) |-> CHOOSE r \in set : 1 + Cardinality({s \in set : Before(s, r)}) = i]
-----------------------------------------------------------------------------
(* Listing a month.                                                        *)

\* Parameters of a request: whatever is no positive number is replaced.
PageAsked(page) == IF page > 0 THEN page ELSE 1
SizeAsked(size) == IF size > 0 THEN size ELSE DefaultPageSize

PageSizeUsed(size) == IF size \in 1..MaxPageSize THEN size ELSE DefaultPageSize

DateNumber(date) == 10000 * date[1] + 100 * date[2] + date[3]

\* ORDER BY expense_date DESC, created_at DESC; the rest is up to the database.
ListedBefore(r, s) ==
  \/ DateNumber(r.date) > DateNumber(s.date)
  \/ r.date = s.date /\ r.at > s.at
  \/ r.date = s.date /\ r.at = s.at /\ r.id < s.id

\* LIMIT size OFFSET (page - 1) * size
PageOf(list, page, size) ==
  LET last == IF page * size < Len(list) THEN page * size ELSE Len(list)
  IN SubSeq(list, (page - 1) * size + 1, last)

\* Mutated condition: a full page promises another one.
HasMoreIfFull(page, size, total) == page * size <= total

HasMore(page, size, total) == page * size < total

GetActiveExpensesForPeriod(rows, year, month, page, size) ==
  LET list == InOrder(ActiveOfPeriod(rows, year, month), ListedBefore)
      used == PageSizeUsed(size)
  IN [data |-> PageOf(list, PageAsked(page), used), total |-> Len(list), page |-> PageAsked(page),
      pageSize |-> used, hasMore |-> HasMore(PageAsked(page), used, Len(list))]

\* GET /api/expenses
GetExpenses(rows, year, month, page, size) ==
  GetActiveExpensesForPeriod(rows, year, month, PageAsked(page), SizeAsked(size))

CountExpensesByTag(rows, tag) == Cardinality({r \in Active(rows) : r.tag = tag})

\* Every row of the plan, corrected ones too.
IndexedBefore(r, s) == r.index < s.index \/ (r.index = s.index /\ r.id < s.id)
GetExpensesInProRataGroup(rows, group) == InOrder({r \in rows : r.group = group}, IndexedBefore)
-----------------------------------------------------------------------------
(* Suggestions.                                                            *)

IsNewer(r, s) == r.at > s.at \/ (r.at = s.at /\ r.id > s.id)

\* recencyBucket: today, the last seven days, the last thirty days, older.
Weight(at, today) ==
  CASE at = today -> 8
    [] at # today /\ today - at <= 7 -> 4
    [] today - at > 7 /\ today - at <= 30 -> 2
    [] OTHER -> 1

\* A plan's installments count once.
Frequency(uses) ==
  Cardinality({r \in uses : r.group = NoGroup}) + Cardinality({r.group : r \in uses} \ {NoGroup})

Suggestion(uses, today) ==
  LET latest == CHOOSE r \in uses : \A s \in uses : s = r \/ IsNewer(r, s)
  IN [name |-> latest.name, amount |-> latest.amount, type |-> latest.type, tag |-> latest.tag,
      frequency |-> Frequency(uses), lastUsed |-> latest.at,
      score |-> Frequency(uses) * Weight(latest.at, today)]

SuggestedBefore(s, t) ==
  \/ s.score > t.score
  \/ s.score = t.score /\ s.lastUsed > t.lastUsed
  \/ s.score = t.score /\ s.lastUsed = t.lastUsed /\ s.name < t.name

AggregateSuggestions(rows, today) ==
  {Suggestion({r \in Active(rows) : r.name = name}, today) : name \in {r.name : r \in Active(rows)}}

\* page and size are checked before: size is in 1..MaxPageSize.
GetExpenseSuggestions(rows, today, page, size) ==
  LET list == InOrder(AggregateSuggestions(rows, today), SuggestedBefore)
      end == IF page * size < Len(list) THEN page * size ELSE Len(list)
  IN [data |-> IF (page - 1) * size >= Len(list) THEN << >> ELSE PageOf(list, page, size),
      total |-> Len(list),
      hasMore |-> (page - 1) * size < Len(list) /\ end < Len(list)]
-----------------------------------------------------------------------------
(* What holds of every input.                                              *)

\* Pages 1, 2, ... of the answers, as long as they promise more, and what they list.
PagesFollowed(answers) == {p \in DOMAIN answers : \A q \in 1..(p - 1) : answers[q].hasMore}
Seen(answers) == FlattenSeq([p \in 1..Cardinality(PagesFollowed(answers)) |-> answers[p].data])

\* The pages list a set once, in order, and none that was promised is empty.
Lists(answers, set, Before(_, _)) ==
  /\ ToSet(Seen(answers)) = set
  /\ \A i, j \in DOMAIN Seen(answers) : i < j => Before(Seen(answers)[i], Seen(answers)[j])
  /\ \A p \in PagesFollowed(answers) : p > 1 => answers[p].data # << >>

\* GetActiveExpensesForPeriod, GetExpenseSuggestions: a client that asks for pages
\* as long as it is promised more sees every active row, or name, exactly once and
\* in order, no page it was promised is empty, each row is counted under its
\* tag and listed with its plan, and a plan counts for one use however many
\* installments it has.
ListingsArePaged(rows, year, month, today, size) ==
  LET pages == 1..(Cardinality(rows) + 1)
      listed == ActiveOfPeriod(rows, year, month)
      suggested == AggregateSuggestions(rows, today)
  IN /\ Lists([p \in pages |-> GetExpenses(rows, year, month, p, size)], listed, ListedBefore)
     /\ \A r \in listed :
          /\ CountExpensesByTag(rows, r.tag) >= Cardinality({s \in listed : s.tag = r.tag})
          /\ r.group # NoGroup => r \in ToSet(GetExpensesInProRataGroup(rows, r.group))
     /\ Lists([p \in pages |-> GetExpenseSuggestions(rows, today, p, PageSizeUsed(size))], suggested, SuggestedBefore)
     /\ \A r \in Active(rows) : \E s \in suggested : s.name = r.name
     /\ \A s \in suggested : s.frequency \in 1..Cardinality({r \in Active(rows) : r.name = s.name})
=============================================================================
