------------------------------- MODULE Export -------------------------------
(***************************************************************************)
(* One run of an export job: the engine reads the finance data once, runs  *)
(* its providers next to each other, packs what they collected and mails   *)
(* it.  One provider takes the expenses from the expense service's stream, *)
(* in which a producer pages through the table and a consumer sends, while *)
(* the user goes on writing expenses.                                      *)
(*                                                                         *)
(* A row is stamped before it is inserted, to the second, and its id is    *)
(* random, so a row may be inserted at any place of the stream's order.    *)
(* Rows are active or corrected alike.  A tag can be deleted that only     *)
(* corrected rows carry, and the stream has these rows too, so a row's tag *)
(* may be gone; which deletions the counts let pass is in Accounts.        *)
(***************************************************************************)
EXTENDS Naturals, Sequences, FiniteSets

CONSTANTS RowIds,      \* a set of naturals, compared like the ids of expenses
          Seconds,     \* values of created_at, from 1
          Tags,
          OldTags,     \* those the user has when the job begins
          GoneTags,    \* those that rows carry and the user has deleted before
          Mappers,     \* the providers other than expenses
          PageSize,
          MaxInserts,  \* bound: rows that are inserted during the job
          MaxErrors    \* bound: failures, panics and the deadline

VARIABLES table,     \* the user's expenses, active and corrected
          tags,      \* the user's tags in the finance service
          names,     \* the tags of the job's finance response
          job,       \* progress and outcome of the job
          collected, \* status of each provider
          first,     \* the error that g.Wait() returns: its provider
          late,      \* the job's deadline has passed
          producer,  \* [pc, page, more, cursor, result]
          rows, errc,            \* the channels between producer and consumer
          consumer,
          wire,      \* sent to the exporter and not received
          archive,   \* rows of expenses.csv
          owed,      \* history: the table when the job began
          broken     \* history: the providers that failed by themselves

stream == <<producer, rows, errc, consumer>>
vars == <<table, tags, names, job, collected, first, late, stream, wire, archive, owed, broken>>

Providers == Mappers \cup {"expenses"}
Row == [id : RowIds, at : Seconds, tag : Tags]
NoCursor == [at |-> 0, id |-> 0]

DistinctIds(rs) == \A r, s \in rs : r.id = s.id => r = s

\* A user with expenses asks for an export.
Init ==
  /\ table \in {rs \in SUBSET [id : RowIds, at : Seconds, tag : OldTags \cup GoneTags] : DistinctIds(rs)}
  /\ tags = OldTags /\ names = {} /\ job = "fetch"
  /\ collected = [p \in Providers |-> "waiting"]
  /\ first = "none" /\ late = FALSE
  /\ producer = [pc |-> "off", page |-> << >>, more |-> FALSE, cursor |-> NoCursor, result |-> "ok"]
  /\ rows = << >> /\ errc = << >> /\ consumer = "off"
  /\ wire = << >> /\ archive = << >>
  /\ owed = table /\ broken = {}
-----------------------------------------------------------------------------
(* A page of the table.                                                    *)

\* ORDER BY created_at, id
Before(r, s) == r.at < s.at \/ (r.at = s.at /\ r.id < s.id)

\* LIMIT limit
FirstRows(rs, limit) ==
  LET Place(r) == 1 + Cardinality({s \in rs : Before(s, r)})
      size == IF Cardinality(rs) < limit THEN Cardinality(rs) ELSE limit
  IN [i \in 1..size |-> CHOOSE r \in rs : Place(r) = i]

\* Mutated predicate: rows of the cursor's second are taken for seen.
AfterSecond(r, cursor) == r.at > cursor.at

\* The predicate of the query; an empty cursor is before every row.
After(r, cursor) == r.at > cursor.at \/ (r.at = cursor.at /\ r.id > cursor.id)

\* GetExpensesByUserAfter: one row more than a page tells whether there are more.
Page(cursor) ==
  LET found == FirstRows({r \in table : After(r, cursor)}, PageSize + 1)
      more == Len(found) > PageSize
      page == IF more THEN SubSeq(found, 1, PageSize) ELSE found
  IN [page |-> page, more |-> more,
      cursor |-> IF page = << >> THEN cursor
                 ELSE [at |-> page[Len(page)].at, id |-> page[Len(page)].id]]
-----------------------------------------------------------------------------
(* The job and its providers.                                              *)

Errors == Cardinality(broken) + (IF late THEN 1 ELSE 0)

\* The providers' context is done: the deadline, or a provider's error.
Cancelled == late \/ first # "none"

\* runExport: the response of GetAllUserData; the providers are started with it.
FetchFinance ==
  /\ job = "fetch" /\ ~ late
  /\ names' = tags
  /\ job' = "collect"
  /\ collected' = [p \in Providers |-> "running"]
  /\ producer' = [producer EXCEPT !.pc = "read"]
  /\ consumer' = "receive"
  /\ UNCHANGED <<table, tags, first, late, rows, errc, wire, archive, owed, broken>>

FetchFails ==
  /\ job = "fetch"
  /\ \/ late /\ job' = "timed out" /\ UNCHANGED broken
     \/ Errors < MaxErrors /\ job' = "not fetched" /\ broken' = {"finance"}
  /\ UNCHANGED <<table, tags, names, collected, first, late, stream, wire, archive, owed>>

\* Profile, tags, budget periods and default settings.
CollectMapper(p) ==
  /\ collected[p] = "running" /\ p # "expenses"
  /\ collected' = [collected EXCEPT ![p] = "done"]
  /\ UNCHANGED <<table, tags, names, job, first, late, stream, wire, archive, owed, broken>>

\* Mutated errgroup: the last error stays.
KeepLast(p) == p

\* errgroup keeps the first error.
KeepFirst(p) == IF first = "none" THEN p ELSE first

\* A provider returns an error: one of its own, of which a panic is one, or its
\* context's.
Stop(p) ==
  /\ collected[p] = "running"
  /\ collected' = [collected EXCEPT ![p] = "failed"]
  /\ first' = KeepFirst(p)

Break(p) ==
  /\ Errors < MaxErrors /\ broken' = broken \cup {p}
  /\ Stop(p)
  /\ UNCHANGED <<table, tags, names, job, late, stream, wire, archive, owed>>

GiveUp(p) ==
  /\ Cancelled
  /\ Stop(p)
  /\ UNCHANGED <<table, tags, names, job, late, stream, wire, archive, owed, broken>>

\* The barrier: the deadline explains every error.
Wait ==
  /\ job = "collect" /\ \A p \in Providers : collected[p] \in {"done", "failed"}
  /\ job' = CASE first = "none" -> "mail"
              [] first # "none" /\ late -> "timed out"
              [] OTHER -> "not collected"
  /\ UNCHANGED <<table, tags, names, collected, first, late, stream, wire, archive, owed, broken>>

\* SendExportEmail; the archive was built from what the providers collected.
SendExportEmail ==
  /\ job = "mail" /\ ~ late
  /\ job' = "sent"
  /\ UNCHANGED <<table, tags, names, collected, first, late, stream, wire, archive, owed, broken>>

MailFails ==
  /\ job = "mail"
  /\ \/ late /\ UNCHANGED broken
     \/ Errors < MaxErrors /\ broken' = {"mail"}
  /\ job' = "not mailed"
  /\ UNCHANGED <<table, tags, names, collected, first, late, stream, wire, archive, owed>>

Timeout ==
  /\ job \in {"fetch", "collect", "mail"} /\ Errors < MaxErrors
  /\ ~ late /\ late' = TRUE
  /\ UNCHANGED <<table, tags, names, job, collected, first, stream, wire, archive, owed, broken>>
-----------------------------------------------------------------------------
(* The stream: the producer ...                                            *)

\* The stream's context: the caller gave up, or the consumer has returned.
StreamDone == collected["expenses"] # "running" \/ Cancelled \/ consumer \in {"ok", "error"}

\* With rows in hand they are fed; without, the next page is read or the end is near.
Phase(page, more) == CASE page # << >> -> "feed"
                       [] page = << >> /\ more -> "read"
                       [] OTHER -> "report"

ReadPage ==
  /\ producer.pc = "read"
  /\ LET p == Page(producer.cursor)
     IN producer' = [producer EXCEPT !.pc = Phase(p.page, p.more), !.page = p.page, !.more = p.more,
                                    !.cursor = p.cursor]
  /\ UNCHANGED <<table, tags, names, job, collected, first, late, rows, errc, consumer, wire, archive,
                 owed, broken>>

\* The query, or anything in it, fails or panics; a done context fails it too.
ReadFails ==
  /\ producer.pc = "read"
  /\ \/ StreamDone /\ UNCHANGED broken
     \/ Errors < MaxErrors /\ broken' = broken \cup {"expenses"}
  /\ producer' = [producer EXCEPT !.pc = "report", !.result = "error"]
  /\ UNCHANGED <<table, tags, names, job, collected, first, late, rows, errc, consumer, wire, archive, owed>>

\* rows <- expense
Feed ==
  /\ producer.pc = "feed"
  /\ Len(rows) < PageSize
  /\ rows' = Append(rows, Head(producer.page))
  /\ producer' = [producer EXCEPT !.page = Tail(@), !.pc = Phase(Tail(producer.page), producer.more)]
  /\ UNCHANGED <<table, tags, names, job, collected, first, late, errc, consumer, wire, archive, owed, broken>>

\* <-ctx.Done()
StopFeeding ==
  /\ producer.pc = "feed" /\ StreamDone
  /\ producer' = [producer EXCEPT !.pc = "report", !.result = "error"]
  /\ UNCHANGED <<table, tags, names, job, collected, first, late, rows, errc, consumer, wire, archive,
                 owed, broken>>

\* Mutated channel: without a buffer a send waits for the consumer, which waits
\* for close(rows).
ErrcHasNoRoom == FALSE

ErrcHasRoom == errc = << >>

\* errc <- result, then the deferred close(rows).
Report ==
  /\ producer.pc = "report" /\ ErrcHasRoom
  /\ errc' = Append(errc, producer.result)
  /\ producer' = [producer EXCEPT !.pc = "closed"]
  /\ UNCHANGED <<table, tags, names, job, collected, first, late, rows, consumer, wire, archive, owed, broken>>

(* ... the consumer, which owns the stream ...                             *)

SendRow ==
  /\ consumer = "receive" /\ rows # << >>
  /\ wire' = Append(wire, Head(rows))
  /\ rows' = Tail(rows)
  /\ UNCHANGED <<table, tags, names, job, collected, first, late, producer, errc, consumer, archive, owed,
                 broken>>

\* ctx.Err() before a row is sent, or the send fails.
StopSending ==
  /\ consumer = "receive" /\ rows # << >> /\ StreamDone
  /\ rows' = Tail(rows)
  /\ consumer' = "error"
  /\ UNCHANGED <<table, tags, names, job, collected, first, late, producer, errc, wire, archive, owed, broken>>

\* rows is closed and empty: return <-errc.
ReturnResult ==
  /\ consumer = "receive" /\ rows = << >> /\ producer.pc = "closed" /\ errc # << >>
  /\ consumer' = Head(errc)
  /\ errc' = Tail(errc)
  /\ UNCHANGED <<table, tags, names, job, collected, first, late, producer, rows, wire, archive, owed, broken>>

(* ... and the exporter.                                                   *)

\* Mutated resolveTagName: an id that is not in the map is shown as it is.
ShownAsItIs(tag) == tag

\* resolveTagName
Shown(tag) == IF tag \in names THEN tag ELSE "Unknown"

\* streamExpenses, formatRow.
ReceiveRow ==
  /\ collected["expenses"] = "running" /\ wire # << >>
  /\ archive' = Append(archive, [row |-> Head(wire), tagName |-> Shown(Head(wire).tag)])
  /\ wire' = Tail(wire)
  /\ UNCHANGED <<table, tags, names, job, collected, first, late, stream, owed, broken>>

\* io.EOF
EndStream ==
  /\ collected["expenses"] = "running" /\ wire = << >> /\ consumer = "ok"
  /\ collected' = [collected EXCEPT !["expenses"] = "done"]
  /\ UNCHANGED <<table, tags, names, job, first, late, stream, wire, archive, owed, broken>>

\* The server's error, or a row that cannot be formatted.
StreamFails ==
  /\ wire = << >> /\ consumer = "error"
  /\ Stop("expenses")
  /\ UNCHANGED <<table, tags, names, job, late, stream, wire, archive, owed, broken>>
-----------------------------------------------------------------------------
(* The user.                                                               *)

\* A new expense, or the new row of a correction.  Nobody asks whether its tag exists.
InsertExpense(r) ==
  /\ job \in {"fetch", "collect"} /\ Cardinality(table \ owed) < MaxInserts
  /\ \A s \in table : s.id # r.id
  /\ table' = table \cup {r}
  /\ UNCHANGED <<tags, names, job, collected, first, late, stream, wire, archive, owed, broken>>

\* Only active rows are counted: those that carry t are corrected, or came after the count.
\* A tag that is created meanwhile is not modelled: its id is random, and no row that
\* the user had before carries it.
DeleteTag(t) ==
  /\ job \in {"fetch", "collect"}
  /\ t \in tags /\ tags' = tags \ {t}
  /\ UNCHANGED <<table, names, job, collected, first, late, stream, wire, archive, owed, broken>>

Program ==
  \/ FetchFinance \/ (late /\ FetchFails)
  \/ \E p \in Mappers : CollectMapper(p)
  \/ \E p \in Providers : GiveUp(p)
  \/ Wait \/ SendExportEmail \/ (late /\ MailFails)
  \/ ReadPage \/ Feed \/ StopFeeding \/ Report
  \/ SendRow \/ StopSending \/ ReturnResult
  \/ ReceiveRow \/ EndStream \/ StreamFails

Next ==
  \/ Program
  \/ FetchFails \/ MailFails \/ ReadFails \/ Timeout
  \/ \E p \in Mappers \cup {"expenses"} : Break(p)
  \/ \E r \in Row : InsertExpense(r)
  \/ \E t \in Tags : DeleteTag(t)

\* The goroutines of both services run.
Fairness == WF_vars(Program)

Spec == Init /\ [][Next]_vars /\ Fairness
-----------------------------------------------------------------------------
(* Properties.                                                             *)

\* What the archive may call a tag that a row carried when the job began.
Truthful(tag) ==
  {name \in {tag, "Unknown"} : /\ tag \in tags => name = tag
                               /\ tag \in GoneTags => name = "Unknown"}

\* StreamAllUserExpenses, GetExpensesByUserAfter, resolveTagName: an archive that
\* was sent lists every expense the user had when the job began, active or
\* corrected, each row once and in the order of (created_at, id), whatever was
\* inserted meanwhile; under its tag's name if the user kept the tag, as "Unknown" if
\* the tag was deleted before.
ArchiveIsComplete ==
  /\ job = "sent" => \A r \in owed : \E i \in DOMAIN archive :
       archive[i].row = r /\ archive[i].tagName \in Truthful(r.tag)
  /\ \A i, j \in DOMAIN archive : i < j => Before(archive[i].row, archive[j].row)

\* runExport: a job that blames a provider blames one that failed by itself, not
\* one that was stopped for another's failure.
FailuresAreNamed ==
  job = "not collected" => first \in broken

\* runExport, produceExpensePages: a job comes to its end, and so do the goroutines
\* of its stream, with either channel's buffer full, a panic, a deadline or a
\* client that has gone.
ExportEnds ==
  <>[](/\ job \in {"sent", "timed out", "not fetched", "not collected", "not mailed"}
       /\ producer.pc \in {"off", "closed"} /\ consumer \in {"off", "ok", "error"})
=============================================================================
