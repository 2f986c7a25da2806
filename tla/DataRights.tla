----------------------------- MODULE DataRights -----------------------------
(***************************************************************************)
(* The datarights service: the handlers that file export and deletion      *)
(* jobs, the two bounded pools of jobrunner that run them, the two         *)
(* engines' work, and the recovery of unfinished jobs when the process     *)
(* starts.  Every SQL statement and every call of another service is a     *)
(* step; a crash stops every goroutine and keeps the tables.               *)
(*                                                                         *)
(* The two job tables are one sequence; a job's id is its position.  A job *)
(* has at most one goroutine, which OneRunnerPerJob justifies.  Password,  *)
(* self-deletion and protected-name checks only decide whether a request   *)
(* goes on; they are part of Reject.                                       *)
(***************************************************************************)
EXTENDS Naturals, Sequences, FiniteSets

CONSTANTS Users, Handlers,
          MaxConcurrent,  \* the slots of each pool
          MaxJobs,        \* bound: jobs that are filed
          MaxCrashes,     \* bound: crashes of the process
          NoUser

ASSUME DataRightsAssumption ==
  /\ MaxConcurrent \in Nat \ {0}
  /\ MaxJobs \in Nat
  /\ MaxCrashes \in Nat
  /\ NoUser \notin Users

VARIABLES jobs,     \* the tables export_jobs and deletion_jobs, in filing order
          recent,   \* the jobs whose created_at lies in the rate limit window
          process,  \* where the process is: down, starting, serving
          crashes,
          run,      \* the goroutine of each job, and its locals
          hpc,      \* what each HTTP handler does next
          hreq,     \* the locals of each handler
          held,     \* the data each service holds of a user
          carried   \* history: the parts of each job that were carried out

vars == <<jobs, recent, process, crashes, run, hpc, hreq, held, carried>>

Kinds == {"export", "deletion"}
JobIds == 1..MaxJobs
MaxRetries == 3

\* Registered in the wrong order: the user is gone before the rest.
ProvidersAuthFirst == <<"auth", "finance", "expense">>

\* The deletion providers in registration order.
Providers == <<"finance", "expense", "auth">>

Services == {"finance", "expense", "auth"}
Parts(kind) == IF kind = "export" THEN {"email"} ELSE Services

InProgress == {"pending", "running"}
Terminal == {"completed", "failed"}

NoRun == [at |-> "none", next |-> 1, attempt |-> 1, expired |-> FALSE]
NoHandler == [kind |-> "export", user |-> NoUser, job |-> 0]

Init ==
  /\ jobs = << >>
  /\ recent = {}
  /\ process = "exports"
  /\ crashes = 0
  /\ run = [j \in JobIds |-> NoRun]
  /\ hpc = [h \in Handlers |-> "idle"]
  /\ hreq = [h \in Handlers |-> NoHandler]
  /\ held = [u \in Users |-> Services]
  /\ carried = [j \in JobIds |-> {}]
-----------------------------------------------------------------------------
(* Queries.                                                                *)

\* Mutated query: a job that was not started yet is not in progress.
JobInProgressRunningOnly(kind, u) ==
  \E j \in DOMAIN jobs : jobs[j].kind = kind /\ jobs[j].user = u /\ jobs[j].status = "running"

\* GetInProgressJob of the kind's table.
JobInProgress(kind, u) ==
  \E j \in DOMAIN jobs : jobs[j].kind = kind /\ jobs[j].user = u /\ jobs[j].status \in InProgress

\* Mutated limit: the window is not looked at.
RateLimitedNever(u) == FALSE

\* GetLatestNonFailedJob: the latest one is in the window when any is.
RateLimited(u) ==
  \E j \in recent : jobs[j].kind = "export" /\ jobs[j].user = u /\ jobs[j].status # "failed"

\* Mutated query: a job that was not started yet is forgotten.
NonTerminalRunningOnly(kind) ==
  {j \in DOMAIN jobs : jobs[j].kind = kind /\ jobs[j].status = "running"}

\* GetNonTerminalJobs of the kind's table.
NonTerminal(kind) ==
  {j \in DOMAIN jobs : jobs[j].kind = kind /\ jobs[j].status \in InProgress}

\* The goroutines that hold a slot of the kind's pool.
ActiveJobs(kind) ==
  {j \in DOMAIN jobs : jobs[j].kind = kind /\ run[j].at \notin {"none", "queued"}}

\* Mutated start: requests are taken before the recovery is over.
ServingEarly(p) == p # "down"

\* The HTTP server is started after both recoveries.
Serving(p) == p = "serving"
-----------------------------------------------------------------------------
(* jobrunner: the goroutine of a job.                                      *)

Goto(j, point) == run' = [run EXCEPT ![j].at = point]

\* The deferred release of the slot and cancellation of the context.
Release(j) == run' = [run EXCEPT ![j] = NoRun]

SetStatus(j, status) == jobs' = [jobs EXCEPT ![j].status = status]

Submit(ids) == run' = [j \in JobIds |-> IF j \in ids THEN [NoRun EXCEPT !.at = "queued"]
                                        ELSE run[j]]

Environment == <<recent, process, crashes, hpc, hreq>>

Acquire(j) ==
  /\ run[j].at = "queued"
  /\ Cardinality(ActiveJobs(jobs[j].kind)) < MaxConcurrent
  /\ Goto(j, "start")
  /\ UNCHANGED <<jobs, held, carried, Environment>>

\* The deadline of the job's context passes.
Expire(j) ==
  /\ run[j].at \in {"start", "work", "email", "complete"}
  /\ ~ run[j].expired
  /\ run' = [run EXCEPT ![j].expired = TRUE]
  /\ UNCHANGED <<jobs, held, carried, Environment>>

MarkRunning(j) ==
  /\ run[j].at = "start"
  /\ ~ run[j].expired
  /\ SetStatus(j, "running")
  /\ Goto(j, "work")
  /\ UNCHANGED <<held, carried, Environment>>

\* UpdateStatus returned an error: the goroutine ends without a word.
MarkRunningFails(j) ==
  /\ run[j].at = "start"
  /\ \/ SetStatus(j, "running") /\ ~ run[j].expired
     \/ UNCHANGED jobs
  /\ Release(j)
  /\ UNCHANGED <<held, carried, Environment>>

\* CompleteJob, with the context of the job.
CompleteJob(j) ==
  /\ run[j].at = "complete"
  /\ ~ run[j].expired
  /\ SetStatus(j, "completed")
  /\ Release(j)
  /\ UNCHANGED <<held, carried, Environment>>

CompleteJobFails(j) ==
  /\ run[j].at = "complete"
  /\ Release(j)
  /\ UNCHANGED <<jobs, held, carried, Environment>>

\* FailJob, with a context of its own.
FailJob(j) ==
  /\ run[j].at = "fail"
  /\ SetStatus(j, "failed")
  /\ Release(j)
  /\ UNCHANGED <<held, carried, Environment>>

FailJobFails(j) ==
  /\ run[j].at = "fail"
  /\ Release(j)
  /\ UNCHANGED <<jobs, held, carried, Environment>>

\* A recovered panic of the work.
Panic(j) ==
  /\ run[j].at \in {"work", "email"}
  /\ Goto(j, "fail")
  /\ UNCHANGED <<jobs, held, carried, Environment>>
-----------------------------------------------------------------------------
(* engine.runExport: collect from the providers, then send the archive.    *)

Collect(j) ==
  /\ jobs[j].kind = "export" /\ run[j].at = "work"
  /\ ~ run[j].expired
  /\ Goto(j, "email")
  /\ UNCHANGED <<jobs, held, carried, Environment>>

CollectFails(j) ==
  /\ jobs[j].kind = "export" /\ run[j].at = "work"
  /\ Goto(j, "fail")
  /\ UNCHANGED <<jobs, held, carried, Environment>>

\* SendExportEmail returned without an error, or with one.
AfterEmail(sent) == IF sent THEN "complete" ELSE "fail"

SendEmail(j) ==
  /\ run[j].at = "email"
  /\ ~ run[j].expired
  /\ carried' = [carried EXCEPT ![j] = @ \cup {"email"}]
  /\ \E sent \in BOOLEAN : Goto(j, AfterEmail(sent))  \* the answer may be lost
  /\ UNCHANGED <<jobs, held, Environment>>

SendEmailFails(j) ==
  /\ run[j].at = "email"
  /\ Goto(j, AfterEmail(FALSE))
  /\ UNCHANGED <<jobs, held, carried, Environment>>

(* deletion.execute: each provider in turn, with retries.                  *)

\* Mutated retry: after the last attempt the next provider is tried.
AfterErrorSkipping(r) ==
  IF r.attempt < MaxRetries /\ ~ r.expired THEN [r EXCEPT !.attempt = @ + 1]
  ELSE IF r.next < Len(Providers) THEN [r EXCEPT !.next = @ + 1, !.attempt = 1]
  ELSE [r EXCEPT !.at = "complete"]

\* Mutated bound: one attempt too many.
AfterErrorOneMore(r) ==
  IF r.attempt <= MaxRetries /\ ~ r.expired THEN [r EXCEPT !.attempt = @ + 1]
  ELSE [r EXCEPT !.at = "fail"]

\* A failed attempt: another one after the backoff, unless the context ends.
AfterError(r) ==
  IF r.attempt < MaxRetries /\ ~ r.expired THEN [r EXCEPT !.attempt = @ + 1]
  ELSE [r EXCEPT !.at = "fail"]

AfterDelete(r) ==
  IF r.next < Len(Providers) THEN [r EXCEPT !.next = @ + 1, !.attempt = 1]
  ELSE [r EXCEPT !.at = "complete"]

\* The provider erased its data, and said so or not.
Delete(j) ==
  LET provider == Providers[run[j].next]
  IN /\ jobs[j].kind = "deletion" /\ run[j].at = "work"
     /\ ~ run[j].expired
     /\ held' = [held EXCEPT ![jobs[j].user] = @ \ {provider}]
     /\ \/ /\ carried' = [carried EXCEPT ![j] = @ \cup {provider}]
           /\ run' = [run EXCEPT ![j] = AfterDelete(@)]
        \/ /\ run' = [run EXCEPT ![j] = AfterError(@)]
           /\ UNCHANGED carried
     /\ UNCHANGED <<jobs, Environment>>

DeleteFails(j) ==
  /\ jobs[j].kind = "deletion" /\ run[j].at = "work"
  /\ run' = [run EXCEPT ![j] = AfterError(@)]
  /\ UNCHANGED <<jobs, held, carried, Environment>>
-----------------------------------------------------------------------------
(* The handlers of POST /exports and POST /deletions.                      *)

Respond(h) ==
  /\ hpc' = [hpc EXCEPT ![h] = "idle"]
  /\ hreq' = [hreq EXCEPT ![h] = NoHandler]

Continue(h, point) == hpc' = [hpc EXCEPT ![h] = point] /\ UNCHANGED hreq

Background == <<process, crashes, held, carried>>

Request(h, kind, u) ==
  /\ Serving(process)
  /\ hpc[h] = "idle"
  /\ kind = "deletion" => "auth" \in held[u]  \* checkProtectedUsername finds the user
  /\ hpc' = [hpc EXCEPT ![h] = IF kind = "export" THEN "dedup" ELSE "conflict"]
  /\ hreq' = [hreq EXCEPT ![h] = [kind |-> kind, user |-> u, job |-> 0]]
  /\ UNCHANGED <<jobs, recent, run, Background>>

\* checkExportConflict, only of a deletion.
CheckConflict(h) ==
  /\ hpc[h] = "conflict"
  /\ ~ JobInProgress("export", hreq[h].user)
  /\ Continue(h, "dedup")
  /\ UNCHANGED <<jobs, recent, run, Background>>

CheckInProgress(h) ==
  /\ hpc[h] = "dedup"
  /\ ~ JobInProgress(hreq[h].kind, hreq[h].user)
  /\ Continue(h, IF hreq[h].kind = "export" THEN "limit" ELSE "insert")
  /\ UNCHANGED <<jobs, recent, run, Background>>

CheckRateLimit(h) ==
  /\ hpc[h] = "limit"
  /\ ~ RateLimited(hreq[h].user)
  /\ Continue(h, "insert")
  /\ UNCHANGED <<jobs, recent, run, Background>>

\* INSERT INTO the job table; without its answer the job is filed, not submitted.
InsertJob(h) ==
  /\ hpc[h] = "insert"
  /\ Len(jobs) < MaxJobs
  /\ jobs' = Append(jobs, [kind |-> hreq[h].kind, user |-> hreq[h].user, status |-> "pending"])
  /\ recent' = recent \cup {Len(jobs) + 1}
  /\ \/ /\ hpc' = [hpc EXCEPT ![h] = "submit"]
        /\ hreq' = [hreq EXCEPT ![h].job = Len(jobs) + 1]
     \/ Respond(h)
  /\ UNCHANGED <<run, Background>>

\* The user's address is resolved (or not) before; pool.Submit never blocks.
SubmitJob(h) ==
  /\ hpc[h] = "submit"
  /\ Submit({hreq[h].job})
  /\ Respond(h)
  /\ UNCHANGED <<jobs, recent, Background>>

\* An existing job, a refusal or an error is the answer.
Reject(h) ==
  /\ hpc[h] \in {"conflict", "dedup", "limit", "insert"}
  /\ Respond(h)
  /\ UNCHANGED <<jobs, recent, run, Background>>
-----------------------------------------------------------------------------
(* The process and its surroundings.                                       *)

Crash ==
  /\ process # "down"
  /\ crashes < MaxCrashes
  /\ process' = "down"
  /\ crashes' = crashes + 1
  /\ run' = [j \in JobIds |-> NoRun]
  /\ hpc' = [h \in Handlers |-> "idle"]
  /\ hreq' = [h \in Handlers |-> NoHandler]
  /\ UNCHANGED <<jobs, recent, held, carried>>

Start ==
  /\ process = "down"
  /\ process' = "exports"
  /\ UNCHANGED <<jobs, recent, crashes, run, hpc, hreq, held, carried>>

\* recoverJobs, of exports and then of deletions; the loop over the rows is
\* one step, as nothing reads a row that is not submitted yet.
Recover(kind) ==
  /\ process = IF kind = "export" THEN "exports" ELSE "deletions"
  /\ Submit(NonTerminal(kind))
  /\ process' = IF kind = "export" THEN "deletions" ELSE "serving"
  /\ UNCHANGED <<jobs, recent, crashes, hpc, hreq, held, carried>>

\* Its query failed: reported, and the process goes on without.
RecoverFails(kind) ==
  /\ process = IF kind = "export" THEN "exports" ELSE "deletions"
  /\ process' = IF kind = "export" THEN "deletions" ELSE "serving"
  /\ UNCHANGED <<jobs, recent, crashes, run, hpc, hreq, held, carried>>

\* The thirty days after the oldest job in the window are over.
WindowPasses ==
  /\ recent # {}
  /\ recent' = recent \ {CHOOSE j \in recent : \A i \in recent : j <= i}
  /\ UNCHANGED <<jobs, process, crashes, run, hpc, hreq, held, carried>>

\* A user whose account exists writes to another service.
UserWrites(u, service) ==
  /\ "auth" \in held[u]
  /\ service \in {"finance", "expense"} \ held[u]
  /\ held' = [held EXCEPT ![u] = @ \cup {service}]
  /\ UNCHANGED <<jobs, carried, run, Environment>>

Work(j) ==
  \/ Acquire(j) \/ MarkRunning(j) \/ CompleteJob(j) \/ FailJob(j)
  \/ Collect(j) \/ CollectFails(j) \/ SendEmail(j) \/ SendEmailFails(j)
  \/ Delete(j) \/ DeleteFails(j) \/ Panic(j)

Trouble(j) == Expire(j) \/ MarkRunningFails(j) \/ CompleteJobFails(j) \/ FailJobFails(j)

Handle(h) ==
  \/ CheckConflict(h) \/ CheckInProgress(h) \/ CheckRateLimit(h)
  \/ InsertJob(h) \/ SubmitJob(h) \/ Reject(h)

Requests == \E h \in Handlers, kind \in Kinds, u \in Users : Request(h, kind, u)

Surroundings ==
  \/ Crash \/ Start \/ WindowPasses
  \/ \E kind \in Kinds : Recover(kind)
  \/ \E u \in Users, service \in Services : UserWrites(u, service)

Next ==
  \/ \E j \in DOMAIN jobs : Work(j) \/ Trouble(j)
  \/ Requests
  \/ \E h \in Handlers : Handle(h)
  \/ Surroundings
  \/ \E kind \in Kinds : RecoverFails(kind)

Spec == Init /\ [][Next]_vars

\* One request of a user at a time.
Serial == \A g, h \in Handlers : hreq[g].user = hreq[h].user /\ hreq[g].user # NoUser => g = h

SerialSpec == Init /\ [][Next /\ Serial']_vars

(* A database that answers, and deadlines that only end work: crashes,      *)
(* failing providers and timeouts of the work remain.  Goroutines and       *)
(* handlers run on, the process is restarted, and a goroutine that waits    *)
(* for a slot gets one in turn, as the runtime serves a channel's senders.  *)

SteadyNext ==
  \/ \E j \in DOMAIN jobs : Work(j) \/ (run[j].at \in {"work", "email"} /\ Expire(j))
  \/ Requests
  \/ \E h \in Handlers : Handle(h) /\ (hpc[h] = "insert" /\ jobs' # jobs => hpc'[h] = "submit")
  \/ Surroundings

Fairness ==
  /\ \A j \in JobIds : /\ WF_vars(j \in DOMAIN jobs /\ Work(j))
                       /\ SF_vars(j \in DOMAIN jobs /\ Acquire(j))
  /\ \A h \in Handlers : WF_vars(SubmitJob(h))
  /\ WF_vars(Start)
  /\ \A kind \in Kinds : WF_vars(Recover(kind))

SteadySpec == Init /\ [][SteadyNext]_vars /\ Fairness

-----------------------------------------------------------------------------
(* Properties.                                                             *)

\* No job gets a second goroutine: not from the handler that filed it and the
\* recovery both, nor from two recoveries.
OneRunnerPerJob ==
  /\ \A h \in Handlers : hpc[h] = "submit" =>
       /\ run[hreq[h].job].at = "none"
       /\ process = "serving"
       /\ \A g \in Handlers : hpc[g] = "submit" /\ hreq[g].job = hreq[h].job => g = h
  /\ process = "exports" => \A j \in JobIds : run[j].at = "none"
  /\ process = "deletions" =>
       \A j \in DOMAIN jobs : jobs[j].kind = "deletion" => run[j].at = "none"

\* A job ends once, and is completed only when its e-mail was accepted, or
\* every provider has erased its part, over any crashes and recoveries.
Lifecycle == INSTANCE JobLifecycle WITH filed <- jobs, Ids <- JobIds

ImplementsLifecycle == Lifecycle!Spec

\* An account is erased only after the user's finance and expense data was,
\* so an unfinished deletion can still be asked for again.
AccountIsErasedLast ==
  \A u \in Users : "auth" \notin held[u] =>
    \E j \in DOMAIN jobs : /\ jobs[j].kind = "deletion" /\ jobs[j].user = u
                           /\ {"finance", "expense"} \subseteq carried[j]

\* A user has at most one pending or running job of a kind.
OneInProgressPerUser ==
  \A i, j \in DOMAIN jobs :
    /\ jobs[i].kind = jobs[j].kind /\ jobs[i].user = jobs[j].user
    /\ jobs[i].status \in InProgress /\ jobs[j].status \in InProgress
    => i = j

\* At most one export filed within thirty days succeeds or may yet.
OneExportPerWindow ==
  \A i, j \in recent :
    /\ jobs[i].kind = "export" /\ jobs[j].kind = "export" /\ jobs[i].user = jobs[j].user
    /\ jobs[i].status # "failed" /\ jobs[j].status # "failed"
    => i = j

\* Every job that was filed ends, also when the process dies before, while or
\* after it runs.
JobsEnd ==
  \A j \in JobIds : (j \in DOMAIN jobs /\ jobs[j].status \in InProgress)
                       ~> (j \in DOMAIN jobs /\ jobs[j].status \in Terminal)
=============================================================================
