-------------------------- MODULE DataRightsProofs --------------------------
(***************************************************************************)
(* No job of DataRights gets two goroutines, the account of a user is      *)
(* erased last, and the jobs keep to JobLifecycle; and when a user's       *)
(* requests do not overlap, there is one job in progress per user and kind *)
(* and one export per window: for any users, handlers, slots, jobs and     *)
(* crashes, and whatever fails.                                            *)
(***************************************************************************)
EXTENDS DataRights, SequenceTheorems, TLAPS

Job == [kind : Kinds, user : Users, status : InProgress \cup Terminal]

AtWork == {"work", "email", "complete", "fail"}
RunPoint == {"none", "queued", "start"} \cup AtWork
Run == [at : RunPoint, next : 1..3, attempt : Nat, expired : BOOLEAN]

HandlerPoint == {"idle", "conflict", "dedup", "limit", "insert", "submit"}
HandlerRequest == [kind : Kinds, user : Users \cup {NoUser}, job : Nat]

TypeInv ==
  /\ jobs \in Seq(Job) /\ Len(jobs) <= MaxJobs
  /\ process \in {"down", "exports", "deletions", "serving"}
  /\ run \in [JobIds -> Run]
  /\ hpc \in [Handlers -> HandlerPoint]
  /\ hreq \in [Handlers -> HandlerRequest]
  /\ held \in [Users -> SUBSET Services]
  /\ carried \in [JobIds -> SUBSET (Services \cup {"email"})]

\* Handlers only run while the process serves.
HandlersServe ==
  \A h \in Handlers : hpc[h] # "idle" => process = "serving" /\ hreq[h].user \in Users

\* A job that is about to be submitted belongs to one handler, and has not run.
SubmitsAreNew ==
  \A h \in Handlers : hpc[h] = "submit" =>
    /\ hreq[h].job \in DOMAIN jobs
    /\ jobs[hreq[h].job].status = "pending"
    /\ run[hreq[h].job].at = "none"
    /\ \A g \in Handlers : hpc[g] = "submit" /\ hreq[g].job = hreq[h].job => g = h

\* A job with a goroutine has not ended, and its table has been recovered.
RunsAreOpen ==
  \A j \in JobIds : run[j].at # "none" =>
    /\ j \in DOMAIN jobs
    /\ jobs[j].status \in InProgress
    /\ run[j].at \in AtWork => jobs[j].status = "running"
    /\ run[j].at = "email" => jobs[j].kind = "export"
    /\ run[j].at \in {"queued", "start"} => run[j].next = 1
    /\ process = "serving" \/ (process = "deletions" /\ jobs[j].kind = "export")

\* What a goroutine knows about the parts of its job.
PartsAreCarried ==
  \A j \in JobIds :
    /\ j \in DOMAIN jobs => carried[j] \subseteq Parts(jobs[j].kind)
    /\ j \notin DOMAIN jobs => carried[j] = {}
    /\ run[j].at = "work" /\ jobs[j].kind = "deletion" =>
         \A k \in 1..3 : k < run[j].next => Providers[k] \in carried[j]
    /\ run[j].at = "complete" => carried[j] = Parts(jobs[j].kind)

DataRightsInv ==
  TypeInv /\ HandlersServe /\ SubmitsAreNew /\ RunsAreOpen /\ PartsAreCarried /\ AccountIsErasedLast
-----------------------------------------------------------------------------
LEMMA ProvidersAre ==
  /\ Len(Providers) = 3
  /\ Providers[1] = "finance" /\ Providers[2] = "expense" /\ Providers[3] = "auth"
  /\ Parts("deletion") = {"finance", "expense", "auth"} /\ Parts("export") = {"email"}
BY DEF Providers, Parts, Services

\* The ids of the jobs that were filed.
LEMMA Filed ==
  ASSUME TypeInv
  PROVE  /\ DOMAIN jobs = 1..Len(jobs) /\ Len(jobs) \in Nat
         /\ DOMAIN jobs \subseteq JobIds
         /\ \A j \in DOMAIN jobs : jobs[j] \in Job
<1>1. DOMAIN jobs = 1..Len(jobs) /\ Len(jobs) \in Nat
  BY LenProperties DEF TypeInv
<1>2. \A j \in DOMAIN jobs : jobs[j] \in Job
  BY <1>1, ElementOfSeq DEF TypeInv
<1>. QED
  BY <1>1, <1>2, DataRightsAssumption DEF TypeInv, JobIds

\* A status that is set.
LEMMA StatusSet ==
  ASSUME TypeInv, NEW j \in DOMAIN jobs, NEW status \in InProgress \cup Terminal,
         SetStatus(j, status)
  PROVE  /\ jobs' \in Seq(Job) /\ Len(jobs') = Len(jobs) /\ DOMAIN jobs' = DOMAIN jobs
         /\ \A i \in DOMAIN jobs : i # j => jobs'[i] = jobs[i]
         /\ jobs'[j].status = status
         /\ jobs'[j].kind = jobs[j].kind /\ jobs'[j].user = jobs[j].user
<1>. DEFINE job == [jobs[j] EXCEPT !.status = status]
<1>1. jobs[j] \in Job /\ j \in 1..Len(jobs) /\ jobs \in Seq(Job)
  BY Filed DEF TypeInv
<1>2. /\ job \in Job /\ job.status = status
      /\ job.kind = jobs[j].kind /\ job.user = jobs[j].user
  BY <1>1 DEF Job
<1>3. jobs' = [jobs EXCEPT ![j] = job]
  BY DEF SetStatus
<1>4. /\ jobs' \in Seq(Job) /\ Len(jobs') = Len(jobs)
      /\ \A i \in 1..Len(jobs) : jobs'[i] = IF i = j THEN job ELSE jobs[i]
  BY <1>1, <1>2, <1>3, ExceptSeq
<1>5. DOMAIN jobs' = DOMAIN jobs
  BY <1>3
<1>. QED
  BY <1>1, <1>2, <1>4, <1>5, Filed

\* A step of a goroutine: it has its job to itself.
LEMMA GoroutineStep ==
  ASSUME DataRightsInv, NEW j \in DOMAIN jobs, run[j].at # "none",
         process' = process, hpc' = hpc, hreq' = hreq,
         jobs' \in Seq(Job), Len(jobs') = Len(jobs), DOMAIN jobs' = DOMAIN jobs,
         \A i \in DOMAIN jobs : i # j => jobs'[i] = jobs[i],
         jobs'[j].kind = jobs[j].kind, jobs'[j].user = jobs[j].user,
         NEW r \in Run, run' = [run EXCEPT ![j] = r],
         r.at = "none" \/ jobs'[j].status \in InProgress,
         r.at \in AtWork => jobs'[j].status = "running",
         r.at = "email" => jobs[j].kind = "export",
         r.at \in {"queued", "start"} => r.next = 1,
         NEW parts, parts \subseteq Parts(jobs[j].kind), carried[j] \subseteq parts,
         carried' = [carried EXCEPT ![j] = parts],
         r.at = "work" /\ jobs[j].kind = "deletion" =>
           \A k \in 1..3 : k < r.next => Providers[k] \in parts,
         r.at = "complete" => parts = Parts(jobs[j].kind),
         held' \in [Users -> SUBSET Services],
         AccountIsErasedLast'
  PROVE  DataRightsInv'
<1>1. j \in JobIds /\ run \in [JobIds -> Run] /\ carried \in [JobIds -> SUBSET (Services \cup {"email"})]
  BY Filed DEF DataRightsInv, TypeInv
<1>2. parts \subseteq Services \cup {"email"}
  BY DEF Parts
<1>3. /\ run'[j] = r /\ carried'[j] = parts
      /\ \A i \in JobIds : i # j => run'[i] = run[i] /\ carried'[i] = carried[i]
  BY <1>1
<1>4. TypeInv'
  BY <1>1, <1>2 DEF DataRightsInv, TypeInv
<1>5. HandlersServe'
  BY DEF DataRightsInv, HandlersServe
<1>6. SubmitsAreNew'
  <2>1. \A h \in Handlers : hpc[h] = "submit" => hreq[h].job # j /\ hreq[h].job \in JobIds
    BY Filed DEF DataRightsInv, SubmitsAreNew
  <2>. QED
    BY <1>3, <2>1 DEF DataRightsInv, SubmitsAreNew
<1>7. RunsAreOpen'
  BY <1>1, <1>3 DEF DataRightsInv, RunsAreOpen
<1>8. PartsAreCarried'
  <2>1. ASSUME NEW i \in JobIds, i # j, i \in DOMAIN jobs \/ run[i].at = "none" PROVE
          /\ i \in DOMAIN jobs => carried'[i] \subseteq Parts(jobs'[i].kind)
          /\ i \notin DOMAIN jobs => carried'[i] = {}
          /\ run'[i].at = "work" /\ jobs'[i].kind = "deletion" =>
               \A k \in 1..3 : k < run'[i].next => Providers[k] \in carried'[i]
          /\ run'[i].at = "complete" => carried'[i] = Parts(jobs'[i].kind)
    BY <1>3, <2>1 DEF DataRightsInv, PartsAreCarried
  <2>2. \A i \in JobIds : i \in DOMAIN jobs \/ run[i].at = "none"
    BY DEF DataRightsInv, RunsAreOpen
  <2>. QED
    BY <1>1, <1>3, <2>1, <2>2 DEF PartsAreCarried
<1>. QED
  BY <1>4, <1>5, <1>6, <1>7, <1>8 DEF DataRightsInv

\* An account that was gone before is gone after everything else.
LEMMA ErasedLastStays ==
  ASSUME AccountIsErasedLast, DOMAIN jobs \subseteq DOMAIN jobs',
         \A j \in DOMAIN jobs : /\ jobs'[j].kind = jobs[j].kind /\ jobs'[j].user = jobs[j].user
                                /\ carried[j] \subseteq carried'[j],
         \A u \in Users : "auth" \notin held'[u] => "auth" \notin held[u]
  PROVE  AccountIsErasedLast'
BY DEF AccountIsErasedLast

\* A step of a goroutine that changes neither tables nor data.
LEMMA LocalStep ==
  ASSUME DataRightsInv, NEW j \in DOMAIN jobs, run[j].at # "none",
         NEW r \in Run, run' = [run EXCEPT ![j] = r],
         jobs' = jobs, held' = held, carried' = carried,
         process' = process, hpc' = hpc, hreq' = hreq,
         r.at \in AtWork => jobs[j].status = "running",
         r.at = "email" => jobs[j].kind = "export",
         r.at \in {"queued", "start"} => r.next = 1,
         r.at = "work" /\ jobs[j].kind = "deletion" =>
           \A k \in 1..3 : k < r.next => Providers[k] \in carried[j],
         r.at = "complete" => carried[j] = Parts(jobs[j].kind)
  PROVE  DataRightsInv'
<1>2. /\ jobs \in Seq(Job) /\ held \in [Users -> SUBSET Services] /\ j \in JobIds
      /\ carried \in [JobIds -> SUBSET (Services \cup {"email"})]
      /\ jobs[j].status \in InProgress /\ carried[j] \subseteq Parts(jobs[j].kind)
  BY Filed DEF DataRightsInv, TypeInv, RunsAreOpen, PartsAreCarried
<1>3. carried' = [carried EXCEPT ![j] = carried[j]]
  BY <1>2
<1>4. AccountIsErasedLast'
  BY DEF DataRightsInv, AccountIsErasedLast
<1>. QED
  BY <1>2, <1>3, <1>4, GoroutineStep

\* A step of a goroutine that sets the status of its job, and only that.
LEMMA StatusStep ==
  ASSUME DataRightsInv, NEW j \in DOMAIN jobs, run[j].at # "none",
         NEW status \in InProgress \cup Terminal, SetStatus(j, status),
         NEW r \in Run, run' = [run EXCEPT ![j] = r],
         held' = held, carried' = carried, process' = process, hpc' = hpc, hreq' = hreq,
         \/ r.at = "none"
         \/ r.at = "work" /\ status = "running" /\ r.next = 1
  PROVE  DataRightsInv'
<1>2. /\ held \in [Users -> SUBSET Services] /\ j \in JobIds
      /\ carried \in [JobIds -> SUBSET (Services \cup {"email"})]
      /\ carried[j] \subseteq Parts(jobs[j].kind)
  BY Filed DEF DataRightsInv, TypeInv, PartsAreCarried
<1>3. carried' = [carried EXCEPT ![j] = carried[j]]
  BY <1>2
<1>4. /\ jobs' \in Seq(Job) /\ Len(jobs') = Len(jobs) /\ DOMAIN jobs' = DOMAIN jobs
      /\ \A i \in DOMAIN jobs : i # j => jobs'[i] = jobs[i]
      /\ jobs'[j].status = status
      /\ jobs'[j].kind = jobs[j].kind /\ jobs'[j].user = jobs[j].user
  BY StatusSet DEF DataRightsInv
<1>5. AccountIsErasedLast'
  <2>1. \A i \in DOMAIN jobs : jobs'[i].kind = jobs[i].kind /\ jobs'[i].user = jobs[i].user
    BY <1>4
  <2>. QED
    BY <1>4, <2>1, ErasedLastStays DEF DataRightsInv
<1>6. r.at = "work" => status \in InProgress /\ \A k \in 1..3 : ~ (k < r.next)
  BY DEF InProgress
<1>. QED
  BY <1>2, <1>3, <1>4, <1>5, <1>6, GoroutineStep DEF AtWork

\* What DataRightsInv says of a goroutine.
LEMMA Goroutine ==
  ASSUME DataRightsInv, NEW j \in DOMAIN jobs, run[j].at # "none"
  PROVE  /\ j \in JobIds /\ run[j] \in Run /\ jobs[j] \in Job
         /\ run \in [JobIds -> Run] /\ NoRun \in Run
         /\ jobs[j].status \in InProgress
         /\ run[j].at \in AtWork => jobs[j].status = "running"
         /\ run[j].at = "email" => jobs[j].kind = "export"
         /\ run[j].at \in {"queued", "start"} => run[j].next = 1
         /\ carried[j] \subseteq Parts(jobs[j].kind)
         /\ run[j].at = "work" /\ jobs[j].kind = "deletion" =>
              \A k \in 1..3 : k < run[j].next => Providers[k] \in carried[j]
         /\ run[j].at = "complete" => carried[j] = Parts(jobs[j].kind)
         /\ carried \in [JobIds -> SUBSET (Services \cup {"email"})]
         /\ held \in [Users -> SUBSET Services]
BY Filed DEF DataRightsInv, TypeInv, RunsAreOpen, PartsAreCarried, NoRun, Run, RunPoint

\* A goroutine that moves on without a word to the tables.
LEMMA GotoStep ==
  ASSUME DataRightsInv, NEW j \in DOMAIN jobs, run[j].at # "none",
         NEW at \in {"start", "email", "fail"}, Goto(j, at),
         jobs' = jobs, held' = held, carried' = carried,
         process' = process, hpc' = hpc, hreq' = hreq,
         at \in AtWork => run[j].at \in AtWork,
         at = "email" => jobs[j].kind = "export",
         at = "start" => run[j].at = "queued"
  PROVE  DataRightsInv'
<1>. DEFINE r == [run[j] EXCEPT !.at = at]
<1>1. run[j] \in Run /\ at \in RunPoint
  BY Goroutine DEF RunPoint, AtWork
<1>2. r \in Run /\ r.at = at /\ r.next = run[j].next /\ run' = [run EXCEPT ![j] = r]
  BY <1>1 DEF Goto, Run
<1>3. /\ at \in AtWork => jobs[j].status = "running"
      /\ at = "start" => run[j].next = 1
      /\ at # "queued" /\ at # "work" /\ at # "complete"
  BY Goroutine
<1>. HIDE DEF r
<1>4. /\ r.at \in AtWork => jobs[j].status = "running"
      /\ r.at = "email" => jobs[j].kind = "export"
      /\ r.at \in {"queued", "start"} => r.next = 1
      /\ r.at # "work" /\ r.at # "complete"
  BY <1>2, <1>3
<1>. QED
  BY <1>2, <1>4, LocalStep

\* A goroutine that ends.
LEMMA ReleaseStep ==
  ASSUME DataRightsInv, NEW j \in DOMAIN jobs, run[j].at # "none", Release(j),
         UNCHANGED jobs \/ \E status \in InProgress \cup Terminal : SetStatus(j, status),
         held' = held, carried' = carried, process' = process, hpc' = hpc, hreq' = hreq
  PROVE  DataRightsInv'
<1>1. /\ NoRun \in Run /\ NoRun.at = "none" /\ "none" \notin AtWork
      /\ run' = [run EXCEPT ![j] = NoRun]
  BY DEF NoRun, AtWork, Run, RunPoint, Release
<1>. HIDE DEF NoRun
<1>2. CASE UNCHANGED jobs
  BY <1>1, <1>2, LocalStep
<1>3. CASE \E status \in InProgress \cup Terminal : SetStatus(j, status)
  <2>1. PICK status \in InProgress \cup Terminal : SetStatus(j, status)
    BY <1>3
  <2>. QED
    BY <1>1, <2>1, StatusStep
<1>. QED
  BY <1>2, <1>3

\* The deadline of a goroutine passes.
LEMMA ExpireStep ==
  ASSUME DataRightsInv, NEW j \in DOMAIN jobs, Expire(j)
  PROVE  DataRightsInv'
<1>. DEFINE r == [run[j] EXCEPT !.expired = TRUE]
<1>1. /\ run[j].at # "none" /\ jobs' = jobs /\ held' = held /\ carried' = carried
      /\ process' = process /\ hpc' = hpc /\ hreq' = hreq /\ run' = [run EXCEPT ![j] = r]
  BY DEF Expire, Environment
<1>2. run[j] \in Run
  BY <1>1, Goroutine
<1>3. r \in Run /\ r.at = run[j].at /\ r.next = run[j].next
  BY <1>2 DEF Run
<1>. HIDE DEF r
<1>4. /\ r.at \in AtWork => jobs[j].status = "running"
      /\ r.at = "email" => jobs[j].kind = "export"
      /\ r.at \in {"queued", "start"} => r.next = 1
      /\ r.at = "work" /\ jobs[j].kind = "deletion" =>
           \A k \in 1..3 : k < r.next => Providers[k] \in carried[j]
      /\ r.at = "complete" => carried[j] = Parts(jobs[j].kind)
  BY <1>1, <1>3, Goroutine
<1>. QED
  BY <1>1, <1>3, <1>4, LocalStep

\* The job runs.
LEMMA MarkRunningStep ==
  ASSUME DataRightsInv, NEW j \in DOMAIN jobs, MarkRunning(j)
  PROVE  DataRightsInv'
<1>. DEFINE r == [run[j] EXCEPT !.at = "work"]
<1>1. /\ run[j].at = "start" /\ run[j].at # "none" /\ held' = held /\ carried' = carried
      /\ process' = process /\ hpc' = hpc /\ hreq' = hreq /\ run' = [run EXCEPT ![j] = r]
      /\ SetStatus(j, "running")
  BY DEF MarkRunning, Environment, Goto
<1>2. run[j] \in Run /\ run[j].next = 1
  BY <1>1, Goroutine
<1>3. r \in Run /\ r.at = "work" /\ r.next = 1
  BY <1>2 DEF Run, RunPoint, AtWork
<1>4. "running" \in InProgress \cup Terminal
  BY DEF InProgress
<1>. HIDE DEF r
<1>. QED
  BY <1>1, <1>3, <1>4, StatusStep

\* The steps of jobrunner and of the export engine up to its e-mail.
LEMMA RunnerSteps ==
  ASSUME DataRightsInv, NEW j \in DOMAIN jobs,
         \/ Acquire(j) \/ Expire(j) \/ MarkRunning(j) \/ MarkRunningFails(j)
         \/ CompleteJob(j) \/ CompleteJobFails(j) \/ FailJob(j) \/ FailJobFails(j)
         \/ Panic(j) \/ Collect(j) \/ CollectFails(j) \/ SendEmailFails(j)
  PROVE  DataRightsInv'
<1>1. CASE Acquire(j)
  <2>1. /\ run[j].at = "queued" /\ run[j].at # "none" /\ Goto(j, "start")
        /\ jobs' = jobs /\ held' = held /\ carried' = carried
        /\ process' = process /\ hpc' = hpc /\ hreq' = hreq
    BY <1>1 DEF Acquire, Environment
  <2>2. "start" \notin AtWork
    BY DEF AtWork
  <2>. QED
    BY <2>1, <2>2, GotoStep
<1>2. CASE Panic(j) \/ CollectFails(j) \/ SendEmailFails(j)
  <2>1. /\ run[j].at \in AtWork /\ run[j].at # "none" /\ Goto(j, "fail")
        /\ jobs' = jobs /\ held' = held /\ carried' = carried
        /\ process' = process /\ hpc' = hpc /\ hreq' = hreq
    BY <1>2 DEF Panic, CollectFails, SendEmailFails, AfterEmail, AtWork, Environment
  <2>. QED
    BY <2>1, GotoStep
<1>3. CASE Collect(j)
  <2>1. /\ run[j].at \in AtWork /\ run[j].at # "none" /\ Goto(j, "email")
        /\ jobs' = jobs /\ held' = held /\ carried' = carried /\ jobs[j].kind = "export"
        /\ process' = process /\ hpc' = hpc /\ hreq' = hreq
    BY <1>3 DEF Collect, AtWork, Environment
  <2>. QED
    BY <2>1, GotoStep
<1>4. CASE MarkRunningFails(j) \/ CompleteJobFails(j) \/ FailJobFails(j) \/ CompleteJob(j) \/ FailJob(j)
  <2>1. /\ run[j].at # "none" /\ Release(j)
        /\ held' = held /\ carried' = carried
        /\ process' = process /\ hpc' = hpc /\ hreq' = hreq
    BY <1>4 DEF MarkRunningFails, CompleteJobFails, FailJobFails, CompleteJob, FailJob, Environment
  <2>2. UNCHANGED jobs \/ SetStatus(j, "running") \/ SetStatus(j, "completed") \/ SetStatus(j, "failed")
    BY <1>4 DEF MarkRunningFails, CompleteJobFails, FailJobFails, CompleteJob, FailJob
  <2>3. {"running", "completed", "failed"} \subseteq InProgress \cup Terminal
    BY DEF InProgress, Terminal
  <2>. QED
    BY <2>1, <2>2, <2>3, ReleaseStep
<1>. QED
  BY <1>1, <1>2, <1>3, <1>4, ExpireStep, MarkRunningStep

\* The e-mail is out, with or without an answer.
LEMMA SendEmailStep ==
  ASSUME DataRightsInv, NEW j \in DOMAIN jobs, SendEmail(j)
  PROVE  DataRightsInv'
<1>1. /\ run[j].at = "email" /\ run[j].at # "none" /\ run[j].at \in AtWork
      /\ jobs' = jobs /\ held' = held /\ process' = process /\ hpc' = hpc /\ hreq' = hreq
      /\ carried' = [carried EXCEPT ![j] = carried[j] \cup {"email"}]
  BY DEF SendEmail, Environment, AtWork
<1>2. PICK at \in {"complete", "fail"} : Goto(j, at)
  BY DEF SendEmail, AfterEmail
<1>3. at \in RunPoint /\ at \in AtWork /\ at \notin {"none", "queued", "start", "work", "email"}
  BY DEF RunPoint, AtWork
<1>4. /\ jobs[j].kind = "export" /\ jobs[j].status = "running" /\ jobs[j].status \in InProgress
      /\ carried[j] \cup {"email"} = Parts(jobs[j].kind)
  BY <1>1, Goroutine, ProvidersAre
<1>5. AccountIsErasedLast'
  <2>1. \A i \in DOMAIN jobs : carried[i] \subseteq carried'[i]
    BY <1>1, Goroutine, Filed DEF DataRightsInv
  <2>. QED
    BY <1>1, <2>1, ErasedLastStays DEF DataRightsInv
<1>. DEFINE r == [run[j] EXCEPT !.at = at]
            parts == carried[j] \cup {"email"}
<1>6. r \in Run /\ r.at = at /\ run' = [run EXCEPT ![j] = r]
  <2>1. run[j] \in Run
    BY <1>1, Goroutine
  <2>. QED
    BY <1>2, <1>3, <2>1 DEF Goto, Run
<1>7. jobs \in Seq(Job) /\ held \in [Users -> SUBSET Services]
  BY DEF DataRightsInv, TypeInv
<1>8. carried[j] \subseteq parts
  OBVIOUS
<1>. HIDE DEF r, parts
<1>. QED
  BY <1>1, <1>3, <1>4, <1>5, <1>6, <1>7, <1>8, GoroutineStep DEF parts

\* A provider erased its data or failed to, with or without an answer.
LEMMA DeleteStep ==
  ASSUME DataRightsInv, NEW j \in DOMAIN jobs, Delete(j) \/ DeleteFails(j)
  PROVE  DataRightsInv'
<1>. DEFINE provider == Providers[run[j].next]
            user == jobs[j].user
<1>1. /\ run[j].at = "work" /\ run[j].at # "none" /\ run[j].at \in AtWork /\ jobs[j].kind = "deletion"
      /\ jobs' = jobs /\ process' = process /\ hpc' = hpc /\ hreq' = hreq
  BY DEF Delete, DeleteFails, Environment, AtWork
<1>2. /\ j \in JobIds /\ run[j] \in Run /\ jobs[j] \in Job /\ user \in Users /\ run[j].next \in 1..3
      /\ jobs[j].status = "running" /\ jobs[j].status \in InProgress
      /\ carried \in [JobIds -> SUBSET (Services \cup {"email"})]
      /\ held \in [Users -> SUBSET Services] /\ jobs \in Seq(Job)
      /\ carried[j] \subseteq Parts("deletion")
      /\ \A k \in 1..3 : k < run[j].next => Providers[k] \in carried[j]
  BY <1>1, Goroutine DEF Run, Job, DataRightsInv, TypeInv
<1>3. /\ provider \in Parts("deletion")
      /\ provider = "auth" => run[j].next = 3
  BY <1>2, ProvidersAre
<1>4. /\ held' \in [Users -> SUBSET Services]
      /\ \A u \in Users : "auth" \notin held'[u] /\ "auth" \in held[u] =>
           u = user /\ {"finance", "expense"} \subseteq carried[j]
  <2>. HIDE DEF provider, user
  <2>1. CASE held' = held
    BY <1>2, <2>1
  <2>2. CASE held' = [held EXCEPT ![user] = @ \ {provider}]
    <3>1. ASSUME provider = "auth" PROVE {"finance", "expense"} \subseteq carried[j]
      <4>1. Providers[1] \in carried[j] /\ Providers[2] \in carried[j]
        BY <1>2, <1>3, <3>1
      <4>. QED
        BY <4>1, ProvidersAre
    <3>2. /\ held'[user] = held[user] \ {provider}
          /\ \A u \in Users : u # user => held'[u] = held[u]
          /\ held' \in [Users -> SUBSET Services]
      BY <1>2, <2>2
    <3>. QED
      BY <3>1, <3>2
  <2>3. held' = held \/ held' = [held EXCEPT ![user] = @ \ {provider}]
    BY DEF Delete, DeleteFails, provider, user
  <2>. QED
    BY <2>1, <2>2, <2>3
<1>5. PICK parts : /\ carried' = [carried EXCEPT ![j] = parts]
                   /\ carried[j] \subseteq parts /\ parts \subseteq Parts("deletion")
                   /\ \/ run' = [run EXCEPT ![j] = AfterDelete(run[j])] /\ provider \in parts
                      \/ run' = [run EXCEPT ![j] = AfterError(run[j])]
  <2>1. CASE carried' = carried /\ run' = [run EXCEPT ![j] = AfterError(run[j])]
    BY <1>2, <2>1
  <2>2. CASE /\ carried' = [carried EXCEPT ![j] = carried[j] \cup {provider}]
             /\ run' = [run EXCEPT ![j] = AfterDelete(run[j])]
    BY <1>2, <1>3, <2>2
  <2>. QED
    BY <2>1, <2>2 DEF Delete, DeleteFails
<1>6. AccountIsErasedLast'
  <2>1. \A i \in DOMAIN jobs : carried[i] \subseteq carried'[i]
    BY <1>2, <1>5, Filed DEF DataRightsInv
  <2>2. ASSUME NEW u \in Users, "auth" \notin held'[u], "auth" \in held[u]
        PROVE  jobs[j].user = u /\ {"finance", "expense"} \subseteq carried'[j]
    BY <1>4, <2>1, <2>2
  <2>. QED
    BY <1>1, <2>1, <2>2 DEF DataRightsInv, AccountIsErasedLast
<1>7. PICK r : /\ r \in Run /\ run' = [run EXCEPT ![j] = r]
               /\ r.at \in {"work", "complete", "fail"}
               /\ r.at = "work" => \A k \in 1..3 : k < r.next => Providers[k] \in parts
               /\ r.at = "complete" => parts = Parts("deletion")
  <2>1. CASE run' = [run EXCEPT ![j] = AfterDelete(run[j])] /\ provider \in parts
    <3>1. CASE run[j].next < Len(Providers)
      <4>. DEFINE r == [run[j] EXCEPT !.next = @ + 1, !.attempt = 1]
      <4>1. run[j].next + 1 \in 1..3
        BY <1>2, <3>1, ProvidersAre
      <4>2. r \in Run /\ r.at = "work" /\ r.next = run[j].next + 1
        BY <1>1, <1>2, <4>1 DEF Run
      <4>3. \A k \in 1..3 : k < r.next => Providers[k] \in parts
        BY <1>2, <1>5, <2>1, <4>2
      <4>. QED
        BY <2>1, <3>1, <4>2, <4>3 DEF AfterDelete
    <3>2. CASE ~ (run[j].next < Len(Providers))
      <4>. DEFINE r == [run[j] EXCEPT !.at = "complete"]
      <4>1. run[j].next = 3
        BY <1>2, <3>2, ProvidersAre
      <4>2. r \in Run /\ r.at = "complete"
        BY <1>2 DEF Run, RunPoint, AtWork
      <4>3. parts = Parts("deletion")
        <5>1. Providers[1] \in carried[j] /\ Providers[2] \in carried[j] /\ Providers[3] \in parts
          BY <1>2, <2>1, <4>1
        <5>. QED
          BY <1>5, <5>1, ProvidersAre
      <4>. QED
        BY <2>1, <3>2, <4>2, <4>3 DEF AfterDelete
    <3>. QED
      BY <3>1, <3>2
  <2>2. CASE run' = [run EXCEPT ![j] = AfterError(run[j])]
    <3>1. CASE run[j].attempt < MaxRetries /\ ~ run[j].expired
      <4>. DEFINE r == [run[j] EXCEPT !.attempt = @ + 1]
      <4>1. r \in Run /\ r.at = "work" /\ r.next = run[j].next
        BY <1>1, <1>2 DEF Run
      <4>. QED
        BY <1>2, <1>5, <2>2, <3>1, <4>1 DEF AfterError
    <3>2. CASE ~ (run[j].attempt < MaxRetries /\ ~ run[j].expired)
      <4>. DEFINE r == [run[j] EXCEPT !.at = "fail"]
      <4>1. r \in Run /\ r.at = "fail"
        BY <1>2 DEF Run, RunPoint, AtWork
      <4>. QED
        BY <2>2, <3>2, <4>1 DEF AfterError
    <3>. QED
      BY <3>1, <3>2
  <2>. QED
    BY <1>5, <2>1, <2>2
<1>. QED
  BY <1>1, <1>2, <1>4, <1>5, <1>6, <1>7, GoroutineStep

\* A handler that goes on or answers: no table is written.
LEMMA CheckStep ==
  ASSUME DataRightsInv, NEW h \in Handlers,
         NEW point \in HandlerPoint \ {"submit"}, hpc' = [hpc EXCEPT ![h] = point],
         NEW q \in HandlerRequest, hreq' = [hreq EXCEPT ![h] = q],
         point # "idle" => process = "serving" /\ q.user \in Users,
         jobs' = jobs, run' = run, held' = held, carried' = carried, process' = process
  PROVE  DataRightsInv'
<1>1. hpc \in [Handlers -> HandlerPoint] /\ hreq \in [Handlers -> HandlerRequest]
  BY DEF DataRightsInv, TypeInv
<1>2. /\ hpc'[h] = point /\ hreq'[h] = q
      /\ \A g \in Handlers : g # h => hpc'[g] = hpc[g] /\ hreq'[g] = hreq[g]
  BY <1>1
<1>3. TypeInv'
  BY <1>1 DEF DataRightsInv, TypeInv
<1>4. HandlersServe'
  BY <1>2 DEF DataRightsInv, HandlersServe
<1>5. SubmitsAreNew'
  BY <1>2 DEF DataRightsInv, SubmitsAreNew
<1>6. RunsAreOpen' /\ PartsAreCarried' /\ AccountIsErasedLast'
  BY DEF DataRightsInv, RunsAreOpen, PartsAreCarried, AccountIsErasedLast
<1>. QED
  BY <1>3, <1>4, <1>5, <1>6 DEF DataRightsInv

\* The steps of a handler that only read.
LEMMA ReadingSteps ==
  ASSUME DataRightsInv, NEW h \in Handlers,
         \/ \E kind \in Kinds, u \in Users : Request(h, kind, u)
         \/ CheckConflict(h) \/ CheckInProgress(h) \/ CheckRateLimit(h) \/ Reject(h)
  PROVE  DataRightsInv'
<1>1. hpc \in [Handlers -> HandlerPoint] /\ hreq \in [Handlers -> HandlerRequest]
  BY DEF DataRightsInv, TypeInv
<1>2. CASE \E kind \in Kinds, u \in Users : Request(h, kind, u)
  <2>1. PICK kind \in Kinds, u \in Users : Request(h, kind, u)
    BY <1>2
  <2>. DEFINE point == IF kind = "export" THEN "dedup" ELSE "conflict"
              q == [kind |-> kind, user |-> u, job |-> 0]
  <2>2. /\ hpc' = [hpc EXCEPT ![h] = point] /\ hreq' = [hreq EXCEPT ![h] = q]
        /\ jobs' = jobs /\ run' = run /\ held' = held /\ carried' = carried
        /\ process' = process /\ process = "serving"
    BY <2>1 DEF Request, Background, Serving
  <2>3. /\ point \in HandlerPoint \ {"submit"} /\ q \in HandlerRequest /\ q.user \in Users
    BY DEF HandlerPoint, HandlerRequest
  <2>. HIDE DEF point, q
  <2>. QED
    BY <2>2, <2>3, CheckStep
<1>3. ASSUME NEW point \in {"dedup", "limit", "insert"}, hpc[h] # "idle", Continue(h, point),
             UNCHANGED <<jobs, recent, run, Background>>
      PROVE  DataRightsInv'
  <2>1. /\ hpc' = [hpc EXCEPT ![h] = point] /\ hreq' = [hreq EXCEPT ![h] = hreq[h]]
        /\ jobs' = jobs /\ run' = run /\ held' = held /\ carried' = carried
        /\ process' = process
    BY <1>1, <1>3 DEF Continue, Background
  <2>2. /\ point \in HandlerPoint \ {"submit"} /\ hreq[h] \in HandlerRequest
        /\ process = "serving" /\ hreq[h].user \in Users
    BY <1>1, <1>3 DEF HandlerPoint, DataRightsInv, HandlersServe
  <2>. QED
    BY <2>1, <2>2, CheckStep
<1>4. CASE CheckConflict(h)
  BY <1>3, <1>4 DEF CheckConflict
<1>5. CASE CheckInProgress(h)
  <2>1. PICK point \in {"limit", "insert"} : Continue(h, point)
    BY <1>5 DEF CheckInProgress
  <2>. QED
    BY <1>3, <1>5, <2>1 DEF CheckInProgress
<1>6. CASE CheckRateLimit(h)
  BY <1>3, <1>6 DEF CheckRateLimit
<1>7. CASE Reject(h)
  <2>1. /\ hpc' = [hpc EXCEPT ![h] = "idle"] /\ hreq' = [hreq EXCEPT ![h] = NoHandler]
        /\ jobs' = jobs /\ run' = run /\ held' = held /\ carried' = carried
        /\ process' = process
    BY <1>7 DEF Reject, Respond, Background
  <2>2. "idle" \in HandlerPoint \ {"submit"} /\ NoHandler \in HandlerRequest
    BY DEF HandlerPoint, HandlerRequest, NoHandler, Kinds
  <2>. QED
    BY <2>1, <2>2, CheckStep
<1>. QED
  BY <1>2, <1>4, <1>5, <1>6, <1>7

\* The row of a job that is filed.
LEMMA JobIsFiled ==
  ASSUME DataRightsInv, NEW h \in Handlers, InsertJob(h)
  PROVE  /\ jobs' \in Seq(Job) /\ Len(jobs') = Len(jobs) + 1 /\ Len(jobs') <= MaxJobs
         /\ DOMAIN jobs' = DOMAIN jobs \cup {Len(jobs) + 1}
         /\ \A i \in DOMAIN jobs : jobs'[i] = jobs[i]
         /\ jobs'[Len(jobs) + 1].status = "pending"
         /\ Len(jobs) + 1 \in JobIds /\ Len(jobs) + 1 \notin DOMAIN jobs
         /\ run[Len(jobs) + 1].at = "none" /\ carried[Len(jobs) + 1] = {}
<1>. DEFINE job == [kind |-> hreq[h].kind, user |-> hreq[h].user, status |-> "pending"]
<1>1. /\ jobs \in Seq(Job) /\ hpc[h] # "idle" /\ hreq[h] \in HandlerRequest
      /\ Len(jobs) \in Nat /\ DOMAIN jobs = 1..Len(jobs)
  BY Filed DEF DataRightsInv, TypeInv, InsertJob
<1>2. job \in Job
  BY <1>1 DEF DataRightsInv, HandlersServe, HandlerRequest, Job, InProgress
<1>3. jobs' = Append(jobs, job) /\ Len(jobs) < MaxJobs
  BY DEF InsertJob
<1>. HIDE DEF job
<1>4. /\ jobs' \in Seq(Job) /\ Len(jobs') = Len(jobs) + 1
      /\ \A i \in 1..Len(jobs) : jobs'[i] = jobs[i]
      /\ jobs'[Len(jobs) + 1] = job
  BY <1>1, <1>2, <1>3, AppendProperties
<1>5. DOMAIN jobs' = 1..(Len(jobs) + 1)
  BY <1>4, LenProperties
<1>6. Len(jobs) + 1 \in JobIds /\ Len(jobs) + 1 \notin DOMAIN jobs /\ Len(jobs') <= MaxJobs
  BY <1>1, <1>3, <1>4, DataRightsAssumption DEF JobIds
<1>7. run[Len(jobs) + 1].at = "none" /\ carried[Len(jobs) + 1] = {}
  BY <1>6 DEF DataRightsInv, RunsAreOpen, PartsAreCarried
<1>8. job.status = "pending"
  BY DEF job
<1>. QED
  BY <1>1, <1>4, <1>5, <1>6, <1>7, <1>8

LEMMA InsertStep ==
  ASSUME DataRightsInv, NEW h \in Handlers, InsertJob(h)
  PROVE  DataRightsInv'
<1>. DEFINE n == Len(jobs) + 1
<1>1. /\ hpc \in [Handlers -> HandlerPoint] /\ hreq \in [Handlers -> HandlerRequest]
      /\ run' = run /\ held' = held /\ carried' = carried /\ process' = process
      /\ hpc[h] = "insert" /\ n \in Nat
  BY Filed DEF DataRightsInv, TypeInv, InsertJob, Background
<1>2. /\ jobs' \in Seq(Job) /\ Len(jobs') <= MaxJobs
      /\ DOMAIN jobs' = DOMAIN jobs \cup {n} /\ \A i \in DOMAIN jobs : jobs'[i] = jobs[i]
      /\ jobs'[n].status = "pending" /\ n \in JobIds /\ n \notin DOMAIN jobs
      /\ run[n].at = "none" /\ carried[n] = {}
  BY JobIsFiled
<1>. HIDE DEF n
<1>3. /\ hpc'[h] \in {"submit", "idle"} /\ hreq'[h] \in HandlerRequest
      /\ hpc'[h] = "submit" => hreq'[h].job = n /\ hreq'[h].user = hreq[h].user
      /\ hpc' \in [Handlers -> HandlerPoint] /\ hreq' \in [Handlers -> HandlerRequest]
      /\ \A g \in Handlers : g # h => hpc'[g] = hpc[g] /\ hreq'[g] = hreq[g]
  <2>1. CASE hpc' = [hpc EXCEPT ![h] = "submit"] /\ hreq' = [hreq EXCEPT ![h].job = n]
    <3>. DEFINE q == [hreq[h] EXCEPT !.job = n]
    <3>1. q \in HandlerRequest /\ q.job = n /\ q.user = hreq[h].user
      BY <1>1 DEF HandlerRequest
    <3>2. hreq' = [hreq EXCEPT ![h] = q]
      BY <2>1
    <3>. HIDE DEF q
    <3>. QED
      BY <1>1, <2>1, <3>1, <3>2 DEF HandlerPoint
  <2>2. CASE Respond(h)
    <3>1. NoHandler \in HandlerRequest
      BY DEF HandlerRequest, NoHandler, Kinds
    <3>. QED
      BY <1>1, <2>2, <3>1 DEF Respond, HandlerPoint
  <2>. QED
    BY <2>1, <2>2 DEF InsertJob, n
<1>4. TypeInv'
  BY <1>1, <1>2, <1>3 DEF DataRightsInv, TypeInv
<1>5. HandlersServe'
  BY <1>1, <1>3 DEF DataRightsInv, HandlersServe
<1>6. SubmitsAreNew'
  <2>1. \A g \in Handlers : g # h /\ hpc[g] = "submit" => hreq[g].job # n
    BY <1>2 DEF DataRightsInv, SubmitsAreNew
  <2>2. ASSUME NEW g \in Handlers, hpc'[g] = "submit"
        PROVE  /\ hreq'[g].job \in DOMAIN jobs' /\ jobs'[hreq'[g].job].status = "pending"
               /\ run'[hreq'[g].job].at = "none"
    <3>1. CASE g = h
      BY <1>1, <1>2, <1>3, <2>2, <3>1
    <3>2. CASE g # h
      BY <1>1, <1>2, <1>3, <2>2, <3>2 DEF DataRightsInv, SubmitsAreNew
    <3>. QED
      BY <3>1, <3>2
  <2>3. ASSUME NEW g \in Handlers, NEW f \in Handlers, hpc'[g] = "submit", hpc'[f] = "submit",
               hreq'[f].job = hreq'[g].job
        PROVE  f = g
    BY <1>3, <2>1, <2>3 DEF DataRightsInv, SubmitsAreNew
  <2>. QED
    BY <2>2, <2>3 DEF SubmitsAreNew
<1>7. RunsAreOpen'
  BY <1>1, <1>2 DEF DataRightsInv, RunsAreOpen
<1>8. PartsAreCarried'
  <2>1. ASSUME NEW i \in JobIds
        PROVE  /\ i \in DOMAIN jobs' => carried[i] \subseteq Parts(jobs'[i].kind)
               /\ i \notin DOMAIN jobs' => carried[i] = {}
               /\ run[i].at = "work" /\ jobs'[i].kind = "deletion" =>
                    \A k \in 1..3 : k < run[i].next => Providers[k] \in carried[i]
               /\ run[i].at = "complete" => carried[i] = Parts(jobs'[i].kind)
    <3>1. CASE i \in DOMAIN jobs
      BY <1>2, <2>1, <3>1 DEF DataRightsInv, PartsAreCarried
    <3>2. CASE i \notin DOMAIN jobs
      <4>1. run[i].at = "none" /\ carried[i] = {}
        BY <3>2 DEF DataRightsInv, RunsAreOpen, PartsAreCarried
      <4>. QED
        BY <4>1
    <3>. QED
      BY <3>1, <3>2
  <2>. QED
    BY <1>1, <2>1 DEF PartsAreCarried
<1>9. AccountIsErasedLast'
  BY <1>1, <1>2, ErasedLastStays DEF DataRightsInv
<1>. QED
  BY <1>4, <1>5, <1>6, <1>7, <1>8, <1>9 DEF DataRightsInv

\* Jobs that are submitted get one goroutine each.
LEMMA SubmitStep ==
  ASSUME DataRightsInv, NEW ids \in SUBSET (DOMAIN jobs), Submit(ids),
         \A j \in ids : /\ jobs[j].status \in InProgress /\ run[j].at = "none"
                        /\ process' = "serving" \/ (process' = "deletions" /\ jobs[j].kind = "export"),
         jobs' = jobs, held' = held, carried' = carried,
         process' \in {"down", "exports", "deletions", "serving"},
         \A j \in JobIds : run[j].at # "none" =>
           process' = "serving" \/ (process' = "deletions" /\ jobs[j].kind = "export"),
         hpc' \in [Handlers -> HandlerPoint], hreq' \in [Handlers -> HandlerRequest],
         HandlersServe', SubmitsAreNew'
  PROVE  DataRightsInv'
<1>. DEFINE queued == [NoRun EXCEPT !.at = "queued"]
<1>1. /\ queued \in Run /\ queued.at = "queued" /\ queued.next = 1
      /\ queued.at \notin AtWork
  <2>1. NoRun \in Run /\ NoRun.next = 1
    BY DEF NoRun, Run, RunPoint
  <2>2. queued \in Run /\ queued.at = "queued" /\ queued.next = 1
    BY <2>1 DEF Run, RunPoint
  <2>. HIDE DEF queued
  <2>. QED
    BY <2>2 DEF AtWork
<1>2. run' = [j \in JobIds |-> IF j \in ids THEN queued ELSE run[j]]
  BY DEF Submit
<1>. HIDE DEF queued
<1>3. TypeInv'
  BY <1>1, <1>2 DEF DataRightsInv, TypeInv
<1>4. RunsAreOpen'
  <2>1. ASSUME NEW j \in JobIds, j \in ids
        PROVE  /\ run'[j] = queued /\ j \in DOMAIN jobs /\ jobs[j].status \in InProgress
               /\ process' = "serving" \/ (process' = "deletions" /\ jobs[j].kind = "export")
    BY <1>2, <2>1
  <2>2. ASSUME NEW j \in JobIds, j \notin ids
        PROVE  run'[j] = run[j]
    BY <1>2, <2>2
  <2>3. "queued" # "email"
    OBVIOUS
  <2>. QED
    BY <1>1, <2>1, <2>2, <2>3 DEF DataRightsInv, RunsAreOpen
<1>5. PartsAreCarried'
  <2>1. ASSUME NEW j \in JobIds
        PROVE  run'[j] = queued \/ run'[j] = run[j]
    BY <1>2
  <2>. QED
    BY <1>1, <2>1 DEF DataRightsInv, PartsAreCarried
<1>6. AccountIsErasedLast'
  BY DEF DataRightsInv, AccountIsErasedLast
<1>. QED
  BY <1>3, <1>4, <1>5, <1>6 DEF DataRightsInv

LEMMA SubmitJobStep ==
  ASSUME DataRightsInv, NEW h \in Handlers, SubmitJob(h)
  PROVE  DataRightsInv'
<1>1. /\ hpc \in [Handlers -> HandlerPoint] /\ hreq \in [Handlers -> HandlerRequest]
      /\ jobs' = jobs /\ held' = held /\ carried' = carried /\ process' = process
      /\ hpc[h] = "submit" /\ process = "serving" /\ Submit({hreq[h].job})
      /\ hpc' = [hpc EXCEPT ![h] = "idle"] /\ hreq' = [hreq EXCEPT ![h] = NoHandler]
  BY DEF DataRightsInv, TypeInv, HandlersServe, SubmitJob, Background, Respond
<1>2. /\ hreq[h].job \in DOMAIN jobs /\ jobs[hreq[h].job].status \in InProgress
      /\ run[hreq[h].job].at = "none"
  BY <1>1 DEF DataRightsInv, SubmitsAreNew, InProgress
<1>3. hpc' \in [Handlers -> HandlerPoint] /\ hreq' \in [Handlers -> HandlerRequest]
  BY <1>1 DEF HandlerPoint, HandlerRequest, NoHandler, Kinds
<1>4. hpc'[h] = "idle" /\ \A g \in Handlers : g # h => hpc'[g] = hpc[g] /\ hreq'[g] = hreq[g]
  BY <1>1
<1>5. HandlersServe'
  BY <1>1, <1>4 DEF DataRightsInv, HandlersServe
<1>6. SubmitsAreNew'
  <2>1. ASSUME NEW g \in Handlers, g # h, hpc[g] = "submit"
        PROVE  run'[hreq[g].job] = run[hreq[g].job]
    <3>1. hreq[g].job # hreq[h].job /\ hreq[g].job \in JobIds
      BY <1>1, <2>1, Filed DEF DataRightsInv, SubmitsAreNew
    <3>. QED
      BY <1>1, <3>1 DEF Submit
  <2>. QED
    BY <1>1, <1>4, <2>1 DEF DataRightsInv, SubmitsAreNew
<1>7. process' \in {"down", "exports", "deletions", "serving"} /\ process' = "serving"
  BY <1>1
<1>. DEFINE ids == {hreq[h].job}
<1>8. ids \in SUBSET (DOMAIN jobs) /\ Submit(ids)
  BY <1>1, <1>2
<1>9. /\ \A j \in ids :
           /\ jobs[j].status \in InProgress /\ run[j].at = "none"
           /\ process' = "serving" \/ (process' = "deletions" /\ jobs[j].kind = "export")
      /\ \A j \in JobIds : run[j].at # "none" =>
           process' = "serving" \/ (process' = "deletions" /\ jobs[j].kind = "export")
  BY <1>2, <1>7
<1>. HIDE DEF ids
<1>. QED
  BY <1>1, <1>3, <1>5, <1>6, <1>7, <1>8, <1>9, SubmitStep

\* The recovery finds every handler idle and the pool of its table empty.
LEMMA RecoverStep ==
  ASSUME DataRightsInv, NEW kind \in Kinds, Recover(kind)
  PROVE  DataRightsInv'
<1>1. /\ jobs' = jobs /\ held' = held /\ carried' = carried /\ hpc' = hpc /\ hreq' = hreq
      /\ process \in {"exports", "deletions"} /\ Submit(NonTerminal(kind))
      /\ process' \in {"deletions", "serving"}
      /\ \/ kind = "export" /\ process = "exports" /\ process' = "deletions"
         \/ kind = "deletion" /\ process = "deletions" /\ process' = "serving"
  BY DEF Recover, Kinds
<1>2. \A h \in Handlers : hpc[h] = "idle"
  BY <1>1 DEF DataRightsInv, HandlersServe
<1>3. HandlersServe' /\ SubmitsAreNew'
  BY <1>1, <1>2 DEF HandlersServe, SubmitsAreNew
<1>4. \A j \in JobIds : run[j].at # "none" =>
        process = "deletions" /\ j \in DOMAIN jobs /\ jobs[j].kind = "export"
  BY <1>1 DEF DataRightsInv, RunsAreOpen
<1>5. \A j \in NonTerminal(kind) :
        j \in DOMAIN jobs /\ j \in JobIds /\ jobs[j].kind = kind /\ jobs[j].status \in InProgress
  BY Filed DEF DataRightsInv, NonTerminal
<1>6. \A j \in NonTerminal(kind) : run[j].at = "none"
  BY <1>1, <1>4, <1>5
<1>7. hpc' \in [Handlers -> HandlerPoint] /\ hreq' \in [Handlers -> HandlerRequest]
  BY <1>1 DEF DataRightsInv, TypeInv
<1>. DEFINE ids == NonTerminal(kind)
<1>8. ids \in SUBSET (DOMAIN jobs) /\ Submit(ids)
  BY <1>1, <1>5
<1>9. /\ \A j \in ids :
           /\ jobs[j].status \in InProgress /\ run[j].at = "none"
           /\ process' = "serving" \/ (process' = "deletions" /\ jobs[j].kind = "export")
      /\ \A j \in JobIds : run[j].at # "none" =>
           process' = "serving" \/ (process' = "deletions" /\ jobs[j].kind = "export")
  BY <1>1, <1>4, <1>5, <1>6
<1>10. process' \in {"down", "exports", "deletions", "serving"}
  BY <1>1
<1>. HIDE DEF ids
<1>. QED
  BY <1>1, <1>3, <1>7, <1>8, <1>9, <1>10, SubmitStep

\* The other steps of the process, and what surrounds it.
LEMMA SurroundingSteps ==
  ASSUME DataRightsInv,
         \/ Crash \/ Start \/ WindowPasses
         \/ \E kind \in Kinds : RecoverFails(kind)
         \/ \E u \in Users, service \in Services : UserWrites(u, service)
  PROVE  DataRightsInv'
<1>1. CASE Crash
  <2>1. /\ jobs' = jobs /\ held' = held /\ carried' = carried /\ process' = "down"
        /\ run' = [j \in JobIds |-> NoRun] /\ hpc' = [h \in Handlers |-> "idle"]
        /\ hreq' = [h \in Handlers |-> NoHandler]
    BY <1>1 DEF Crash
  <2>2. /\ NoRun \in Run /\ NoRun.at = "none" /\ "idle" \in HandlerPoint
        /\ NoHandler \in HandlerRequest
    BY DEF NoRun, Run, RunPoint, HandlerPoint, HandlerRequest, NoHandler, Kinds
  <2>. HIDE DEF NoRun, NoHandler
  <2>3. TypeInv'
    BY <2>1, <2>2 DEF DataRightsInv, TypeInv
  <2>4. HandlersServe' /\ SubmitsAreNew'
    BY <2>1 DEF HandlersServe, SubmitsAreNew
  <2>5. RunsAreOpen'
    BY <2>1, <2>2 DEF RunsAreOpen
  <2>6. PartsAreCarried' /\ AccountIsErasedLast'
    BY <2>1, <2>2 DEF DataRightsInv, PartsAreCarried, AccountIsErasedLast
  <2>. QED
    BY <2>3, <2>4, <2>5, <2>6 DEF DataRightsInv
<1>2. ASSUME jobs' = jobs, run' = run, held' = held, carried' = carried, hpc' = hpc, hreq' = hreq,
             \/ process' = process
             \/ process = "down" /\ process' = "exports"
             \/ process = "exports" /\ process' = "deletions"
             \/ process = "deletions" /\ process' = "serving"
      PROVE  DataRightsInv'
  <2>1. TypeInv'
    BY <1>2 DEF DataRightsInv, TypeInv
  <2>2. HandlersServe' /\ SubmitsAreNew'
    BY <1>2 DEF DataRightsInv, HandlersServe, SubmitsAreNew
  <2>3. RunsAreOpen'
    BY <1>2 DEF DataRightsInv, RunsAreOpen
  <2>4. PartsAreCarried' /\ AccountIsErasedLast'
    BY <1>2 DEF DataRightsInv, PartsAreCarried, AccountIsErasedLast
  <2>. QED
    BY <2>1, <2>2, <2>3, <2>4 DEF DataRightsInv
<1>3. CASE Start \/ WindowPasses \/ \E kind \in Kinds : RecoverFails(kind)
  BY <1>2, <1>3 DEF Start, WindowPasses, RecoverFails, Kinds
<1>4. CASE \E u \in Users, service \in Services : UserWrites(u, service)
  <2>1. PICK u \in Users, service \in Services : UserWrites(u, service)
    BY <1>4
  <2>2. /\ jobs' = jobs /\ run' = run /\ carried' = carried /\ process' = process
        /\ hpc' = hpc /\ hreq' = hreq /\ held' = [held EXCEPT ![u] = @ \cup {service}]
        /\ held \in [Users -> SUBSET Services]
    BY <2>1 DEF UserWrites, Environment, DataRightsInv, TypeInv
  <2>3. /\ held' \in [Users -> SUBSET Services]
        /\ \A v \in Users : "auth" \notin held'[v] => "auth" \notin held[v]
    BY <2>2
  <2>4. TypeInv'
    BY <2>2, <2>3 DEF DataRightsInv, TypeInv
  <2>5. HandlersServe' /\ SubmitsAreNew' /\ RunsAreOpen' /\ PartsAreCarried'
    BY <2>2 DEF DataRightsInv, HandlersServe, SubmitsAreNew, RunsAreOpen, PartsAreCarried
  <2>6. AccountIsErasedLast'
    BY <2>2, <2>3 DEF DataRightsInv, AccountIsErasedLast
  <2>. QED
    BY <2>4, <2>5, <2>6 DEF DataRightsInv
<1>. QED
  BY <1>1, <1>3, <1>4
-----------------------------------------------------------------------------
LEMMA DataRightsInvInit == Init => DataRightsInv
<1>. SUFFICES ASSUME Init PROVE DataRightsInv
  OBVIOUS
<1>1. jobs = << >> /\ jobs \in Seq(Job) /\ Len(jobs) = 0 /\ DOMAIN jobs = {}
  BY EmptySeq DEF Init
<1>2. NoRun \in Run /\ NoRun.at = "none" /\ NoHandler \in HandlerRequest /\ "idle" \in HandlerPoint
  BY DEF NoRun, Run, RunPoint, HandlerRequest, NoHandler, Kinds, HandlerPoint
<1>. HIDE DEF NoRun, NoHandler
<1>3. TypeInv
  BY <1>1, <1>2, DataRightsAssumption DEF Init, TypeInv
<1>4. HandlersServe /\ SubmitsAreNew
  BY DEF Init, HandlersServe, SubmitsAreNew
<1>5. RunsAreOpen /\ PartsAreCarried
  BY <1>1, <1>2 DEF Init, RunsAreOpen, PartsAreCarried
<1>6. AccountIsErasedLast
  BY DEF Init, AccountIsErasedLast, Services
<1>. QED
  BY <1>3, <1>4, <1>5, <1>6 DEF DataRightsInv

LEMMA DataRightsInvNext == DataRightsInv /\ [Next]_vars => DataRightsInv'
<1>. SUFFICES ASSUME DataRightsInv, [Next]_vars PROVE DataRightsInv'
  OBVIOUS
<1>1. CASE \E j \in DOMAIN jobs : Work(j) \/ Trouble(j)
  BY <1>1, RunnerSteps, SendEmailStep, DeleteStep DEF Work, Trouble
<1>2. CASE Requests
  BY <1>2, ReadingSteps DEF Requests
<1>3. CASE \E h \in Handlers : Handle(h)
  BY <1>3, ReadingSteps, InsertStep, SubmitJobStep DEF Handle
<1>4. CASE Surroundings \/ \E kind \in Kinds : RecoverFails(kind)
  BY <1>4, RecoverStep, SurroundingSteps DEF Surroundings
<1>5. CASE UNCHANGED vars
  BY <1>5 DEF vars, DataRightsInv, TypeInv, HandlersServe, SubmitsAreNew, RunsAreOpen,
              PartsAreCarried, AccountIsErasedLast
<1>. QED
  BY <1>1, <1>2, <1>3, <1>4, <1>5 DEF Next

LEMMA DataRightsInvariant == Spec => []DataRightsInv
BY DataRightsInvInit, DataRightsInvNext, PTL DEF Spec

\* No job gets a second goroutine, from the handler that filed it and a
\* recovery or from two recoveries, for any number of handlers and crashes.
THEOREM JobsHaveOneRunner == Spec => []OneRunnerPerJob
<1>1. DataRightsInv => OneRunnerPerJob
  BY Filed DEF DataRightsInv, HandlersServe, SubmitsAreNew, RunsAreOpen, OneRunnerPerJob
<1>. QED
  BY <1>1, DataRightsInvariant, PTL

\* An account is erased only after a deletion of the user erased the finance
\* and expense data, whatever fails, expires or crashes on the way.
THEOREM AccountsAreErasedLast == Spec => []AccountIsErasedLast
<1>1. DataRightsInv => AccountIsErasedLast
  BY DEF DataRightsInv
<1>. QED
  BY <1>1, DataRightsInvariant, PTL
-----------------------------------------------------------------------------
(* Every step is a step of JobLifecycle, or changes neither the status of  *)
(* a job nor what was carried out.                                         *)

\* A status that is set again.
LEMMA StatusAgain ==
  ASSUME DataRightsInv, NEW j \in DOMAIN jobs, SetStatus(j, jobs[j].status)
  PROVE  jobs' = jobs
<1>1. jobs[j] \in Job
  BY Filed DEF DataRightsInv
<1>2. [jobs[j] EXCEPT !.status = jobs[j].status] = jobs[j]
  BY <1>1 DEF Job
<1>3. jobs' = [jobs EXCEPT ![j] = [jobs[j] EXCEPT !.status = jobs[j].status]]
  BY DEF SetStatus
<1>4. jobs \in Seq(Job)
  BY DEF DataRightsInv, TypeInv
<1>. QED
  BY <1>2, <1>3, <1>4

\* A pending or running job is set running.
LEMMA RunningIsStart ==
  ASSUME DataRightsInv, NEW j \in DOMAIN jobs, run[j].at # "none",
         SetStatus(j, "running"), carried' = carried
  PROVE  [Lifecycle!Next]_<<jobs, carried>>
<1>1. jobs[j].status = "pending" \/ jobs[j].status = "running"
  BY Goroutine DEF InProgress
<1>2. CASE jobs[j].status = "pending"
  BY <1>2 DEF SetStatus, Lifecycle!Next, Lifecycle!Start
<1>3. CASE jobs[j].status = "running"
  BY <1>3, StatusAgain
<1>. QED
  BY <1>1, <1>2, <1>3

LEMMA GoroutinesKeepLifecycle ==
  ASSUME DataRightsInv, NEW j \in DOMAIN jobs, Work(j) \/ Trouble(j)
  PROVE  [Lifecycle!Next]_<<jobs, carried>>
<1>1. CASE \/ Acquire(j) \/ Expire(j) \/ CompleteJobFails(j) \/ FailJobFails(j) \/ Panic(j)
           \/ Collect(j) \/ CollectFails(j) \/ SendEmailFails(j) \/ DeleteFails(j)
  BY <1>1 DEF Acquire, Expire, CompleteJobFails, FailJobFails, Panic, Collect, CollectFails,
              SendEmailFails, DeleteFails
<1>2. CASE MarkRunning(j) \/ MarkRunningFails(j)
  <2>1. /\ run[j].at # "none" /\ carried' = carried
        /\ SetStatus(j, "running") \/ jobs' = jobs
    BY <1>2 DEF MarkRunning, MarkRunningFails
  <2>. QED
    BY <2>1, RunningIsStart
<1>3. CASE CompleteJob(j)
  <2>1. /\ jobs[j].status = "running" /\ carried[j] = Parts(jobs[j].kind)
        /\ SetStatus(j, "completed") /\ carried' = carried
    BY <1>3, Goroutine DEF CompleteJob, AtWork
  <2>. QED
    BY <2>1 DEF SetStatus, Lifecycle!Next, Lifecycle!Complete
<1>4. CASE FailJob(j)
  <2>1. jobs[j].status = "running" /\ SetStatus(j, "failed") /\ carried' = carried
    BY <1>4, Goroutine DEF FailJob, AtWork
  <2>. QED
    BY <2>1 DEF SetStatus, Lifecycle!Next, Lifecycle!Fail
<1>5. ASSUME NEW part \in Parts(jobs[j].kind), jobs[j].status = "running", jobs' = jobs,
             carried' = [carried EXCEPT ![j] = @ \cup {part}]
      PROVE  [Lifecycle!Next]_<<jobs, carried>>
  BY <1>5 DEF Lifecycle!Next, Lifecycle!Work
<1>6. CASE SendEmail(j)
  <2>1. /\ jobs[j].kind = "export" /\ jobs[j].status = "running" /\ jobs' = jobs
        /\ carried' = [carried EXCEPT ![j] = @ \cup {"email"}]
    BY <1>6, Goroutine DEF SendEmail, AtWork
  <2>. QED
    BY <1>5, <2>1, ProvidersAre
<1>7. CASE Delete(j)
  <2>. DEFINE provider == Providers[run[j].next]
  <2>1. /\ jobs[j].kind = "deletion" /\ jobs[j].status = "running" /\ jobs' = jobs
        /\ run[j] \in Run
    BY <1>7, Goroutine DEF Delete, AtWork
  <2>2. provider \in Parts(jobs[j].kind)
    BY <2>1, ProvidersAre DEF Run
  <2>3. carried' = carried \/ carried' = [carried EXCEPT ![j] = @ \cup {provider}]
    BY <1>7 DEF Delete
  <2>. HIDE DEF provider
  <2>. QED
    BY <1>5, <2>1, <2>2, <2>3
<1>. QED
  BY <1>1, <1>2, <1>3, <1>4, <1>6, <1>7 DEF Work, Trouble

LEMMA HandlersKeepLifecycle ==
  ASSUME DataRightsInv, NEW h \in Handlers, Handle(h)
  PROVE  [Lifecycle!Next]_<<jobs, carried>>
<1>1. CASE CheckConflict(h) \/ CheckInProgress(h) \/ CheckRateLimit(h) \/ SubmitJob(h) \/ Reject(h)
  BY <1>1 DEF CheckConflict, CheckInProgress, CheckRateLimit, SubmitJob, Reject, Background
<1>2. CASE InsertJob(h)
  <2>1. hpc[h] # "idle" /\ carried' = carried
    BY <1>2 DEF InsertJob, Background
  <2>2. hreq[h].kind \in Kinds /\ hreq[h].user \in Users
    BY <2>1 DEF DataRightsInv, TypeInv, HandlersServe, HandlerRequest
  <2>3. Lifecycle!File(hreq[h].kind, hreq[h].user)
    BY <1>2 DEF InsertJob, Lifecycle!File
  <2>. QED
    BY <2>1, <2>2, <2>3 DEF Lifecycle!Next
<1>. QED
  BY <1>1, <1>2 DEF Handle

LEMMA LifecycleStep == DataRightsInv /\ [Next]_vars => [Lifecycle!Next]_<<jobs, carried>>
<1>. SUFFICES ASSUME DataRightsInv, [Next]_vars PROVE [Lifecycle!Next]_<<jobs, carried>>
  OBVIOUS
<1>1. CASE Requests \/ Surroundings \/ (\E kind \in Kinds : RecoverFails(kind)) \/ UNCHANGED vars
  <2>1. jobs' = jobs /\ carried' = carried
    BY <1>1 DEF Requests, Request, Background, Surroundings, Crash, Start, WindowPasses, Recover,
                RecoverFails, UserWrites, vars
  <2>. QED
    BY <2>1
<1>. QED
  BY <1>1, GoroutinesKeepLifecycle, HandlersKeepLifecycle DEF Next

\* A job ends once, completed only when its e-mail was accepted or every
\* provider has erased its part, over any crashes, recoveries and deadlines.
THEOREM DataRightsImplementsLifecycle == Spec => ImplementsLifecycle
<1>1. Init => Lifecycle!Init
  BY DEF Init, Lifecycle!Init
<1>. QED
  BY <1>1, LifecycleStep, DataRightsInvariant, PTL DEF Spec, ImplementsLifecycle, Lifecycle!Spec
-----------------------------------------------------------------------------
(* When a user's requests do not overlap, the checks of the handlers hold  *)
(* until their INSERT.                                                     *)

\* What a handler has checked of its user is still so.
ChecksHold ==
  \A h \in Handlers :
    /\ hpc[h] \in {"limit", "insert"} => ~ JobInProgress(hreq[h].kind, hreq[h].user)
    /\ hpc[h] = "insert" /\ hreq[h].kind = "export" => ~ RateLimited(hreq[h].user)
    /\ hpc[h] = "limit" => hreq[h].kind = "export"

RecentAreFiled == recent \subseteq DOMAIN jobs

SerialInv ==
  /\ DataRightsInv /\ Serial /\ ChecksHold /\ RecentAreFiled
  /\ OneInProgressPerUser /\ OneExportPerWindow

SerialNext == Next /\ Serial'

\* No row is added, none is taken up again, and the window loses at most some.
JobsOnlyEnd ==
  /\ DOMAIN jobs' = DOMAIN jobs /\ recent' \subseteq recent
  /\ \A i \in DOMAIN jobs :
       /\ jobs'[i].kind = jobs[i].kind /\ jobs'[i].user = jobs[i].user
       /\ jobs'[i].status \in InProgress => jobs[i].status \in InProgress
       /\ jobs[i].status = "failed" => jobs'[i].status = "failed"

\* A status that is set by the goroutine of the job.
LEMMA StatusOnlyEnds ==
  ASSUME DataRightsInv, NEW j \in DOMAIN jobs, run[j].at # "none",
         NEW status \in InProgress \cup Terminal, SetStatus(j, status), recent' = recent
  PROVE  JobsOnlyEnd
<1>1. jobs[j].status \in InProgress /\ jobs[j].status # "failed"
  BY Goroutine DEF InProgress
<1>2. /\ DOMAIN jobs' = DOMAIN jobs
      /\ \A i \in DOMAIN jobs : i # j => jobs'[i] = jobs[i]
      /\ jobs'[j].kind = jobs[j].kind /\ jobs'[j].user = jobs[j].user
  BY StatusSet DEF DataRightsInv
<1>. QED
  BY <1>1, <1>2 DEF JobsOnlyEnd

\* Every step but an INSERT only ends jobs.
LEMMA StepsOnlyEnd ==
  ASSUME DataRightsInv, [Next]_vars, \A h \in Handlers : ~ InsertJob(h)
  PROVE  JobsOnlyEnd
<1>1. ASSUME jobs' = jobs, recent' \subseteq recent PROVE JobsOnlyEnd
  BY <1>1 DEF JobsOnlyEnd
<1>2. CASE \E j \in DOMAIN jobs : Work(j) \/ Trouble(j)
  <2>1. PICK j \in DOMAIN jobs : Work(j) \/ Trouble(j)
    BY <1>2
  <2>2. CASE \/ Acquire(j) \/ Expire(j) \/ CompleteJobFails(j) \/ FailJobFails(j) \/ Panic(j)
             \/ Collect(j) \/ CollectFails(j) \/ SendEmail(j) \/ SendEmailFails(j)
             \/ Delete(j) \/ DeleteFails(j)
    <3>1. jobs' = jobs /\ recent' = recent
      BY <2>2 DEF Acquire, Expire, CompleteJobFails, FailJobFails, Panic, Collect, CollectFails,
                  SendEmail, SendEmailFails, Delete, DeleteFails, Environment
    <3>. QED
      BY <1>1, <3>1
  <2>3. CASE MarkRunning(j) \/ MarkRunningFails(j) \/ CompleteJob(j) \/ FailJob(j)
    <3>1. /\ run[j].at # "none" /\ recent' = recent
          /\ \/ jobs' = jobs \/ SetStatus(j, "running")
             \/ SetStatus(j, "completed") \/ SetStatus(j, "failed")
      BY <2>3 DEF MarkRunning, MarkRunningFails, CompleteJob, FailJob, Environment
    <3>2. {"running", "completed", "failed"} \subseteq InProgress \cup Terminal
      BY DEF InProgress, Terminal
    <3>. QED
      BY <1>1, <3>1, <3>2, StatusOnlyEnds
  <2>. QED
    BY <2>1, <2>2, <2>3 DEF Work, Trouble
<1>3. CASE \/ Requests \/ \E h \in Handlers : Handle(h)
           \/ Surroundings \/ (\E kind \in Kinds : RecoverFails(kind)) \/ UNCHANGED vars
  <2>1. jobs' = jobs /\ recent' \subseteq recent
    BY <1>3 DEF Requests, Request, Handle, CheckConflict, CheckInProgress, CheckRateLimit,
                SubmitJob, Reject, Background, Environment, Surroundings, Crash, Start,
                WindowPasses, Recover, RecoverFails, UserWrites, vars
  <2>. QED
    BY <1>1, <2>1
<1>. QED
  BY <1>2, <1>3 DEF Next

\* Jobs that only end leave every answer of the queries as good as it was.
LEMMA EndingKeepsChecks ==
  ASSUME JobsOnlyEnd, RecentAreFiled
  PROVE  /\ \A kind, u : ~ JobInProgress(kind, u) => ~ JobInProgress(kind, u)'
         /\ \A u : ~ RateLimited(u) => ~ RateLimited(u)'
         /\ RecentAreFiled'
         /\ OneInProgressPerUser => OneInProgressPerUser'
         /\ OneExportPerWindow => OneExportPerWindow'
<1>1. \A kind, u : ~ JobInProgress(kind, u) => ~ JobInProgress(kind, u)'
  BY DEF JobsOnlyEnd, JobInProgress
<1>2. \A u : ~ RateLimited(u) => ~ RateLimited(u)'
  BY DEF JobsOnlyEnd, RateLimited, RecentAreFiled
<1>3. RecentAreFiled'
  BY DEF JobsOnlyEnd, RecentAreFiled
<1>4. OneInProgressPerUser => OneInProgressPerUser'
  BY DEF JobsOnlyEnd, OneInProgressPerUser
<1>5. OneExportPerWindow => OneExportPerWindow'
  BY DEF JobsOnlyEnd, OneExportPerWindow, RecentAreFiled
<1>. QED
  BY <1>1, <1>2, <1>3, <1>4, <1>5

\* Where a handler is after a step, and what it checked on the way.
LEMMA HandlerMoves ==
  ASSUME DataRightsInv, ChecksHold, [Next]_vars, NEW h \in Handlers, ~ InsertJob(h),
         hpc'[h] \in {"limit", "insert"}
  PROVE  /\ hreq'[h] = hreq[h]
         /\ ~ JobInProgress(hreq[h].kind, hreq[h].user)
         /\ hpc'[h] = "insert" /\ hreq[h].kind = "export" => ~ RateLimited(hreq[h].user)
         /\ hpc'[h] = "limit" => hreq[h].kind = "export"
<1>1. hpc \in [Handlers -> HandlerPoint] /\ hreq \in [Handlers -> HandlerRequest]
  BY DEF DataRightsInv, TypeInv
<1>2. CASE hpc'[h] = hpc[h] /\ hreq'[h] = hreq[h]
  BY <1>2 DEF ChecksHold
<1>3. CASE CheckInProgress(h)
  <2>1. /\ hreq' = hreq /\ ~ JobInProgress(hreq[h].kind, hreq[h].user)
        /\ hpc'[h] = IF hreq[h].kind = "export" THEN "limit" ELSE "insert"
    BY <1>1, <1>3 DEF CheckInProgress, Continue
  <2>. QED
    BY <2>1
<1>4. CASE CheckRateLimit(h)
  <2>1. /\ hreq' = hreq /\ ~ RateLimited(hreq[h].user) /\ hpc'[h] = "insert" /\ hpc[h] = "limit"
    BY <1>1, <1>4 DEF CheckRateLimit, Continue
  <2>. QED
    BY <2>1 DEF ChecksHold
<1>5. \/ hpc'[h] = hpc[h] /\ hreq'[h] = hreq[h]
      \/ CheckInProgress(h) \/ CheckRateLimit(h)
  <2>1. CASE \E j \in DOMAIN jobs : Work(j) \/ Trouble(j)
    BY <2>1 DEF Work, Trouble, Acquire, Expire, MarkRunning, MarkRunningFails, CompleteJob,
                CompleteJobFails, FailJob, FailJobFails, Panic, Collect, CollectFails, SendEmail,
                SendEmailFails, Delete, DeleteFails, Environment
  <2>2. CASE Requests
    BY <1>1, <2>2 DEF Requests, Request
  <2>3. CASE \E g \in Handlers : Handle(g)
    <3>1. PICK g \in Handlers : Handle(g)
      BY <2>3
    <3>2. CASE g # h
      BY <1>1, <3>1, <3>2 DEF Handle, CheckConflict, CheckInProgress, CheckRateLimit, InsertJob,
                              SubmitJob, Reject, Respond, Continue
    <3>3. CASE g = h
      <4>1. ~ SubmitJob(h) /\ ~ Reject(h) /\ ~ CheckConflict(h)
        BY <1>1 DEF SubmitJob, Reject, Respond, CheckConflict, Continue
      <4>. QED
        BY <3>1, <3>3, <4>1 DEF Handle
    <3>. QED
      BY <3>2, <3>3
  <2>4. CASE Surroundings \/ (\E kind \in Kinds : RecoverFails(kind)) \/ UNCHANGED vars
    <3>1. ~ Crash
      BY DEF Crash
    <3>. QED
      BY <2>4, <3>1 DEF Surroundings, Start, WindowPasses, Recover, RecoverFails, UserWrites,
                        Environment, vars
  <2>. QED
    BY <2>1, <2>2, <2>3, <2>4 DEF Next
<1>. QED
  BY <1>2, <1>3, <1>4, <1>5

\* The row that is filed is the only one of its user in progress, and in the window.
LEMMA FilingKeepsInv ==
  ASSUME SerialInv, NEW h \in Handlers, InsertJob(h)
  PROVE  /\ ChecksHold' /\ RecentAreFiled' /\ OneInProgressPerUser' /\ OneExportPerWindow'
<1>. DEFINE n == Len(jobs) + 1
            kind == hreq[h].kind
            user == hreq[h].user
<1>1. /\ hpc \in [Handlers -> HandlerPoint] /\ hreq \in [Handlers -> HandlerRequest]
      /\ hpc[h] = "insert" /\ recent' = recent \cup {n} /\ user # NoUser
      /\ ~ JobInProgress(kind, user) /\ (kind = "export" => ~ RateLimited(user))
      /\ recent \subseteq DOMAIN jobs
  BY DataRightsAssumption DEF SerialInv, DataRightsInv, TypeInv, HandlersServe, InsertJob, ChecksHold,
     RecentAreFiled
<1>2. /\ DOMAIN jobs' = DOMAIN jobs \cup {n} /\ n \notin DOMAIN jobs
      /\ \A i \in DOMAIN jobs : jobs'[i] = jobs[i]
  BY JobIsFiled DEF SerialInv
<1>3. jobs'[n].kind = kind /\ jobs'[n].user = user
  <2>1. jobs' = Append(jobs, [kind |-> kind, user |-> user, status |-> "pending"])
    BY DEF InsertJob
  <2>2. jobs \in Seq(Job)
    BY DEF SerialInv, DataRightsInv, TypeInv
  <2>. QED
    BY <2>1, <2>2
<1>4. /\ hpc'[h] \in {"submit", "idle"}
      /\ \A g \in Handlers : g # h => hpc'[g] = hpc[g] /\ hreq'[g] = hreq[g]
  BY <1>1 DEF InsertJob, Respond
<1>5. \A g \in Handlers : g # h => hreq[g].user # user
  BY <1>1 DEF SerialInv, Serial
<1>. HIDE DEF n, kind, user
<1>6. ASSUME NEW k, NEW u, u # user
      PROVE  /\ ~ JobInProgress(k, u) => ~ JobInProgress(k, u)'
             /\ ~ RateLimited(u) => ~ RateLimited(u)'
  <2>1. ~ JobInProgress(k, u) => ~ JobInProgress(k, u)'
    BY <1>2, <1>3, <1>6 DEF JobInProgress
  <2>2. ~ RateLimited(u) => ~ RateLimited(u)'
    BY <1>1, <1>2, <1>3, <1>6 DEF RateLimited
  <2>. QED
    BY <2>1, <2>2
<1>7. ChecksHold'
  BY <1>4, <1>5, <1>6 DEF SerialInv, ChecksHold
<1>8. RecentAreFiled'
  BY <1>1, <1>2 DEF RecentAreFiled
<1>9. OneInProgressPerUser'
  BY <1>1, <1>2, <1>3 DEF SerialInv, OneInProgressPerUser, JobInProgress
<1>10. OneExportPerWindow'
  BY <1>1, <1>2, <1>3 DEF SerialInv, OneExportPerWindow, RateLimited
<1>. QED
  BY <1>7, <1>8, <1>9, <1>10
-----------------------------------------------------------------------------
LEMMA SerialInvInit == Init => SerialInv
<1>. SUFFICES ASSUME Init PROVE SerialInv
  OBVIOUS
<1>1. DataRightsInv
  BY DataRightsInvInit
<1>2. Serial
  BY DEF Init, Serial, NoHandler
<1>3. DOMAIN jobs = {} /\ recent = {}
  BY DEF Init
<1>. QED
  BY <1>1, <1>2, <1>3 DEF SerialInv, ChecksHold, RecentAreFiled, OneInProgressPerUser,
                          OneExportPerWindow, Init

LEMMA SerialInvNext == SerialInv /\ [SerialNext]_vars => SerialInv'
<1>. SUFFICES ASSUME SerialInv, [SerialNext]_vars PROVE SerialInv'
  OBVIOUS
<1>1. DataRightsInv' /\ [Next]_vars
  BY DataRightsInvNext DEF SerialInv, SerialNext
<1>2. Serial'
  BY DEF SerialInv, SerialNext, Serial, vars
<1>3. CASE \E h \in Handlers : InsertJob(h)
  BY <1>1, <1>2, <1>3, FilingKeepsInv DEF SerialInv
<1>4. CASE \A h \in Handlers : ~ InsertJob(h)
  <2>1. JobsOnlyEnd
    BY <1>1, <1>4, StepsOnlyEnd DEF SerialInv
  <2>2. /\ RecentAreFiled' /\ OneInProgressPerUser' /\ OneExportPerWindow'
        /\ \A kind, u : ~ JobInProgress(kind, u) => ~ JobInProgress(kind, u)'
        /\ \A u : ~ RateLimited(u) => ~ RateLimited(u)'
    BY <2>1, EndingKeepsChecks DEF SerialInv
  <2>3. ChecksHold'
    <3>1. ASSUME NEW h \in Handlers, hpc'[h] \in {"limit", "insert"}
          PROVE  /\ hreq'[h] = hreq[h]
                 /\ ~ JobInProgress(hreq[h].kind, hreq[h].user)
                 /\ hpc'[h] = "insert" /\ hreq[h].kind = "export" => ~ RateLimited(hreq[h].user)
                 /\ hpc'[h] = "limit" => hreq[h].kind = "export"
      BY <1>1, <1>4, <3>1, HandlerMoves DEF SerialInv
    <3>. QED
      BY <2>2, <3>1 DEF ChecksHold, JobInProgress, RateLimited
  <2>. QED
    BY <1>1, <1>2, <2>2, <2>3 DEF SerialInv
<1>. QED
  BY <1>3, <1>4

LEMMA SerialInvariant == SerialSpec => []SerialInv
BY SerialInvInit, SerialInvNext, PTL DEF SerialSpec, SerialNext

\* Filing a job twice over is refused: one pending or running job of a kind
\* per user, if the requests of a user do not overlap.
THEOREM JobsAreNotFiledTwice == SerialSpec => []OneInProgressPerUser
<1>1. SerialInv => OneInProgressPerUser
  BY DEF SerialInv
<1>. QED
  BY <1>1, SerialInvariant, PTL

\* The rate limit holds of the exports that succeed or may yet, if the
\* requests of a user do not overlap.
THEOREM ExportsAreLimited == SerialSpec => []OneExportPerWindow
<1>1. SerialInv => OneExportPerWindow
  BY DEF SerialInv
<1>. QED
  BY <1>1, SerialInvariant, PTL
=============================================================================
