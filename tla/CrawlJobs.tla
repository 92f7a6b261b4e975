----------------------------- MODULE CrawlJobs -----------------------------
(***************************************************************************)
(* Site-audit jobs: SqliteCrawlStore (src/apps/api/src/webdiag_api/crawl/  *)
(* storage.py), CrawlService.run_one, which claims one job, crawls and     *)
(* reports inside one API call (crawl/service.py), and what archiving and  *)
(* restoring a project do to its jobs (accounts/workspace_storage.py).     *)
(*                                                                         *)
(* The scheduler calls run-one once a cycle, but stops waiting for a long  *)
(* one, whose thread goes on in the API: several crawls may be under way,  *)
(* and several of the same job once a lease has run out.  A transaction is *)
(* one step.  A token belongs to one thread, so that the thread stands for *)
(* it; of a job's attempts only the newest is ever looked at.              *)
(***************************************************************************)
EXTENDS Integers, FiniteSets

CONSTANTS
    Users,
    Projects,
    Owner,        \* user_id of each project
    MaxJobs,      \* bound of the model: jobs ever created
    Lease,        \* lease_seconds, in ticks
    UserLimit,    \* active_job_limit_per_user
    GlobalLimit,  \* active_job_limit_global
    Crawls,       \* threads of the API that may serve run-one
    Nobody, NoProject

ASSUME CrawlAssumption ==
    /\ Owner \in [Projects -> Users]
    /\ MaxJobs \in Nat
    /\ Lease \in Nat \ {0}
    /\ UserLimit \in Nat \ {0}
    /\ GlobalLimit \in Nat \ {0}
    /\ UserLimit <= GlobalLimit
    /\ Nobody \notin Crawls
    /\ NoProject \notin Projects

\* Jobs are numbered in the order in which they were created.
JobIds == 1 .. MaxJobs
NoJob == 0

VARIABLES
    job,       \* crawl_jobs
    attempt,   \* crawl_job_attempts: the newest one of each job
    archived,  \* projects with an archived_at
    crawl      \* the job each thread is crawling

vars == <<job, attempt, archived, crawl>>

NewJob(p) == [state |-> "queued", project |-> p, error |-> "none"]

Init ==
    /\ job = [j \in JobIds |->
                [state |-> "none", project |-> NoProject, error |-> "none"]]
    /\ attempt = [j \in JobIds |->
                    [by |-> Nobody, lease |-> 0, completed |-> FALSE]]
    /\ archived = {}
    /\ crawl = [c \in Crawls |-> NoJob]

Created(j) == job[j].state # "none"
Active(j) == job[j].state \in {"queued", "running"}
Ended(j) == job[j].state \in {"succeeded", "failed"}

ActiveJobs == {j \in JobIds : Active(j)}
ActiveOf(u) == {j \in ActiveJobs : Owner[job[j].project] = u}

-----------------------------------------------------------------------------
\* Mutant: running jobs are not counted.
HasRoomInQueue(u) ==
    Cardinality({j \in ActiveOf(u) : job[j].state = "queued"}) < UserLimit

\* create_job: queued and running jobs count against both limits.
HasRoom(u) == /\ Cardinality(ActiveOf(u)) < UserLimit
              /\ Cardinality(ActiveJobs) < GlobalLimit

(***************************************************************************)
(* create_job: the owner of a project asks for an audit.                   *)
(***************************************************************************)
CreateJob(j, p) ==
    /\ ~Created(j)
    /\ \A i \in JobIds : i < j => Created(i)
    /\ p \notin archived
    /\ \A i \in ActiveJobs : job[i].project # p
    /\ HasRoom(Owner[p])
    /\ job' = [job EXCEPT ![j] = NewJob(p)]
    /\ UNCHANGED <<attempt, archived, crawl>>

\* Mutants: a lease that ran out counts for ended jobs as well, or never.
ClaimableIfLapsed(j) ==
    \/ job[j].state = "queued"
    \/ Created(j) /\ attempt[j].lease = 0
ClaimableOnce(j) == job[j].state = "queued"

\* claim_pending: the jobs it may hand out.
Claimable(j) ==
    \/ job[j].state = "queued"
    \/ job[j].state = "running" /\ attempt[j].lease = 0

\* run_one claims the oldest of them.
Claim(c) ==
    /\ crawl[c] = NoJob
    /\ \E j \in JobIds :
        /\ Claimable(j)
        /\ \A i \in JobIds : i < j => ~Claimable(i)
        /\ job' = [job EXCEPT ![j].state = "running"]
        /\ attempt' = [attempt EXCEPT ![j] =
                         [by |-> c, lease |-> Lease, completed |-> FALSE]]
        /\ crawl' = [crawl EXCEPT ![c] = j]
    /\ UNCHANGED archived

\* _current_attempt
Current(j, c) ==
    /\ attempt[j].by = c
    /\ ~attempt[j].completed
    /\ attempt[j].lease > 0

Leave(c) == crawl' = [crawl EXCEPT ![c] = NoJob]

(***************************************************************************)
(* complete_job and fail_job: the attempt is checked, the job is updated   *)
(* WHERE state = 'running'.                                                *)
(***************************************************************************)
Record(j, state, error) ==
    /\ job' = IF job[j].state = "running"
              THEN [job EXCEPT ![j].state = state, ![j].error = error]
              ELSE job
    /\ attempt' = [attempt EXCEPT ![j].completed = TRUE]

(***************************************************************************)
(* The crawl is over: run_one records its result, or the error code of a   *)
(* crawl that was refused, failed or grew too large.  If the lease is lost *)
(* nothing is written (and run-one ends with an error).                    *)
(***************************************************************************)
Report(c) ==
    /\ crawl[c] # NoJob
    /\ IF Current(crawl[c], c)
       THEN \/ Record(crawl[c], "succeeded", "none")
            \/ Record(crawl[c], "failed", "crawl")
       ELSE UNCHANGED <<job, attempt>>
    /\ Leave(c)
    /\ UNCHANGED archived

(***************************************************************************)
(* The crawl raises something else: run_one does not catch it.  (One way   *)
(* is a link on a page that urljoin cannot parse: _internal_links calls it *)
(* before anything is guarded.)                                            *)
(***************************************************************************)
Raise(c) ==
    /\ crawl[c] # NoJob
    /\ Leave(c)
    /\ UNCHANGED <<job, attempt, archived>>

\* The API process dies, with every crawl in it.
Crash ==
    /\ crawl # [c \in Crawls |-> NoJob]
    /\ crawl' = [c \in Crawls |-> NoJob]
    /\ UNCHANGED <<job, attempt, archived>>

-----------------------------------------------------------------------------
\* Mutants: the error code is forgotten; only jobs nobody crawls fail.
FailJobsUncoded(p) ==
    [j \in JobIds |->
        IF Active(j) /\ job[j].project = p
        THEN [job[j] EXCEPT !.state = "failed"] ELSE job[j]]
FailQueuedJobsOf(p) ==
    [j \in JobIds |->
        IF job[j].state = "queued" /\ job[j].project = p
        THEN [job[j] EXCEPT !.state = "failed", !.error = "archived"]
        ELSE job[j]]

\* archive_project: active jobs of the project fail ...
FailJobsOf(p) ==
    [j \in JobIds |->
        IF Active(j) /\ job[j].project = p
        THEN [job[j] EXCEPT !.state = "failed", !.error = "archived"]
        ELSE job[j]]

\* Mutant: open attempts stay open.
CloseNoAttempt(p) == attempt

\* ... and the open attempts of jobs that failed this way are closed.
CloseAttemptsOf(p) ==
    [j \in JobIds |->
        IF /\ job'[j].project = p
           /\ job'[j].error = "archived"
           /\ attempt[j].by # Nobody
        THEN [attempt[j] EXCEPT !.completed = TRUE]
        ELSE attempt[j]]

ArchiveProject(p) ==
    /\ archived' = archived \cup {p}
    /\ job' = FailJobsOf(p)
    /\ attempt' = CloseAttemptsOf(p)
    /\ UNCHANGED crawl

RestoreProject(p) ==
    /\ p \in archived
    /\ archived' = archived \ {p}
    /\ UNCHANGED <<job, attempt, crawl>>

\* Time passes for every lease.
Tick ==
    /\ attempt' = [j \in JobIds |->
            [attempt[j] EXCEPT !.lease = IF @ > 0 THEN @ - 1 ELSE 0]]
    /\ UNCHANGED <<job, archived, crawl>>

Next ==
    \/ \E j \in JobIds, p \in Projects : CreateJob(j, p)
    \/ \E c \in Crawls : Claim(c)
    \/ \E c \in Crawls : Report(c)
    \/ \E c \in Crawls : Raise(c)
    \/ Crash
    \/ \E p \in Projects : ArchiveProject(p)
    \/ \E p \in Projects : RestoreProject(p)
    \/ Tick

Spec == Init /\ [][Next]_vars

-----------------------------------------------------------------------------
\* The end of a crawl of job j by its holder, in time.
ReportInTime(j) ==
    \E c \in Crawls : crawl[c] = j /\ Current(j, c) /\ Report(c)

(***************************************************************************)
(* The scheduler loops forever and outlives any error of a call, so that   *)
(* run-one is called again and again; time passes; a crawl has a deadline, *)
(* so that it ends.  Last, a crawl that is started over and over is not    *)
(* cut short each time: its deadline is shorter than the lease (config.py  *)
(* demands 30 seconds of margin), the API is not killed in the middle of   *)
(* every one, and not every one raises what run_one does not catch.        *)
(***************************************************************************)
Fairness ==
    /\ WF_vars(\E c \in Crawls : Claim(c))
    /\ WF_vars(Tick)
    /\ \A c \in Crawls : WF_vars(Report(c))
    /\ \A j \in JobIds : SF_vars(ReportInTime(j))

LiveSpec == Spec /\ Fairness

-----------------------------------------------------------------------------
(***************************************************************************)
(* Tables and threads hold what they may hold, and a job has an error code *)
(* just if it failed: every way of failing a job gives it one.             *)
(***************************************************************************)
JobTypeOK ==
    /\ job \in [JobIds ->
           [state : {"none", "queued", "running", "succeeded", "failed"},
            project : Projects \cup {NoProject},
            error : {"none", "crawl", "archived"}]]
    /\ \A j \in JobIds :
           /\ Created(j) => job[j].project \in Projects
           /\ job[j].state = "failed" <=> job[j].error # "none"
    /\ attempt \in [JobIds -> [by : Crawls \cup {Nobody}, lease : 0 .. Lease,
                               completed : BOOLEAN]]
    /\ archived \subseteq Projects
    /\ crawl \in [Crawls -> JobIds \cup {NoJob}]

(***************************************************************************)
(* Nobody has more jobs queued or running than allowed, nor has the whole  *)
(* store, nor a project more than one, although a job whose lease ran out  *)
(* is handed out again (create_job counts queued and running).             *)
(***************************************************************************)
ActiveJobsWithinLimits ==
    /\ Cardinality(ActiveJobs) <= GlobalLimit
    /\ \A u \in Users : Cardinality(ActiveOf(u)) <= UserLimit
    /\ \A i, j \in ActiveJobs : job[i].project = job[j].project => i = j

(***************************************************************************)
(* No job of an archived project is waiting or running, whichever of       *)
(* create_job, claim_pending, archive_project and restore_project ran in   *)
(* between: nothing is crawled for a project its owner has put away.       *)
(***************************************************************************)
ActiveJobHasLiveProject ==
    \A j \in ActiveJobs : job[j].project \notin archived

(***************************************************************************)
(* A report the attempt check lets through ends the job: complete_job does *)
(* not look at how many rows its UPDATE ... WHERE state = 'running' wrote, *)
(* so nothing else may have ended a job while its attempt is still open.   *)
(***************************************************************************)
AcceptedReportEndsJob ==
    [][\A j \in JobIds, c \in Crawls :
          crawl[c] = j /\ Current(j, c) /\ Report(c)
              => ~Ended(j) /\ Ended(j)']_vars

(***************************************************************************)
(* A job that ended stays as it is: no late crawl, claim or archiving of   *)
(* its project changes its state or its error.                             *)
(***************************************************************************)
EndedJobIsFinal ==
    [][\A j \in JobIds : Ended(j) => job'[j] = job[j]]_vars

(***************************************************************************)
(* Every job ends, although threads die and leases run out: claim_pending  *)
(* hands a job out again when its lease has run out, oldest first, and     *)
(* keeps no younger job waiting for ever.                                  *)
(***************************************************************************)
EveryJobEnds == \A j \in JobIds : Active(j) ~> Ended(j)

-----------------------------------------------------------------------------
(***************************************************************************)
(* The queue implements AuditOrders: what a project's owner sees of a job  *)
(* is that it is open, or what came of it.                                 *)
(***************************************************************************)
OutcomeOf(error) ==
    CASE error = "none"     -> "delivered"
      [] error = "crawl"    -> "refused"
      [] error = "archived" -> "withdrawn"

OrderOf(j) ==
    IF ~Created(j) THEN [status |-> "none"]
    ELSE [status |-> IF Active(j) THEN "open" ELSE OutcomeOf(job[j].error),
          site |-> job[j].project]

Desk == INSTANCE AuditOrders
          WITH Sites <- Projects, Orders <- JobIds,
               order <- [j \in JobIds |-> OrderOf(j)], closed <- archived

(***************************************************************************)
(* Whatever threads, crashes, lapsed leases, late reports, archiving and   *)
(* restoring do to a job, its project's owner sees one order that is open  *)
(* and then settled once: what it is handed out again for does not show,   *)
(* and archiving withdraws just the open order of that project.  Together  *)
(* with create_job's check, a project never has two open orders.           *)
(***************************************************************************)
ImplementsOrders == Desk!OrdersSpec

\* Thread c leaves its job, and the API goes on: another one still crawls.
LeavesAlone(c) == crawl'[c] = NoJob /\ \E d \in Crawls : crawl'[d] # NoJob

(***************************************************************************)
(* The crawler's design says that the API "atomically claims one job,      *)
(* executes it ..., and persists a bounded result or stable failure code". *)
(* So a thread that leaves its job in time, and not because the whole API  *)
(* died, leaves it ended.                                                  *)
(***************************************************************************)
RunOnePersistsOutcome ==
    [][\A j \in JobIds, c \in Crawls :
          crawl[c] = j /\ Current(j, c) /\ LeavesAlone(c) => Ended(j)']_vars
=============================================================================
