-------------------------- MODULE CrawlJobs_proofs --------------------------
(***************************************************************************)
(* Theorems about site-audit jobs, for any number of users, projects, jobs *)
(* and threads, and any limits.                                            *)
(***************************************************************************)
EXTENDS CrawlJobs, FiniteSetTheorems, TLAPS

(***************************************************************************)
(* A job is running just while its newest attempt is open.  No code checks *)
(* this: the three statements that end a job and the claim keep it.        *)
(***************************************************************************)
AttemptMatchesJob ==
    \A j \in JobIds :
        /\ job[j].state \in {"none", "queued"} => attempt[j].by = Nobody
        /\ job[j].state = "running"
              <=> attempt[j].by # Nobody /\ ~attempt[j].completed

JobRows == [state : {"none", "queued", "running", "succeeded", "failed"},
            project : Projects \cup {NoProject},
            error : {"none", "crawl", "archived"}]
AttemptRows == [by : Crawls \cup {Nobody}, lease : 0 .. Lease,
                completed : BOOLEAN]

JobInv == JobTypeOK /\ AttemptMatchesJob /\ ActiveJobHasLiveProject

-----------------------------------------------------------------------------
LEMMA JobTypes ==
    ASSUME JobTypeOK, NEW j \in JobIds
    PROVE  /\ job[j] = [state |-> job[j].state, project |-> job[j].project,
                        error |-> job[j].error]
           /\ job[j].state \in
                {"none", "queued", "running", "succeeded", "failed"}
           /\ job[j].project \in Projects \cup {NoProject}
           /\ Created(j) => job[j].project \in Projects
           /\ job[j].error \in {"none", "crawl", "archived"}
           /\ job[j].state = "failed" <=> job[j].error # "none"
           /\ attempt[j].by \in Crawls \cup {Nobody}
           /\ attempt[j].lease \in 0 .. Lease
           /\ attempt[j].completed \in BOOLEAN
BY DEF JobTypeOK

LEMMA InitJobInv == Init => JobInv
BY CrawlAssumption
DEF Init, JobInv, JobTypeOK, AttemptMatchesJob, ActiveJobHasLiveProject,
    Created, ActiveJobs, Active

\* What a report does, once the attempt check let it through.
LEMMA RecordedJob ==
    ASSUME JobInv, NEW j \in JobIds, NEW c \in Crawls, Current(j, c)
    PROVE  job[j].state = "running"
BY CrawlAssumption DEF JobInv, AttemptMatchesJob, Current

-----------------------------------------------------------------------------
LEMMA TypeStep == JobInv /\ [Next]_vars => JobTypeOK'
<1> SUFFICES ASSUME JobInv, [Next]_vars
             PROVE  JobTypeOK'
  OBVIOUS
<1>0. JobTypeOK
  BY DEF JobInv
<1>1. CASE UNCHANGED vars
  BY <1>0, <1>1 DEF JobTypeOK, vars, Created
<1>2. ASSUME NEW j \in JobIds, NEW p \in Projects, CreateJob(j, p)
      PROVE  JobTypeOK'
  BY <1>0, <1>2 DEF JobTypeOK, CreateJob, NewJob, Created
<1>3. ASSUME NEW c \in Crawls, Claim(c)
      PROVE  JobTypeOK'
  <2>1. PICK j \in JobIds :
          /\ Claimable(j)
          /\ job' = [job EXCEPT ![j].state = "running"]
          /\ attempt' = [attempt EXCEPT ![j] =
                          [by |-> c, lease |-> Lease, completed |-> FALSE]]
          /\ crawl' = [crawl EXCEPT ![c] = j]
          /\ archived' = archived
    BY <1>3 DEF Claim
  <2>2. Lease \in 0 .. Lease
    BY CrawlAssumption
  <2>3. job[j].state \in {"queued", "running"}
    BY <2>1 DEF Claimable
  <2>4. QED
    BY <1>0, <2>1, <2>2, <2>3 DEF JobTypeOK, Created
<1>4. ASSUME NEW c \in Crawls, Report(c)
      PROVE  JobTypeOK'
  <2>1. crawl[c] \in JobIds /\ crawl' = [crawl EXCEPT ![c] = NoJob]
        /\ archived' = archived
    BY <1>0, <1>4 DEF JobTypeOK, Report, Leave
  <2>2. CASE UNCHANGED <<job, attempt>>
    BY <1>0, <2>1, <2>2 DEF JobTypeOK, Created
  <2>3. ASSUME Current(crawl[c], c),
               NEW state \in {"succeeded", "failed"},
               NEW error \in {"none", "crawl"},
               state = "failed" <=> error # "none",
               Record(crawl[c], state, error)
        PROVE  JobTypeOK'
    <3>1. job[crawl[c]].state = "running"
      BY <2>1, <2>3, RecordedJob
    <3>2. /\ job' = [job EXCEPT ![crawl[c]].state = state,
                                ![crawl[c]].error = error]
          /\ attempt' = [attempt EXCEPT ![crawl[c]].completed = TRUE]
      BY <2>3, <3>1 DEF Record
    <3>3. /\ job' \in [JobIds -> JobRows]
          /\ attempt' \in [JobIds -> AttemptRows]
      <4>1. job \in [JobIds -> JobRows] /\ attempt \in [JobIds -> AttemptRows]
        BY <1>0 DEF JobTypeOK, JobRows, AttemptRows
      <4>2. /\ \A r \in JobRows :
                  [r EXCEPT !.state = state, !.error = error] \in JobRows
            /\ \A r \in AttemptRows :
                  [r EXCEPT !.completed = TRUE] \in AttemptRows
        BY <2>3 DEF JobRows, AttemptRows
      <4>3. QED
        BY <2>1, <3>2, <4>1, <4>2
    <3>4. ASSUME NEW j \in JobIds
          PROVE  /\ Created(j)' => job'[j].project \in Projects
                 /\ job'[j].state = "failed" <=> job'[j].error # "none"
      <4>1. CASE j # crawl[c]
        BY <1>0, <2>1, <3>2, <4>1 DEF JobTypeOK, Created
      <4>2. CASE j = crawl[c]
        <5>1. /\ job'[j].state = state /\ job'[j].error = error
              /\ job'[j].project = job[j].project
          BY <1>0, <2>1, <3>2, <4>2 DEF JobTypeOK
        <5>2. QED
          BY <1>0, <2>1, <2>3, <3>1, <4>2, <5>1 DEF JobTypeOK, Created
      <4>3. QED
        BY <4>1, <4>2
    <3>5. QED
      BY <1>0, <2>1, <3>3, <3>4 DEF JobTypeOK, JobRows, AttemptRows
  <2>4. QED
    BY <1>4, <2>2, <2>3 DEF Report
<1>5. ASSUME NEW c \in Crawls, Raise(c)
      PROVE  JobTypeOK'
  BY <1>0, <1>5 DEF JobTypeOK, Raise, Leave, Created
<1>6. CASE Crash
  BY <1>0, <1>6 DEF JobTypeOK, Crash, Created
<1>7. ASSUME NEW p \in Projects, ArchiveProject(p)
      PROVE  JobTypeOK'
  <2>1. ASSUME NEW j \in JobIds
        PROVE  /\ job'[j] \in JobRows
               /\ Created(j)' => job'[j].project \in Projects
               /\ job'[j].state = "failed" <=> job'[j].error # "none"
    <3>1. /\ job[j] \in JobRows
          /\ Created(j) => job[j].project \in Projects
          /\ job[j].state = "failed" <=> job[j].error # "none"
      BY <1>0 DEF JobTypeOK, JobRows
    <3>2. CASE Active(j) /\ job[j].project = p
      <4>1. job'[j] = [job[j] EXCEPT !.state = "failed", !.error = "archived"]
        BY <1>7, <3>2 DEF ArchiveProject, FailJobsOf
      <4>2. QED
        BY <3>1, <3>2, <4>1 DEF JobRows, Active, Created
    <3>3. CASE ~(Active(j) /\ job[j].project = p)
      <4>1. job'[j] = job[j]
        BY <1>7, <3>3 DEF ArchiveProject, FailJobsOf
      <4>2. QED
        BY <3>1, <4>1 DEF Created
    <3>4. QED
      BY <3>2, <3>3
  <2>2. ASSUME NEW j \in JobIds
        PROVE  attempt'[j] \in AttemptRows
    <3>1. attempt[j] \in AttemptRows
      BY <1>0 DEF JobTypeOK, AttemptRows
    <3>2. attempt'[j] \in {attempt[j], [attempt[j] EXCEPT !.completed = TRUE]}
      BY <1>7 DEF ArchiveProject, CloseAttemptsOf
    <3>3. QED
      BY <3>1, <3>2 DEF AttemptRows
  <2>3. /\ job' \in [JobIds -> JobRows]
        /\ attempt' \in [JobIds -> AttemptRows]
        /\ archived' \subseteq Projects
        /\ crawl' = crawl
    BY <1>0, <1>7, <2>1, <2>2
    DEF ArchiveProject, FailJobsOf, CloseAttemptsOf, JobTypeOK
  <2>4. QED
    BY <1>0, <2>1, <2>3 DEF JobTypeOK, JobRows, AttemptRows
<1>8. ASSUME NEW p \in Projects, RestoreProject(p)
      PROVE  JobTypeOK'
  BY <1>0, <1>8 DEF JobTypeOK, RestoreProject, Created
<1>9. CASE Tick
  <2>1. \A j \in JobIds :
          (IF attempt[j].lease > 0 THEN attempt[j].lease - 1 ELSE 0)
              \in 0 .. Lease
    BY <1>0, CrawlAssumption DEF JobTypeOK
  <2>2. QED
    BY <1>0, <1>9, <2>1 DEF JobTypeOK, Tick, Created
<1>10. QED
  BY <1>1, <1>2, <1>3, <1>4, <1>5, <1>6, <1>7, <1>8, <1>9 DEF Next

-----------------------------------------------------------------------------
LEMMA AttemptStep == JobInv /\ [Next]_vars => AttemptMatchesJob'
<1> SUFFICES ASSUME JobInv, [Next]_vars, NEW j \in JobIds
             PROVE  /\ job'[j].state \in {"none", "queued"}
                          => attempt'[j].by = Nobody
                    /\ job'[j].state = "running"
                          <=> attempt'[j].by # Nobody /\ ~attempt'[j].completed
  BY DEF AttemptMatchesJob
<1>0. /\ JobTypeOK
      /\ job[j].state \in {"none", "queued"} => attempt[j].by = Nobody
      /\ job[j].state = "running"
            <=> attempt[j].by # Nobody /\ ~attempt[j].completed
  BY DEF JobInv, AttemptMatchesJob
<1>1. CASE UNCHANGED <<job, attempt>>
  BY <1>0, <1>1
<1>2. ASSUME NEW i \in JobIds, NEW p \in Projects, CreateJob(i, p)
      PROVE  \/ job'[j].state = "queued" /\ attempt'[j].by = Nobody
             \/ job'[j] = job[j] /\ attempt'[j] = attempt[j]
  BY <1>0, <1>2, JobTypes DEF CreateJob, NewJob, Created, JobTypeOK
<1>3. ASSUME NEW c \in Crawls, Claim(c)
      PROVE  \/ job'[j] = job[j] /\ attempt'[j] = attempt[j]
             \/ job'[j].state = "running" /\ attempt'[j].by = c
                   /\ ~attempt'[j].completed
  BY <1>0, <1>3 DEF Claim, JobTypeOK
<1>4. ASSUME NEW c \in Crawls, Report(c)
      PROVE  \/ job'[j] = job[j] /\ attempt'[j] = attempt[j]
             \/ job'[j].state \in {"succeeded", "failed"}
                   /\ attempt'[j].completed
  <2>1. CASE ~Current(crawl[c], c)
    BY <1>4, <2>1 DEF Report
  <2>2. ASSUME Current(crawl[c], c), NEW state \in {"succeeded", "failed"},
               NEW error, Record(crawl[c], state, error)
        PROVE  \/ job'[j] = job[j] /\ attempt'[j] = attempt[j]
               \/ job'[j].state \in {"succeeded", "failed"}
                     /\ attempt'[j].completed
    <3>1. crawl[c] \in JobIds
      BY <1>0, <1>4 DEF Report, JobTypeOK
    <3>2. job[crawl[c]].state = "running"
      BY <2>2, <3>1, RecordedJob
    <3>3. QED
      BY <1>0, <2>2, <3>1, <3>2 DEF Record, JobTypeOK
  <2>3. QED
    BY <1>4, <2>1, <2>2 DEF Report
<1>5. ASSUME NEW p \in Projects, ArchiveProject(p)
      PROVE  /\ job'[j].state \in {"none", "queued"}
                   => attempt'[j].by = Nobody
             /\ job'[j].state = "running"
                   <=> attempt'[j].by # Nobody /\ ~attempt'[j].completed
  <2>1. CASE Active(j) /\ job[j].project = p
    BY <1>0, <1>5, <2>1
    DEF ArchiveProject, FailJobsOf, CloseAttemptsOf, JobTypeOK, Active
  <2>2. CASE ~(Active(j) /\ job[j].project = p)
    <3>1. job'[j] = job[j]
      BY <1>5, <2>2 DEF ArchiveProject, FailJobsOf
    <3>2. CASE job[j].state = "failed"
      BY <1>0, <1>5, <3>1, <3>2 DEF ArchiveProject, CloseAttemptsOf, JobTypeOK
    <3>3. CASE job[j].state # "failed"
      <4>1. job[j].error # "archived"
        BY <1>0, <3>3 DEF JobTypeOK
      <4>2. attempt'[j] = attempt[j]
        BY <1>5, <3>1, <4>1 DEF ArchiveProject, CloseAttemptsOf
      <4>3. QED
        BY <1>0, <3>1, <4>2
    <3>4. QED
      BY <3>2, <3>3
  <2>3. QED
    BY <2>1, <2>2
<1>6. CASE Tick
  BY <1>0, <1>6 DEF Tick, JobTypeOK
<1>7. QED
  <2>1. CASE UNCHANGED vars \/ Crash \/ \E c \in Crawls : Raise(c)
    BY <1>1, <2>1 DEF vars, Crash, Raise
  <2>2. CASE \E p \in Projects : RestoreProject(p)
    BY <1>1, <2>2 DEF RestoreProject
  <2>3. CASE \E i \in JobIds, p \in Projects : CreateJob(i, p)
    BY <1>0, <1>2, <2>3
  <2>4. CASE \E c \in Crawls : Claim(c)
    BY <1>0, <1>3, <2>4, CrawlAssumption
  <2>5. CASE \E c \in Crawls : Report(c)
    BY <1>0, <1>4, <2>5
  <2>6. QED
    BY <1>5, <1>6, <2>1, <2>2, <2>3, <2>4, <2>5 DEF Next

-----------------------------------------------------------------------------
(***************************************************************************)
(* Which jobs become active, and for which project they are: only a new    *)
(* job does, and no job ever changes its project once it exists.           *)
(***************************************************************************)
LEMMA ActiveStep ==
    ASSUME JobInv, [Next]_vars, NEW j \in JobIds, j \in ActiveJobs'
    PROVE  \/ j \in ActiveJobs /\ job'[j].project = job[j].project
           \/ \E p \in Projects : CreateJob(j, p) /\ job'[j].project = p
<1>0. JobTypeOK
  BY DEF JobInv
<1> DEFINE Same == j \in ActiveJobs /\ job'[j].project = job[j].project
<1>1. CASE job' = job
  BY <1>1 DEF ActiveJobs, Active
<1>2. ASSUME NEW i \in JobIds, NEW p \in Projects, CreateJob(i, p)
      PROVE  Same \/ (i = j /\ job'[j].project = p)
  BY <1>0, <1>2 DEF CreateJob, NewJob, JobTypeOK, ActiveJobs, Active
<1>3. ASSUME NEW c \in Crawls, Claim(c)
      PROVE  Same
  BY <1>0, <1>3 DEF Claim, Claimable, JobTypeOK, ActiveJobs, Active
<1>4. ASSUME NEW c \in Crawls, Report(c)
      PROVE  Same
  <2>1. CASE UNCHANGED job
    BY <2>1 DEF ActiveJobs, Active
  <2>2. ASSUME NEW state \in {"succeeded", "failed"}, NEW error,
               crawl[c] \in JobIds,
               job' = [job EXCEPT ![crawl[c]].state = state,
                                  ![crawl[c]].error = error]
        PROVE  Same
    BY <1>0, <2>2 DEF JobTypeOK, ActiveJobs, Active
  <2>3. crawl[c] \in JobIds
    BY <1>0, <1>4 DEF Report, JobTypeOK
  <2>4. QED
    BY <1>4, <2>1, <2>2, <2>3 DEF Report, Record
<1>5. ASSUME NEW p \in Projects, ArchiveProject(p)
      PROVE  Same
  BY <1>0, <1>5 DEF ArchiveProject, FailJobsOf, JobTypeOK, ActiveJobs, Active
<1>6. CASE UNCHANGED vars \/ Crash \/ Tick
           \/ (\E c \in Crawls : Raise(c))
           \/ (\E p \in Projects : RestoreProject(p))
  BY <1>1, <1>6 DEF vars, Crash, Tick, Raise, RestoreProject
<1>7. QED
  BY <1>2, <1>3, <1>4, <1>5, <1>6 DEF Next

LEMMA LiveProjectStep == JobInv /\ [Next]_vars => ActiveJobHasLiveProject'
<1> SUFFICES ASSUME JobInv, [Next]_vars, NEW j \in ActiveJobs'
             PROVE  job'[j].project \notin archived'
  BY DEF ActiveJobHasLiveProject
<1>0. j \in JobIds
  BY DEF ActiveJobs
<1>1. ASSUME NEW p \in Projects, CreateJob(j, p), job'[j].project = p
      PROVE  job'[j].project \notin archived'
  BY <1>1 DEF CreateJob
<1>2. ASSUME j \in ActiveJobs, job'[j].project = job[j].project
      PROVE  job'[j].project \notin archived'
  <2>1. job[j].project \notin archived
    BY <1>2 DEF JobInv, ActiveJobHasLiveProject
  <2>2. ASSUME NEW p \in Projects, ArchiveProject(p)
        PROVE  job'[j].project \notin archived'
    <3>0. JobTypeOK
      BY DEF JobInv
    <3>1. job[j].project # p
      BY <1>0, <1>2, <2>2, <3>0
      DEF ArchiveProject, FailJobsOf, ActiveJobs, Active, JobTypeOK
    <3>2. QED
      BY <1>2, <2>1, <2>2, <3>1 DEF ArchiveProject
  <2>3. ASSUME NEW p \in Projects, RestoreProject(p)
        PROVE  job'[j].project \notin archived'
    BY <1>2, <2>1, <2>3 DEF RestoreProject
  <2>4. CASE UNCHANGED archived
    BY <1>2, <2>1, <2>4
  <2>5. QED
    BY <2>2, <2>3, <2>4
    DEF Next, vars, CreateJob, Claim, Report, Raise, Crash, Tick
<1>3. QED
  BY <1>0, <1>1, <1>2, ActiveStep

-----------------------------------------------------------------------------
(***************************************************************************)
(* The inductive invariant: types, attempts and jobs agree, and no job of  *)
(* an archived project is active.                                          *)
(***************************************************************************)
THEOREM JobsStayConsistent == Spec => []JobInv
<1>1. JobInv /\ [Next]_vars => JobInv'
  BY TypeStep, AttemptStep, LiveProjectStep DEF JobInv
<1>2. QED
  BY InitJobInv, <1>1, PTL DEF Spec

\* Types hold, and a job has an error code just if it failed.
THEOREM JobTypesHold == Spec => []JobTypeOK
<1>1. JobInv => JobTypeOK
  BY DEF JobInv
<1>2. QED
  BY JobsStayConsistent, <1>1, PTL

\* No job of an archived project waits or runs (create_job, archive_project).
THEOREM ArchivedProjectsAreIdle == Spec => []ActiveJobHasLiveProject
<1>1. JobInv => ActiveJobHasLiveProject
  BY DEF JobInv
<1>2. QED
  BY JobsStayConsistent, <1>1, PTL

\* A report that complete_job or fail_job accepts is never lost.
THEOREM AcceptedReportsEndJobs == Spec => AcceptedReportEndsJob
<1>1. ASSUME JobInv, NEW j \in JobIds, NEW c \in Crawls,
             crawl[c] = j, Current(j, c), Report(c)
      PROVE  ~Ended(j) /\ Ended(j)'
  <2>1. job[j].state = "running"
    BY <1>1, RecordedJob
  <2>2. PICK state \in {"succeeded", "failed"},
              error \in {"none", "crawl"} : Record(j, state, error)
    BY <1>1 DEF Report
  <2>3. job'[j].state = state
    BY <1>1, <2>1, <2>2 DEF Record, JobInv, JobTypeOK
  <2>4. QED
    BY <2>1, <2>3 DEF Ended
<1>2. JobInv /\ [Next]_vars =>
        [\A j \in JobIds, c \in Crawls :
            crawl[c] = j /\ Current(j, c) /\ Report(c)
                => ~Ended(j) /\ Ended(j)']_vars
  BY <1>1
<1>3. QED
  BY JobsStayConsistent, <1>2, PTL DEF Spec, AcceptedReportEndsJob

\* A job that ended never changes again.
THEOREM EndedJobsStay == Spec => EndedJobIsFinal
<1>1. ASSUME JobInv, [Next]_vars, NEW j \in JobIds, Ended(j)
      PROVE  job'[j] = job[j]
  <2>0. JobTypeOK
    BY <1>1 DEF JobInv
  <2>1. ASSUME NEW i \in JobIds, NEW p \in Projects, CreateJob(i, p)
        PROVE  job'[j] = job[j]
    BY <1>1, <2>0, <2>1 DEF CreateJob, Created, Ended, JobTypeOK
  <2>2. ASSUME NEW c \in Crawls, Claim(c)
        PROVE  job'[j] = job[j]
    BY <1>1, <2>0, <2>2 DEF Claim, Claimable, Ended, JobTypeOK
  <2>3. ASSUME NEW c \in Crawls, Report(c)
        PROVE  job'[j] = job[j]
    BY <1>1, <2>0, <2>3 DEF Report, Record, Ended, JobTypeOK
  <2>4. ASSUME NEW p \in Projects, ArchiveProject(p)
        PROVE  job'[j] = job[j]
    BY <1>1, <2>4 DEF ArchiveProject, FailJobsOf, Active, Ended
  <2>5. CASE job' = job
    BY <2>5
  <2>6. QED
    BY <1>1, <2>1, <2>2, <2>3, <2>4, <2>5
    DEF Next, vars, Raise, Crash, RestoreProject, Tick
<1>2. JobInv /\ [Next]_vars =>
        [\A j \in JobIds : Ended(j) => job'[j] = job[j]]_vars
  BY <1>1
<1>3. QED
  BY JobsStayConsistent, <1>2, PTL DEF Spec, EndedJobIsFinal

-----------------------------------------------------------------------------
(***************************************************************************)
(* What an owner sees of the jobs.                                         *)
(***************************************************************************)
orders == [j \in JobIds |-> OrderOf(j)]

\* It is told by the job, and open just while the job is active.
LEMMA OrderIs ==
    ASSUME JobTypeOK, NEW j \in JobIds
    PROVE  /\ orders[j] = OrderOf(j)
           /\ \A p \in Projects : orders[j] = [status |-> "open", site |-> p]
                  <=> Active(j) /\ job[j].project = p
           /\ ~Created(j) => orders[j] = [status |-> "none"]
<1>1. orders[j] = OrderOf(j)
  BY DEF orders
<1>2. Active(j) => Created(j)
  BY DEF Active, Created
<1>3. OutcomeOf(job[j].error) # "open"
  BY JobTypes DEF OutcomeOf
<1>4. ASSUME NEW p \in Projects
      PROVE  OrderOf(j) = [status |-> "open", site |-> p]
                <=> Active(j) /\ job[j].project = p
  <2>1. CASE Active(j)
    BY <1>2, <2>1 DEF OrderOf
  <2>2. CASE ~Active(j) /\ Created(j)
    BY <1>3, <2>2 DEF OrderOf
  <2>3. CASE ~Created(j)
    <3>1. OrderOf(j) = [status |-> "none"] /\ ~Active(j)
      BY <1>2, <2>3 DEF OrderOf
    <3>2. [status |-> "none"] # [status |-> "open", site |-> p]
      OBVIOUS
    <3>3. QED
      BY <3>1, <3>2
  <2>4. QED
    BY <2>1, <2>2, <2>3
<1>5. QED
  BY <1>1, <1>4 DEF OrderOf

LEMMA OrderSame ==
    ASSUME NEW j \in JobIds, job'[j] = job[j]
    PROVE  orders'[j] = orders[j]
BY DEF orders, OrderOf, OutcomeOf, Created, Active

LEMMA OrdersInit == Init => Desk!OrdersInit
<1> SUFFICES ASSUME Init PROVE Desk!OrdersInit
  OBVIOUS
<1>1. \A j \in JobIds : OrderOf(j) = [status |-> "none"]
  BY DEF Init, OrderOf, Created
<1>2. QED
  BY <1>1 DEF Init, Desk!OrdersInit, Desk!NoOrder

\* Only one order of a project is placed, settled or withdrawn in a step.
LEMMA OrdersStep == JobInv /\ JobInv' /\ [Next]_vars => [Desk!OrdersNext]_(Desk!orderVars)
<1> SUFFICES ASSUME JobInv, JobInv', [Next]_vars
             PROVE  \/ Desk!OrdersNext
                    \/ orders' = orders /\ archived' = archived
  BY DEF Desk!orderVars, orders
<1>0. JobTypeOK /\ JobTypeOK'
  BY DEF JobInv
<1>1. ASSUME \A j \in JobIds : orders'[j] = orders[j]
      PROVE  orders' = orders
  BY <1>1 DEF orders
<1>2. CASE job' = job /\ archived' = archived
  BY <1>1, <1>2, OrderSame
<1>3. ASSUME NEW j \in JobIds, NEW p \in Projects, CreateJob(j, p)
      PROVE  Desk!OrdersNext
  <2>1. orders[j] = [status |-> "none"]
    BY <1>0, <1>3, OrderIs DEF CreateJob
  <2>2. \A i \in JobIds : orders[i] # [status |-> "open", site |-> p]
    BY <1>0, <1>3, OrderIs DEF CreateJob, ActiveJobs
  <2>3. orders' = [orders EXCEPT ![j] = [status |-> "open", site |-> p]]
    <3>1. \A i \in JobIds \ {j} : orders'[i] = orders[i]
      BY <1>0, <1>3, OrderSame DEF CreateJob, JobTypeOK
    <3>2. job'[j] = NewJob(p)
      BY <1>0, <1>3 DEF CreateJob, JobTypeOK
    <3>3. orders'[j] = [status |-> "open", site |-> p]
      BY <3>2 DEF orders, OrderOf, Created, Active, NewJob
    <3>4. QED
      BY <3>1, <3>3 DEF orders
  <2>4. Desk!Place(j, p)
    BY <1>3, <2>1, <2>2, <2>3
    DEF CreateJob, Desk!Place, Desk!IsOpen, Desk!OrderOf, Desk!NoOrder, orders
  <2>5. QED
    BY <2>4 DEF Desk!OrdersNext
<1>4. ASSUME NEW c \in Crawls, Claim(c)
      PROVE  orders' = orders /\ archived' = archived
  <2>1. PICK j \in JobIds : /\ Claimable(j)
                            /\ job' = [job EXCEPT ![j].state = "running"]
                            /\ archived' = archived
    BY <1>4 DEF Claim
  <2>2. \A i \in JobIds \ {j} : orders'[i] = orders[i]
    BY <1>0, <2>1, OrderSame DEF JobTypeOK
  <2>3. /\ job'[j].state = "running" /\ job'[j].project = job[j].project
        /\ Active(j)
    BY <1>0, <2>1 DEF JobTypeOK, Claimable, Active
  <2>4. orders'[j] = orders[j]
    BY <2>3 DEF orders, OrderOf, Created, Active
  <2>5. QED
    BY <1>1, <2>1, <2>2, <2>4
<1>5. ASSUME NEW c \in Crawls, Report(c)
      PROVE  Desk!OrdersNext \/ (job' = job /\ archived' = archived)
  <2>1. crawl[c] \in JobIds /\ archived' = archived
    BY <1>0, <1>5 DEF Report, JobTypeOK
  <2>2. ASSUME Current(crawl[c], c), NEW state \in {"succeeded", "failed"},
               NEW error \in {"none", "crawl"},
               state = "failed" <=> error # "none",
               Record(crawl[c], state, error)
        PROVE  Desk!OrdersNext
    <3> DEFINE j == crawl[c]
               p == job[j].project
    <3>1. job[j].state = "running"
      BY <2>1, <2>2, RecordedJob
    <3>2. Active(j) /\ p \in Projects /\ j \in JobIds
      BY <1>0, <2>1, <3>1 DEF JobTypeOK, Active, Created
    <3>3. /\ \A i \in JobIds \ {j} : job'[i] = job[i]
          /\ job'[j].state = state /\ job'[j].error = error
          /\ job'[j].project = p
      BY <1>0, <2>2, <3>1, <3>2 DEF Record, JobTypeOK
    <3> DEFINE status == IF error = "none" THEN "delivered" ELSE "refused"
    <3>4. orders'[j] = [status |-> status, site |-> p]
      BY <2>2, <3>2, <3>3 DEF orders, OrderOf, OutcomeOf, Created, Active
    <3>5. orders' = [orders EXCEPT ![j] = [status |-> status, site |-> p]]
      <4>1. \A i \in JobIds \ {j} : orders'[i] = orders[i]
        BY <3>3, OrderSame
      <4>2. QED
        BY <3>2, <3>4, <4>1 DEF orders
    <3>6. orders[j] = [status |-> "open", site |-> p]
      BY <1>0, <3>2, OrderIs
    <3>7. Desk!Settle(j, p, status)
      BY <2>1, <3>5, <3>6
      DEF Desk!Settle, Desk!IsOpen, Desk!OrderOf, orders
    <3>8. QED
      BY <3>2, <3>7 DEF Desk!OrdersNext
  <2>3. QED
    BY <1>5, <2>1, <2>2 DEF Report
<1>6. ASSUME NEW p \in Projects, ArchiveProject(p)
      PROVE  Desk!OrdersNext
  <2>1. ASSUME NEW j \in JobIds
        PROVE  orders'[j] = IF orders[j] = [status |-> "open", site |-> p]
                            THEN [status |-> "withdrawn", site |-> p]
                            ELSE orders[j]
    <3>1. CASE Active(j) /\ job[j].project = p
      <4>1. /\ job'[j].state = "failed" /\ job'[j].error = "archived"
            /\ job'[j].project = p
        <5>1. job[j] \in JobRows
          BY <1>0 DEF JobTypeOK, JobRows
        <5>2. job'[j] = [job[j] EXCEPT !.state = "failed", !.error = "archived"]
          BY <1>6, <3>1 DEF ArchiveProject, FailJobsOf
        <5>3. QED
          BY <3>1, <5>1, <5>2 DEF JobRows
      <4>2. orders'[j] = [status |-> "withdrawn", site |-> p]
        BY <4>1 DEF orders, OrderOf, OutcomeOf, Created, Active
      <4>3. QED
        BY <1>0, <3>1, <4>2, OrderIs
    <3>2. CASE ~(Active(j) /\ job[j].project = p)
      <4>1. job'[j] = job[j]
        BY <1>6, <3>2 DEF ArchiveProject, FailJobsOf
      <4>2. orders'[j] = orders[j]
        BY <4>1, OrderSame
      <4>3. QED
        BY <1>0, <3>2, <4>2, OrderIs
    <3>3. QED
      BY <3>1, <3>2
  <2>2. Desk!Close(p)
    BY <1>6, <2>1
    DEF ArchiveProject, Desk!Close, Desk!IsOpen, Desk!OrderOf, orders
  <2>3. QED
    BY <2>2 DEF Desk!OrdersNext
<1>7. ASSUME NEW p \in Projects, RestoreProject(p)
      PROVE  Desk!OrdersNext
  <2>1. orders' = orders
    BY <1>1, <1>7, OrderSame DEF RestoreProject
  <2>2. Desk!OpenAgain(p)
    BY <1>7, <2>1 DEF RestoreProject, Desk!OpenAgain, orders
  <2>3. QED
    BY <2>2 DEF Desk!OrdersNext
<1>8. QED
  BY <1>2, <1>3, <1>4, <1>5, <1>6, <1>7 DEF Next, vars, Raise, Crash, Tick

\* Leases, retries, crashes and late reports of the crawl queue are hidden from
\* the owner of a project, who sees what AuditOrders promises (create_job to
\* fail_job, archive_project and restore_project).
THEOREM QueueImplementsOrders == Spec => ImplementsOrders
<1>1. Init => Desk!OrdersInit
  BY OrdersInit
<1>2. JobInv /\ JobInv' /\ [Next]_vars => [Desk!OrdersNext]_(Desk!orderVars)
  BY OrdersStep
<1>3. QED
  BY <1>1, <1>2, JobsStayConsistent, PTL DEF Spec, ImplementsOrders, Desk!OrdersSpec

-----------------------------------------------------------------------------
LEMMA ActiveFinite ==
    ASSUME NEW u
    PROVE  /\ IsFiniteSet(ActiveJobs) /\ IsFiniteSet(ActiveOf(u))
           /\ Cardinality(ActiveJobs) \in Nat
           /\ Cardinality(ActiveOf(u)) \in Nat
<1>1. IsFiniteSet(JobIds)
  BY FS_Interval, CrawlAssumption DEF JobIds
<1>2. ActiveJobs \in SUBSET JobIds /\ ActiveOf(u) \in SUBSET JobIds
  BY DEF ActiveJobs, ActiveOf
<1>3. QED
  BY <1>1, <1>2, FS_Subset, FS_CardinalityType

\* A set within a limit stays so if it loses elements, or gains one below it.
LEMMA WithinLimit ==
    ASSUME NEW S, NEW T, NEW x, NEW n \in Nat, IsFiniteSet(S),
           \/ T \subseteq S /\ Cardinality(S) <= n
           \/ T \subseteq S \cup {x} /\ Cardinality(S) < n
    PROVE  Cardinality(T) <= n
<1>1. CASE T \subseteq S /\ Cardinality(S) <= n
  BY <1>1, FS_Subset, FS_CardinalityType
<1>2. CASE T \subseteq S \cup {x} /\ Cardinality(S) < n
  <2>1. /\ IsFiniteSet(S \cup {x})
        /\ Cardinality(S \cup {x}) <= Cardinality(S) + 1
        /\ Cardinality(S) \in Nat
        /\ Cardinality(S \cup {x}) \in Nat
    BY FS_AddElement, FS_CardinalityType
  <2>2. Cardinality(T) <= Cardinality(S \cup {x}) /\ Cardinality(T) \in Nat
    BY <1>2, <2>1, FS_Subset, FS_CardinalityType
  <2>3. QED
    BY <1>2, <2>1, <2>2
<1>3. QED
  BY <1>1, <1>2

LEMMA LimitsInit == Init => ActiveJobsWithinLimits
<1> SUFFICES ASSUME Init
             PROVE  ActiveJobsWithinLimits
  OBVIOUS
<1>1. ActiveJobs = {} /\ \A u \in Users : ActiveOf(u) = {}
  BY DEF Init, ActiveJobs, ActiveOf, Active
<1>2. QED
  BY <1>1, FS_EmptySet, CrawlAssumption DEF ActiveJobsWithinLimits

LEMMA LimitsStep ==
    JobInv /\ ActiveJobsWithinLimits /\ [Next]_vars
        => ActiveJobsWithinLimits'
<1> SUFFICES ASSUME JobInv, ActiveJobsWithinLimits, [Next]_vars
             PROVE  ActiveJobsWithinLimits'
  OBVIOUS
<1>0. JobTypeOK
  BY DEF JobInv
<1>1. ASSUME NEW i \in JobIds, NEW p \in Projects, CreateJob(i, p)
      PROVE  ActiveJobsWithinLimits'
  <2>1. /\ i \notin ActiveJobs
        /\ job'[i].project = p
        /\ \A j \in ActiveJobs : job[j].project # p
        /\ \A j \in JobIds : j # i => job'[j] = job[j]
    BY <1>0, <1>1
    DEF CreateJob, NewJob, Created, ActiveJobs, Active, JobTypeOK
  <2>2. ActiveJobs' \subseteq ActiveJobs \cup {i}
    BY <2>1 DEF ActiveJobs, Active
  <2>3. \A u \in Users :
          ActiveOf(u)' \subseteq ActiveOf(u) \cup
              (IF u = Owner[p] THEN {i} ELSE {})
    BY <2>1, <2>2 DEF ActiveOf, ActiveJobs
  <2>4. /\ Cardinality(ActiveJobs) < GlobalLimit
        /\ Cardinality(ActiveOf(Owner[p])) < UserLimit
    BY <1>1 DEF CreateJob, HasRoom
  <2>5. Cardinality(ActiveJobs') <= GlobalLimit
    BY <2>2, <2>4, ActiveFinite, WithinLimit, CrawlAssumption
  <2>6. ASSUME NEW u \in Users
        PROVE  Cardinality(ActiveOf(u)') <= UserLimit
    <3>1. CASE u = Owner[p]
      <4>1. ActiveOf(u)' \subseteq ActiveOf(u) \cup {i}
        BY <2>3, <3>1
      <4>2. QED
        BY <2>4, <3>1, <4>1, ActiveFinite, WithinLimit, CrawlAssumption
    <3>2. CASE u # Owner[p]
      <4>1. ActiveOf(u)' \subseteq ActiveOf(u)
        BY <2>3, <3>2
      <4>2. Cardinality(ActiveOf(u)) <= UserLimit
        BY DEF ActiveJobsWithinLimits
      <4>3. QED
        BY <4>1, <4>2, ActiveFinite, WithinLimit, CrawlAssumption
    <3>3. QED
      BY <3>1, <3>2
  <2>7. ASSUME NEW j \in ActiveJobs', NEW k \in ActiveJobs',
               job'[j].project = job'[k].project
        PROVE  j = k
    BY <2>1, <2>2, <2>7 DEF ActiveJobs, ActiveJobsWithinLimits
  <2>8. QED
    BY <2>5, <2>6, <2>7 DEF ActiveJobsWithinLimits
<1>2. ASSUME ~\E i \in JobIds, p \in Projects : CreateJob(i, p)
      PROVE  ActiveJobsWithinLimits'
  <2>1. \A j \in ActiveJobs' :
          j \in ActiveJobs /\ job'[j].project = job[j].project
    <3>1. ActiveJobs' \subseteq JobIds
      BY DEF ActiveJobs
    <3>2. QED
      BY <1>2, <3>1, ActiveStep
  <2>2. ActiveJobs' \subseteq ActiveJobs
    BY <2>1
  <2>3. \A u \in Users : ActiveOf(u)' \subseteq ActiveOf(u)
    BY <2>1 DEF ActiveOf
  <2>4. Cardinality(ActiveJobs') <= GlobalLimit
    BY <2>2, ActiveFinite, WithinLimit, CrawlAssumption
    DEF ActiveJobsWithinLimits
  <2>5. ASSUME NEW u \in Users
        PROVE  Cardinality(ActiveOf(u)') <= UserLimit
    BY <2>3, ActiveFinite, WithinLimit, CrawlAssumption
    DEF ActiveJobsWithinLimits
  <2>6. \A j, k \in ActiveJobs' :
          job'[j].project = job'[k].project => j = k
    BY <2>1 DEF ActiveJobsWithinLimits
  <2>7. QED
    BY <2>4, <2>5, <2>6 DEF ActiveJobsWithinLimits
<1>3. QED
  BY <1>1, <1>2

\* One active job per project, and the limits of create_job, always hold.
THEOREM JobsStayWithinLimits == Spec => []ActiveJobsWithinLimits
BY LimitsInit, LimitsStep, JobsStayConsistent, PTL DEF Spec
=============================================================================
