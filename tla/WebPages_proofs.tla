--------------------------- MODULE WebPages_proofs ---------------------------
(***************************************************************************)
(* Theorems about the pages of the web application, each as a behaviour of *)
(* its own and in the end all of them put together: for any number of      *)
(* workers, audits, crawl jobs, loads, picked files, requests and runs of  *)
(* a visit.                                                                *)
(***************************************************************************)
EXTENDS WebPages, ToolRequests_proofs

-----------------------------------------------------------------------------
(***************************************************************************)
(* The preview workers.                                                    *)
(***************************************************************************)

\* While a run goes on, its worker is the one the explained expression and the
\* request were made for.  A tool that is left has no run.
RunNamesWorker ==
    /\ running => parsed = workerRef /\ requestId = workerRef
    /\ lab = "none" => ~running

PreviewInv == PreviewTypeOK /\ NoOrphanWorker /\ RunNamesWorker

\* A worker that ends in time is never taken for an earlier one: every result
\* that arrives is used, though only the cron tool compares request numbers.
EveryResultTaken == \A w \in computing : TakesResult(w)

LEMMA PreviewInitInv == PreviewInit => PreviewInv
<1> USE PreviewAssumption DEF PreviewInit
<1>0. PreviewInit => running \in BOOLEAN
  OBVIOUS
<1>1. PreviewInit => PreviewTypeOK
  BY <1>0 DEF PreviewTypeOK
<1>2. PreviewInit => NoOrphanWorker
  BY DEF NoOrphanWorker
<1>3. PreviewInit => RunNamesWorker
  BY DEF RunNamesWorker
<1>4. QED
  BY <1>1, <1>2, <1>3 DEF PreviewInv

LEMMA RunningIsBoolean ==
    PreviewInv /\ [PreviewNext]_previewVars => running' \in BOOLEAN
BY ZenonT(60)
DEF PreviewInv, PreviewTypeOK, PreviewNext, previewVars, OpenLab, CloseLab, Run,
    RunRefused, Reset, WorkerReady, WorkerResult, WorkerError, TimerEnds

LEMMA PreviewStepInv == PreviewInv /\ [PreviewNext]_previewVars => PreviewInv'
<1> SUFFICES ASSUME PreviewInv, [PreviewNext]_previewVars
             PROVE  PreviewInv'
  OBVIOUS
<1>0. running' \in BOOLEAN
  BY RunningIsBoolean
<1> USE <1>0, PreviewAssumption
    DEF PreviewInv, PreviewTypeOK, NoOrphanWorker, RunNamesWorker
<1>1. CASE OpenLab
  BY <1>1 DEF OpenLab
<1>2. CASE CloseLab
  BY <1>2 DEF CloseLab, Cleanup, Terminate
<1>3. CASE Run
  BY <1>3 DEF Run
<1>4. CASE RunRefused
  BY <1>4 DEF RunRefused, Cleanup, Terminate
<1>5. CASE Reset
  BY <1>5 DEF Reset, Cleanup, Terminate
<1>6. ASSUME NEW w \in workers, WorkerReady(w)
      PROVE  PreviewInv'
  BY <1>6 DEF WorkerReady
<1>7. ASSUME NEW w \in workers, WorkerResult(w)
      PROVE  PreviewInv'
  <2>1. w \in computing /\ w = workerRef /\ w = parsed /\ TakesResult(w)
    BY <1>7 DEF WorkerResult, TakesResult
  <2>2. /\ occurrences' \in {w, 0}
        /\ running' = FALSE
        /\ Cleanup
        /\ UNCHANGED <<lab, made, requestId, parsed>>
    BY <1>7, <2>1 DEF WorkerResult
  <2>3. /\ workers' = {} /\ computing' = {}
        /\ workerRef' = 0 /\ timerRef' = "none"
    BY <2>1, <2>2 DEF Cleanup, Terminate
  <2>4. occurrences' \in 0 .. MaxPreviews /\ parsed' = parsed
        /\ (occurrences' # 0 => occurrences' = parsed)
    BY <2>1, <2>2
  <2>5. QED
    BY <2>2, <2>3, <2>4
<1>8. ASSUME NEW w \in workers, WorkerError(w)
      PROVE  PreviewInv'
  BY <1>8 DEF WorkerError, Cleanup, Terminate
<1>9. CASE TimerEnds
  BY <1>9 DEF TimerEnds, Cleanup, Terminate
<1>10. CASE UNCHANGED previewVars
  BY <1>10 DEF previewVars
<1>11. QED
  BY <1>1, <1>2, <1>3, <1>4, <1>5, <1>6, <1>7, <1>8, <1>9, <1>10 DEF PreviewNext

\* The regex lab and the cron preview never leave a worker computing: it is
\* the one the tool holds while a run goes on, under a timer, and none else.
THEOREM PreviewsLeaveNoOrphan == PreviewSpec => [](PreviewTypeOK /\ NoOrphanWorker)
<1>1. PreviewInv => PreviewTypeOK /\ NoOrphanWorker
  BY DEF PreviewInv
<1>2. QED
  BY PreviewInitInv, PreviewStepInv, <1>1, PTL DEF PreviewSpec

\* The comparison of request numbers in the cron preview never fails, and the
\* regex lab does not miss it: a worker that was replaced sends nothing more.
THEOREM PreviewResultsAreTaken == PreviewSpec => []EveryResultTaken
<1>1. PreviewInv => EveryResultTaken
  BY DEF PreviewInv, PreviewTypeOK, NoOrphanWorker, RunNamesWorker,
         EveryResultTaken, TakesResult
<1>2. QED
  BY PreviewInitInv, PreviewStepInv, <1>1, PTL DEF PreviewSpec

-----------------------------------------------------------------------------
(***************************************************************************)
(* The page of a project: its audits, and its crawl jobs.                  *)
(***************************************************************************)

\* The effect always waits for the PageSpeed of the audit shown first; before
\* the page is ready there is none, and no audit can be asked for.
SpeedFollowsLatest ==
    /\ speedWanted = latestAudit
    /\ detail # "ready" =>
         pageSpeed = 0 /\ latestAudit = 0 /\ auditRequest = NoRequest

AuditInv ==
    /\ detail \in {"closed", "loading", "failed", "ready"}
    /\ latestAudit \in 0 .. MaxAudits
    /\ pageSpeed \in 0 .. MaxAudits
    /\ speedRequests \subseteq Audits
    /\ auditRequest \in {NoRequest, Asked} \cup [at : {"answered"}, is : Audits]
    /\ audits \in 0 .. MaxAudits
    /\ SpeedFollowsLatest
    /\ PageSpeedOfLatestAudit

\* Jobs are made one after the other, and what the page knows of is one that
\* was made.
JobsAreMade ==
    /\ \E n \in 0 .. MaxJobs : \A j \in Jobs : j <= n <=> crawls[j] # "none"
    /\ crawlShown = NoJob \/ crawls[crawlShown.job] # "none"
    /\ mount.at = "answered" => crawls[mount.is] # "none"
    /\ startRequest.at = "answered" => crawls[startRequest.is] # "none"
    /\ \A q \in polls : crawls[q.job] # "none"

\* A crawl that is shown as queued or running is followed: the next poll is
\* set or one is under way, or the page says that it went wrong.
ShownCrawlIsFollowed ==
    crawlShown.state \in Following => pollTimer \/ polls # {} \/ crawlError

CrawlTypeOK ==
    /\ crawlShown \in [job : Jobs, state : JobStates] \cup {NoJob}
    /\ mount \in {NoRequest, Asked} \cup [at : {"answered"}, is : Jobs]
    /\ startRequest \in {NoRequest, Asked, [at |-> "refused", is |-> 0]}
                         \cup [at : {"answered"}, is : Jobs]
    /\ polls \subseteq [job : Jobs, said : JobStates \cup {"nothing"}]
    /\ crawls \in [Jobs -> JobStates \cup {"none"}]

CrawlInv ==
    /\ CrawlTypeOK
    /\ crawlError \in BOOLEAN
    /\ pollTimer \in BOOLEAN
    /\ JobsAreMade
    /\ pollTimer => crawlShown.state \in Following
    /\ ShownCrawlIsFollowed

LEMMA AuditInitInv == ProjectInit => AuditInv
BY ProjectPageAssumption
DEF ProjectInit, AuditInv, SpeedFollowsLatest, PageSpeedOfLatestAudit, NoRequest

LEMMA AuditStepInv == AuditInv /\ [ProjectNext]_projectVars => AuditInv'
<1> SUFFICES ASSUME AuditInv, [ProjectNext]_projectVars
             PROVE  AuditInv'
  OBVIOUS
<1> USE ProjectPageAssumption
    DEF AuditInv, SpeedFollowsLatest, PageSpeedOfLatestAudit, auditVars, Audits,
        NoRequest, Asked
<1>1. CASE OpenProject \/ CloseProject
  BY <1>1 DEF OpenProject, CloseProject, Blank
<1>2. CASE DetailLoaded
  <2>1. PICK n \in 0 .. audits : latestAudit' = n /\ FollowSpeed(n)
    BY <1>2 DEF DetailLoaded
  <2>2. n \in 0 .. MaxAudits
    BY <2>1
  <2>3. speedWanted' = n /\ speedRequests' \subseteq Audits
    <3>1. CASE n = 0
      BY <2>1, <3>1 DEF FollowSpeed
    <3>2. CASE n # 0
      <4>1. n \in 1 .. MaxAudits
        BY <2>2, <3>2
      <4>2. speedWanted' = n /\ speedRequests' = speedRequests \cup {n}
        BY <2>1, <3>2 DEF FollowSpeed
      <4>3. QED
        BY <4>1, <4>2
    <3>3. QED
      BY <3>1, <3>2
  <2>4. QED
    BY <1>2, <2>1, <2>2, <2>3 DEF DetailLoaded
<1>3. CASE DetailFailed \/ Reload
  BY <1>3 DEF DetailFailed, Reload
<1>4. ASSUME NEW a \in Audits, SpeedAnswered(a)
      PROVE  AuditInv'
  BY <1>4 DEF SpeedAnswered, Listens
<1>5. CASE RunAudit
  BY <1>5 DEF RunAudit
<1>6. CASE ApiSaveAudit
  BY <1>6 DEF ApiSaveAudit
<1>7. CASE AuditShown
  <2>1. auditRequest.is \in Audits /\ detail = "ready"
    BY <1>7 DEF AuditShown
  <2>2. /\ speedWanted' = auditRequest.is
        /\ speedRequests' \subseteq Audits
    BY <1>7, <2>1 DEF AuditShown, FollowSpeed
  <2>3. QED
    BY <1>7, <2>1, <2>2 DEF AuditShown
<1>8. CASE AuditLost
  BY <1>8 DEF AuditLost
<1>9. CASE UNCHANGED <<detail, auditVars, audits>>
  BY <1>9
<1>10. CASE Elsewhere
  BY <1>10 DEF Elsewhere
<1>11. ASSUME ~(OpenProject \/ CloseProject), ~DetailLoaded,
              ~(DetailFailed \/ Reload), ~RunAudit, ~ApiSaveAudit, ~AuditShown,
              ~AuditLost, ~Elsewhere, \A a \in Audits : ~SpeedAnswered(a)
       PROVE  UNCHANGED <<detail, auditVars, audits>>
  BY <1>11
  DEF ProjectNext, projectVars, MountListed, MountShown, MountFailed,
      StartCrawl, ApiStartCrawl, StartAnswered, StartFailed, PollFires,
      ApiSaysCrawl, PollShown, PollFailed, JobGoesOn
<1>12. QED
  BY <1>1, <1>2, <1>3, <1>4, <1>5, <1>6, <1>7, <1>8, <1>9, <1>10, <1>11

\* What the page shows of PageSpeed is that of the audit it shows first.
THEOREM SpeedIsOfLatestAudit == ProjectSpec => []PageSpeedOfLatestAudit
<1>1. AuditInv => PageSpeedOfLatestAudit
  BY DEF AuditInv
<1>2. QED
  BY AuditInitInv, AuditStepInv, <1>1, PTL DEF ProjectSpec

-----------------------------------------------------------------------------
LEMMA LastJobIs ==
    ASSUME \E n \in 0 .. MaxJobs : \A j \in Jobs : j <= n <=> crawls[j] # "none"
    PROVE  /\ LastJob \in 0 .. MaxJobs
           /\ \A j \in Jobs : j <= LastJob <=> crawls[j] # "none"
BY DEF LastJob, Made

LEMMA CrawlBooleans ==
    CrawlInv /\ [ProjectNext]_projectVars => crawlError' \in BOOLEAN /\ pollTimer' \in BOOLEAN
<1> SUFFICES ASSUME CrawlInv, [ProjectNext]_projectVars
             PROVE  crawlError' \in BOOLEAN /\ pollTimer' \in BOOLEAN
  OBVIOUS
<1> USE DEF CrawlInv, crawlVars, projectVars, ShowCrawl, Told
<1>1. crawlError' \in BOOLEAN
  BY ZenonT(60)
  DEF ProjectNext, OpenProject, CloseProject, Blank, DetailLoaded, DetailFailed,
      Reload, RunAudit, ApiSaveAudit, AuditShown, AuditLost, MountListed,
      MountShown, MountFailed, StartCrawl, ApiStartCrawl, StartAnswered,
      StartFailed, PollFires, SpeedAnswered, ApiSaysCrawl, PollShown, PollFailed,
      Elsewhere, JobGoesOn
<1>2. \A j, c : ShowCrawl(j, c) => pollTimer' \in BOOLEAN
  <2>1. \A c : (c \in Following) \in BOOLEAN
    OBVIOUS
  <2>2. QED
    BY <2>1
<1>3. pollTimer' \in BOOLEAN
  <2> HIDE DEF ShowCrawl
  <2>1. QED
  BY <1>2, ZenonT(60)
  DEF ProjectNext, OpenProject, CloseProject, Blank, DetailLoaded, DetailFailed,
      Reload, RunAudit, ApiSaveAudit, AuditShown, AuditLost, MountListed,
      MountShown, MountFailed, StartCrawl, ApiStartCrawl, StartAnswered,
      StartFailed, PollFires, SpeedAnswered, ApiSaysCrawl, PollShown, PollFailed,
      Elsewhere, JobGoesOn
<1>4. QED
  BY <1>1, <1>3

LEMMA CrawlInitInv == ProjectInit => CrawlInv
<1> SUFFICES ASSUME ProjectInit PROVE CrawlInv
  OBVIOUS
<1> USE ProjectPageAssumption DEF ProjectInit
<1>1. crawlError \in BOOLEAN /\ pollTimer \in BOOLEAN /\ ~pollTimer
  OBVIOUS
<1>2. PICK n \in 0 .. MaxJobs :
        crawls = [j \in Jobs |-> IF j <= n THEN "succeeded" ELSE "none"]
  OBVIOUS
<1>3. crawls \in [Jobs -> JobStates \cup {"none"}]
  BY <1>2 DEF JobStates
<1>4. \A j \in Jobs : j <= n <=> crawls[j] # "none"
  BY <1>2 DEF Jobs
<1>5. CrawlTypeOK
  BY <1>3 DEF CrawlTypeOK
<1>6. JobsAreMade
  BY <1>4 DEF JobsAreMade, NoRequest
<1>7. ShownCrawlIsFollowed
  BY DEF ShownCrawlIsFollowed, NoJob, Following
<1>8. QED
  BY <1>1, <1>5, <1>6, <1>7 DEF CrawlInv

\* The parts of CrawlInv that read crawls are kept by a job that goes on and
\* by the next job that is made.
LEMMA CrawlsGrow ==
    ASSUME CrawlInv, NEW j \in Jobs, NEW s \in JobStates,
           crawls' = [crawls EXCEPT ![j] = s],
           crawls[j] # "none" \/ j = LastJob + 1,
           UNCHANGED <<crawlShown, crawlError, mount, pollTimer, polls>>,
           startRequest' \in {startRequest, [at |-> "answered", is |-> j]}
    PROVE  CrawlInv'
<1>1. crawls' \in [Jobs -> JobStates \cup {"none"}]
  BY DEF CrawlInv, CrawlTypeOK
<1>2. /\ s # "none"
      /\ \A i \in Jobs : crawls[i] # "none" => crawls'[i] # "none"
  BY DEF CrawlInv, CrawlTypeOK, JobStates
<1>3. \E n \in 0 .. MaxJobs : \A i \in Jobs : i <= n <=> crawls'[i] # "none"
  <2>1. /\ LastJob \in 0 .. MaxJobs
        /\ \A i \in Jobs : i <= LastJob <=> crawls[i] # "none"
    BY LastJobIs DEF CrawlInv, JobsAreMade
  <2>2. CASE crawls[j] # "none"
    <3>1. \A i \in Jobs : i <= LastJob <=> crawls'[i] # "none"
      BY <1>2, <2>1, <2>2 DEF CrawlInv, CrawlTypeOK
    <3>2. QED
      BY <2>1, <3>1
  <2>3. CASE j = LastJob + 1
    <3>1. \A i \in Jobs : i <= j <=> crawls'[i] # "none"
      BY <1>2, <2>1, <2>3, ProjectPageAssumption DEF CrawlInv, CrawlTypeOK, Jobs
    <3>2. j \in 0 .. MaxJobs
      BY ProjectPageAssumption DEF Jobs
    <3>3. QED
      BY <3>1, <3>2
  <2>4. QED
    BY <2>2, <2>3
<1>4. CrawlTypeOK'
  BY <1>1 DEF CrawlInv, CrawlTypeOK
<1>5. JobsAreMade'
  <2>1. crawls'[j] # "none"
    BY <1>2 DEF CrawlInv, CrawlTypeOK
  <2>2. startRequest'.at = "answered" => crawls'[startRequest'.is] # "none"
    BY <1>2, <2>1 DEF CrawlInv, CrawlTypeOK, JobsAreMade, NoRequest, Asked
  <2>3. QED
    BY <1>2, <1>3, <2>2 DEF CrawlInv, CrawlTypeOK, JobsAreMade, NoRequest, Asked
<1>6. ShownCrawlIsFollowed'
  BY DEF CrawlInv, ShownCrawlIsFollowed
<1>7. QED
  BY <1>4, <1>5, <1>6 DEF CrawlInv

\* What an answer says sets the timer of the next poll.
LEMMA CrawlShownInv ==
    ASSUME CrawlInv, NEW j \in Jobs, NEW s \in JobStates, ShowCrawl(j, s),
           crawls[j] # "none", UNCHANGED <<crawlError, crawls>>, polls' \subseteq polls,
           mount' \in {mount, NoRequest}, startRequest' \in {startRequest, NoRequest}
    PROVE  CrawlInv'
<1>1. /\ crawlShown' = [job |-> j, state |-> s]
      /\ pollTimer' <=> s \in Following
      /\ crawlShown'.state = s
  BY DEF ShowCrawl
<1>2. pollTimer' \in BOOLEAN
  BY DEF ShowCrawl
<1>3. CrawlTypeOK'
  BY <1>1 DEF CrawlInv, CrawlTypeOK
<1>4. JobsAreMade'
  BY <1>1 DEF CrawlInv, JobsAreMade, NoRequest
<1>5. ShownCrawlIsFollowed'
  BY <1>1 DEF ShownCrawlIsFollowed
<1>6. crawlError' \in BOOLEAN
  BY DEF CrawlInv
<1>7. QED
  BY <1>1, <1>2, <1>3, <1>4, <1>5, <1>6 DEF CrawlInv

LEMMA CrawlStepInv == CrawlInv /\ [ProjectNext]_projectVars => CrawlInv'
<1> SUFFICES ASSUME CrawlInv, [ProjectNext]_projectVars
             PROVE  CrawlInv'
  OBVIOUS
<1>a. crawlError' \in BOOLEAN /\ pollTimer' \in BOOLEAN
  BY CrawlBooleans
<1>b. /\ LastJob \in 0 .. MaxJobs
      /\ \A j \in Jobs : j <= LastJob <=> crawls[j] # "none"
  BY LastJobIs DEF CrawlInv, JobsAreMade
<1> USE <1>a, ProjectPageAssumption
<1>1. CASE OpenProject \/ CloseProject
  <2>1. CrawlTypeOK'
    BY <1>1 DEF OpenProject, CloseProject, Blank, CrawlInv, CrawlTypeOK
  <2>2. JobsAreMade'
    BY <1>1 DEF OpenProject, CloseProject, Blank, CrawlInv, JobsAreMade,
                NoRequest, Asked
  <2>3. ~pollTimer' /\ crawlShown' = NoJob
    BY <1>1 DEF OpenProject, CloseProject, Blank
  <2>4. ShownCrawlIsFollowed'
    BY <2>3 DEF ShownCrawlIsFollowed, NoJob, Following
  <2>5. QED
    BY <2>1, <2>2, <2>3, <2>4 DEF CrawlInv
<1>2. CASE UNCHANGED <<crawlVars, crawls>>
  BY <1>2 DEF CrawlInv, crawlVars, CrawlTypeOK, JobsAreMade, ShownCrawlIsFollowed
<1>3. CASE MountListed
  <2>1. mount' \in {NoRequest} \cup [at : {"answered"}, is : Jobs]
    BY <1>3, <1>b DEF MountListed, Jobs
  <2>2. mount'.at = "answered" => crawls[mount'.is] # "none"
    BY <1>3, <1>b DEF MountListed, Jobs, NoRequest
  <2>3. QED
    BY <1>3, <2>1, <2>2
    DEF MountListed, CrawlInv, CrawlTypeOK, JobsAreMade, ShownCrawlIsFollowed
<1>4. CASE MountShown
  <2>1. mount.is \in Jobs /\ crawls[mount.is] # "none"
    BY <1>4 DEF MountShown, CrawlInv, CrawlTypeOK, JobsAreMade, NoRequest, Asked
  <2>2. PICK s \in SaidOf(mount.is) : ShowCrawl(mount.is, s)
    BY <1>4 DEF MountShown
  <2>3. s \in JobStates
    BY <2>2 DEF SaidOf
  <2>4. QED
    BY <1>4, <2>1, <2>2, <2>3, CrawlShownInv DEF MountShown
<1>5. CASE MountFailed \/ StartFailed
  BY <1>5
  DEF MountFailed, StartFailed, CrawlInv, CrawlTypeOK, JobsAreMade,
      ShownCrawlIsFollowed, NoRequest
<1>6. CASE StartCrawl
  BY <1>6
  DEF StartCrawl, CrawlInv, CrawlTypeOK, JobsAreMade, ShownCrawlIsFollowed,
      NoRequest, Asked
<1>7. CASE ApiStartCrawl
  <2>1. CASE \E j \in Jobs : crawls[j] \in Following
    <3>1. startRequest' = [at |-> "refused", is |-> 0] /\ UNCHANGED crawls
      BY <1>7, <2>1 DEF ApiStartCrawl
    <3>2. QED
      BY <1>7, <3>1
      DEF ApiStartCrawl, CrawlInv, CrawlTypeOK, JobsAreMade, ShownCrawlIsFollowed
  <2>2. CASE ~\E j \in Jobs : crawls[j] \in Following
    <3>1. /\ LastJob < MaxJobs
          /\ crawls' = [crawls EXCEPT ![LastJob + 1] = "queued"]
          /\ startRequest' = [at |-> "answered", is |-> LastJob + 1]
      BY <1>7, <2>2 DEF ApiStartCrawl
    <3>2. LastJob + 1 \in Jobs /\ "queued" \in JobStates
      BY <1>b, <3>1 DEF Jobs, JobStates
    <3>3. QED
      BY <1>7, <3>1, <3>2, CrawlsGrow DEF ApiStartCrawl
  <2>3. QED
    BY <2>1, <2>2
<1>8. CASE StartAnswered
  <2>1. startRequest.is \in Jobs /\ crawls[startRequest.is] # "none"
    BY <1>8 DEF StartAnswered, CrawlInv, CrawlTypeOK, JobsAreMade, NoRequest, Asked
  <2>2. /\ ShowCrawl(startRequest.is, "queued")
        /\ startRequest' = NoRequest
        /\ UNCHANGED <<crawlError, mount, polls, crawls>>
    BY <1>8 DEF StartAnswered
  <2>3. "queued" \in JobStates
    BY DEF JobStates
  <2>4. QED
    BY <2>1, <2>2, <2>3, CrawlShownInv
<1>9. CASE PollFires
  <2> DEFINE q == [job |-> crawlShown.job, said |-> "nothing"]
  <2>1. crawlShown.job \in Jobs /\ crawls[crawlShown.job] # "none"
    BY <1>9 DEF PollFires, CrawlInv, CrawlTypeOK, JobsAreMade, NoJob, Following
  <2>2. /\ polls' = polls \cup {q} /\ ~pollTimer'
        /\ UNCHANGED <<crawlShown, crawlError, mount, startRequest, crawls>>
    BY <1>9 DEF PollFires
  <2>3. q \in [job : Jobs, said : JobStates \cup {"nothing"}] /\ q.job = crawlShown.job
    BY <2>1
  <2> HIDE DEF q
  <2>4. CrawlTypeOK' /\ JobsAreMade'
    BY <2>1, <2>2, <2>3 DEF CrawlInv, CrawlTypeOK, JobsAreMade
  <2>5. ShownCrawlIsFollowed'
    BY <2>2 DEF ShownCrawlIsFollowed
  <2>6. QED
    BY <2>2, <2>4, <2>5 DEF CrawlInv
<1>10. ASSUME NEW q \in polls, ApiSaysCrawl(q) \/ PollShown(q) \/ PollFailed(q)
       PROVE  CrawlInv'
  <2>1. /\ q \in [job : Jobs, said : JobStates \cup {"nothing"}]
        /\ crawls[q.job] \in JobStates
    BY DEF CrawlInv, CrawlTypeOK, JobsAreMade
  <2>2. CASE ApiSaysCrawl(q)
    <3>1. /\ [q EXCEPT !.said = crawls[q.job]]
               \in [job : Jobs, said : JobStates \cup {"nothing"}]
          /\ [q EXCEPT !.said = crawls[q.job]].job = q.job
      BY <2>1
    <3>2. QED
      BY <2>1, <2>2, <3>1
      DEF ApiSaysCrawl, CrawlInv, CrawlTypeOK, JobsAreMade, ShownCrawlIsFollowed
  <2>3. CASE PollShown(q)
    <3>1. q.job \in Jobs /\ q.said \in JobStates /\ crawls[q.job] # "none"
      BY <2>1, <2>3 DEF PollShown, JobStates
    <3>2. QED
      BY <2>3, <3>1, CrawlShownInv DEF PollShown
  <2>4. CASE PollFailed(q)
    BY <2>4
    DEF PollFailed, Told, CrawlInv, CrawlTypeOK, JobsAreMade, ShownCrawlIsFollowed
  <2>5. QED
    BY <1>10, <2>2, <2>3, <2>4
<1>11. CASE Elsewhere
  <2>1. CASE UNCHANGED crawls
    BY <1>2, <1>11, <2>1 DEF Elsewhere
  <2>2. CASE /\ LastJob < MaxJobs
             /\ crawls' = [crawls EXCEPT ![LastJob + 1] = "queued"]
    <3>1. LastJob + 1 \in Jobs /\ "queued" \in JobStates
      BY <1>b, <2>2 DEF Jobs, JobStates
    <3>2. QED
      BY <1>11, <2>2, <3>1, CrawlsGrow DEF Elsewhere, crawlVars
  <2>3. QED
    BY <1>11, <2>1, <2>2 DEF Elsewhere
<1>12. ASSUME NEW j \in Jobs, JobGoesOn(j)
       PROVE  CrawlInv'
  <2>1. /\ crawls[j] # "none"
        /\ \E s \in JobStates : crawls' = [crawls EXCEPT ![j] = s]
    BY <1>12 DEF JobGoesOn, Following, JobStates
  <2>2. QED
    BY <1>12, <2>1, CrawlsGrow DEF JobGoesOn, crawlVars
<1>13. ASSUME ~(OpenProject \/ CloseProject), ~MountListed, ~MountShown,
              ~(MountFailed \/ StartFailed), ~StartCrawl, ~ApiStartCrawl,
              ~StartAnswered, ~PollFires, ~Elsewhere,
              \A q \in polls : ~(ApiSaysCrawl(q) \/ PollShown(q) \/ PollFailed(q)),
              \A j \in Jobs : ~JobGoesOn(j)
       PROVE  UNCHANGED <<crawlVars, crawls>>
  BY <1>13
  DEF ProjectNext, projectVars, DetailLoaded, DetailFailed, Reload, RunAudit,
      ApiSaveAudit, AuditShown, AuditLost, SpeedAnswered
<1>14. QED
  BY <1>1, <1>2, <1>3, <1>4, <1>5, <1>6, <1>7, <1>8, <1>9, <1>10, <1>11,
     <1>12, <1>13

\* A crawl job the page shows as going on is not forgotten: the safety half of
\* CrawlShownSettles, whatever order answers come in.
THEOREM ShownCrawlsAreFollowed == ProjectSpec => []ShownCrawlIsFollowed
<1>1. CrawlInv => ShownCrawlIsFollowed
  BY DEF CrawlInv
<1>2. QED
  BY CrawlInitInv, CrawlStepInv, <1>1, PTL DEF ProjectSpec

\* What the project page holds always has its type: in particular, the audits
\* and crawl jobs it names are ones the API made, and none is numbered beyond
\* them (account-project-detail.tsx).
THEOREM ProjectPageTypes == ProjectSpec => []ProjectTypeOK
<1>1. AuditInv /\ CrawlInv => ProjectTypeOK
  BY DEF AuditInv, CrawlInv, CrawlTypeOK, SpeedFollowsLatest, ProjectTypeOK
<1>2. QED
  BY AuditInitInv, AuditStepInv, CrawlInitInv, CrawlStepInv, <1>1, PTL
  DEF ProjectSpec

-----------------------------------------------------------------------------
(***************************************************************************)
(* The frame of the signed-in pages.                                       *)
(***************************************************************************)

\* What the load the shell waits for has read, or will read, has the restored
\* projects in it: a restore that is answered asks for a new load.
LoadsSeeRestored ==
    /\ restored \subseteq live
    /\ loadedToken <= reloadToken
    /\ \A l \in loads :
         /\ l.token <= reloadToken
         /\ l.token = reloadToken /\ l.listed = "known" => restored \subseteq l.list

ShellInv ==
    /\ ShellTypeOK
    /\ live \subseteq AccountProjects
    /\ archive \subseteq AccountProjects
    /\ LoadsSeeRestored
    /\ RestoredIsShown

LoadRecords ==
    [token : 1 .. MaxLoads, session : {"unread", "known", "refused"},
     listed : {"unread", "known", "refused"}, list : SUBSET AccountProjects]

LEMMA ShellInitInv == ShellInit => ShellInv
<1>1. ShellInit => signedIn \in BOOLEAN /\ overviewFailed \in BOOLEAN
  BY DEF ShellInit
<1>2. QED
  BY <1>1, ShellAssumption
  DEF ShellInit, ShellInv, ShellTypeOK, LoadsSeeRestored, RestoredIsShown,
      Mounted, ShellLoading

LEMMA ShellBooleans ==
    ShellInv /\ [ShellNext]_shellVars
        => signedIn' \in BOOLEAN /\ overviewFailed' \in BOOLEAN
BY ZenonT(60)
DEF ShellInv, ShellTypeOK, ShellNext, shellVars, shownVars, apiVars, OpenShell,
    Retry, Load, ApiSession, ApiList, LoadSettled, ShowNothing, SignedOut,
    CreateProject, ApiCreateProject, ProjectCreated, RestoreArchived, ApiRestore,
    ProjectRestored, ReloadAfterRestore, DashboardRequestFailed, ShellElsewhere

\* A new load has read nothing yet, and the shell waits for it.
LEMMA LoadInv ==
    ASSUME ShellInv, Load, restored' \subseteq live, UNCHANGED apiVars,
           creates' \subseteq creates, restores' \subseteq restores
    PROVE  ShellInv'
<1> DEFINE new == [token |-> reloadToken + 1, session |-> "unread",
                   listed |-> "unread", list |-> {}]
<1>1. /\ reloadToken \in 0 .. MaxLoads /\ reloadToken < MaxLoads
      /\ reloadToken' = reloadToken + 1
      /\ loads' = loads \cup {new}
      /\ UNCHANGED <<loadedToken, loadState, projects, overviewFailed>>
      /\ UNCHANGED <<signedIn, live, archive>>
  BY DEF ShellInv, ShellTypeOK, Load, apiVars
<1>2. new \in LoadRecords /\ new.token = reloadToken + 1 /\ new.listed = "unread"
  BY <1>1, ShellAssumption DEF LoadRecords
<1> HIDE DEF new
<1>3. signedIn' \in BOOLEAN /\ overviewFailed' \in BOOLEAN
  BY <1>1 DEF ShellInv, ShellTypeOK
<1>4. ShellTypeOK'
  BY <1>1, <1>2, <1>3, ShellAssumption DEF ShellInv, ShellTypeOK, LoadRecords
<1>5. loadedToken' # reloadToken'
  BY <1>1, ShellAssumption DEF ShellInv, ShellTypeOK, LoadsSeeRestored
<1>6. LoadsSeeRestored'
  BY <1>1, <1>2, ShellAssumption DEF ShellInv, ShellTypeOK, LoadsSeeRestored
<1>7. RestoredIsShown'
  BY <1>5 DEF RestoredIsShown, Mounted, ShellLoading
<1>8. QED
  BY <1>1, <1>4, <1>6, <1>7 DEF ShellInv

\* The list a load reads has every restored project in it.
LEMMA LoadReadsInv ==
    ASSUME ShellInv, NEW l \in loads, NEW m \in LoadRecords,
           loads' = (loads \ {l}) \cup {m}, m.token = l.token,
           m.listed = "known" => m.list = live \/ (l.listed = "known" /\ m.list = l.list),
           UNCHANGED <<shownVars, creates, restores, restored, apiVars>>
    PROVE  ShellInv'
<1>1. signedIn' \in BOOLEAN /\ overviewFailed' \in BOOLEAN
  BY DEF ShellInv, ShellTypeOK, shownVars, apiVars
<1>2. ShellTypeOK'
  BY <1>1 DEF ShellInv, ShellTypeOK, LoadRecords, shownVars, apiVars
<1>3. LoadsSeeRestored'
  BY DEF ShellInv, LoadsSeeRestored, shownVars, apiVars
<1>4. RestoredIsShown'
  BY DEF ShellInv, RestoredIsShown, Mounted, ShellLoading, shownVars
<1>5. QED
  BY <1>2, <1>3, <1>4 DEF ShellInv, apiVars

LEMMA ShellStepInv == ShellInv /\ [ShellNext]_shellVars => ShellInv'
<1> SUFFICES ASSUME ShellInv, [ShellNext]_shellVars
             PROVE  ShellInv'
  OBVIOUS
<1>0. signedIn' \in BOOLEAN /\ overviewFailed' \in BOOLEAN
  BY ShellBooleans
<1> USE <1>0, ShellAssumption
<1>1. CASE OpenShell \/ Retry
  <2>1. restored \subseteq live
    BY DEF ShellInv, LoadsSeeRestored
  <2>2. QED
    BY <1>1, <2>1, LoadInv DEF OpenShell, Retry
<1>2. ASSUME NEW l \in loads, ApiSession(l)
      PROVE  ShellInv'
  <2> DEFINE m == [l EXCEPT !.session = IF signedIn THEN "known" ELSE "refused"]
  <2>1. l \in LoadRecords
    BY DEF ShellInv, ShellTypeOK, LoadRecords
  <2>2. /\ m \in LoadRecords /\ m.token = l.token
        /\ m.listed = l.listed /\ m.list = l.list
    BY <2>1 DEF LoadRecords
  <2>3. loads' = (loads \ {l}) \cup {m}
    BY <1>2 DEF ApiSession
  <2> HIDE DEF m
  <2>4. QED
    BY <1>2, <2>2, <2>3, LoadReadsInv DEF ApiSession
<1>3. ASSUME NEW l \in loads, ApiList(l)
      PROVE  ShellInv'
  <2> DEFINE m == IF signedIn THEN [l EXCEPT !.listed = "known", !.list = live]
                  ELSE [l EXCEPT !.listed = "refused"]
  <2>1. l \in LoadRecords /\ live \in SUBSET AccountProjects
    BY DEF ShellInv, ShellTypeOK, LoadRecords
  <2>2. /\ m \in LoadRecords /\ m.token = l.token
        /\ m.listed = "known" => m.list = live
    BY <2>1 DEF LoadRecords
  <2>3. loads' = (loads \ {l}) \cup {m}
    BY <1>3 DEF ApiList
  <2> HIDE DEF m
  <2>4. QED
    BY <1>3, <2>2, <2>3, LoadReadsInv DEF ApiList
<1>4. ASSUME NEW l \in loads, LoadSettled(l)
      PROVE  ShellInv'
  <2>1. l \in LoadRecords /\ loads' \subseteq loads
    BY <1>4 DEF ShellInv, ShellTypeOK, LoadRecords, LoadSettled
  <2>2. CASE l.token # reloadToken
    <3>1. UNCHANGED shownVars
      BY <1>4, <2>2 DEF LoadSettled, TakesLoad
    <3>2. QED
      BY <1>4, <2>1, <3>1
      DEF LoadSettled, ShellInv, ShellTypeOK, LoadsSeeRestored, RestoredIsShown,
          Mounted, ShellLoading, shownVars, apiVars
  <2>3. CASE l.token = reloadToken
    <3>1. /\ loadedToken' = l.token /\ reloadToken' = reloadToken
          /\ loadState' \in {"ready", "unauthenticated", "unavailable"}
          /\ projects' \subseteq AccountProjects
          /\ loadState' = "ready" => l.listed = "known" /\ projects' = l.list
      BY <1>4, <2>1, <2>3 DEF LoadSettled, TakesLoad, ShowNothing, LoadRecords
    <3>2. UNCHANGED <<creates, restores, restored, signedIn, live, archive>>
      BY <1>4 DEF LoadSettled, apiVars
    <3>3. ShellTypeOK'
      BY <2>1, <2>3, <3>1, <3>2 DEF ShellInv, ShellTypeOK, LoadRecords
    <3>4. LoadsSeeRestored'
      BY <2>1, <2>3, <3>1, <3>2 DEF ShellInv, ShellTypeOK, LoadsSeeRestored
    <3>5. RestoredIsShown'
      BY <2>3, <3>1, <3>2 DEF ShellInv, LoadsSeeRestored, RestoredIsShown, Mounted
    <3>6. QED
      BY <3>2, <3>3, <3>4, <3>5 DEF ShellInv
  <2>4. QED
    BY <2>2, <2>3
<1>5. ASSUME NEW p \in AccountProjects, CreateProject(p) \/ RestoreArchived(p)
      PROVE  ShellInv'
  <2>1. Ask(p) \in Requests
    BY DEF Ask, Requests, ShellInv, ShellTypeOK
  <2>2. QED
    BY <1>5, <2>1
    DEF CreateProject, RestoreArchived, ShellInv, ShellTypeOK, LoadsSeeRestored,
        RestoredIsShown, Mounted, ShellLoading, shownVars, apiVars
<1>6. ASSUME NEW r \in creates, ApiCreateProject(r)
      PROVE  ShellInv'
  <2>1. r.project \in AccountProjects /\ [r EXCEPT !.made = TRUE] \in Requests
    BY DEF Requests, ShellInv, ShellTypeOK
  <2>2. QED
    BY <1>6, <2>1
    DEF ApiCreateProject, ShellInv, ShellTypeOK, LoadsSeeRestored,
        RestoredIsShown, Mounted, ShellLoading, shownVars
<1>7. ASSUME NEW r \in creates, ProjectCreated(r)
      PROVE  ShellInv'
  <2>1. r.project \in AccountProjects
    BY DEF Requests, ShellInv, ShellTypeOK
  <2>2. QED
    BY <1>7, <2>1
    DEF ProjectCreated, ShellInv, ShellTypeOK, LoadsSeeRestored,
        RestoredIsShown, Mounted, ShellLoading, apiVars
<1>8. ASSUME NEW r \in restores, ApiRestore(r)
      PROVE  ShellInv'
  <2>1. r.project \in AccountProjects /\ [r EXCEPT !.made = TRUE] \in Requests
    BY DEF Requests, ShellInv, ShellTypeOK
  <2>2. QED
    BY <1>8, <2>1
    DEF ApiRestore, ShellInv, ShellTypeOK, LoadsSeeRestored,
        RestoredIsShown, Mounted, ShellLoading, shownVars
<1>9. ASSUME NEW r \in restores, ProjectRestored(r)
      PROVE  ShellInv'
  <2>1. restored' \subseteq live
    BY <1>9 DEF ProjectRestored, ShellInv, LoadsSeeRestored
  <2>2. QED
    BY <1>9, <2>1, LoadInv DEF ProjectRestored, ReloadAfterRestore
<1>10. CASE DashboardRequestFailed
  <2>1. creates' \subseteq creates /\ restores' \subseteq restores
    BY <1>10 DEF DashboardRequestFailed
  <2>2. /\ UNCHANGED <<reloadToken, loadedToken, loads, restored, live, archive>>
        /\ \/ UNCHANGED <<loadState, projects>>
           \/ loadState' = "unauthenticated" /\ projects' = {}
    BY <1>10 DEF DashboardRequestFailed, SignedOut, ShowNothing, shownVars, apiVars
  <2>3. QED
    BY <2>1, <2>2
    DEF ShellInv, ShellTypeOK, LoadsSeeRestored, RestoredIsShown, Mounted,
        ShellLoading
<1>11. CASE ShellElsewhere
  <2>1. /\ UNCHANGED <<reloadToken, loadedToken, loadState, projects, loads,
                      creates, restores>>
        /\ \/ UNCHANGED <<live, archive, restored>>
           \/ \E p \in live : /\ live' = live \ {p}
                              /\ archive' = archive \cup {p}
                              /\ restored' = restored \ {p}
    BY <1>11 DEF ShellElsewhere, shownVars
  <2>2. QED
    BY <2>1
    DEF ShellInv, ShellTypeOK, LoadsSeeRestored, RestoredIsShown, Mounted,
        ShellLoading
<1>12. CASE UNCHANGED shellVars
  BY <1>12
  DEF shellVars, ShellInv, ShellTypeOK, LoadsSeeRestored, RestoredIsShown,
      Mounted, ShellLoading
<1>13. QED
  BY <1>1, <1>2, <1>3, <1>4, <1>5, <1>6, <1>7, <1>8, <1>9, <1>10, <1>11, <1>12
  DEF ShellNext

\* A restored project is on the screen whenever a list is: the load that the
\* restore asks for reads it, and no older one is shown any more.
THEOREM RestoredProjectsAreShown == ShellSpec => [](ShellTypeOK /\ RestoredIsShown)
<1>1. ShellInv => ShellTypeOK /\ RestoredIsShown
  BY DEF ShellInv
<1>2. QED
  BY ShellInitInv, ShellStepInv, <1>1, PTL DEF ShellSpec

\* A shell that is loading has the load it will show under way: of loads that
\* overlap, only the newest ends the loading, and it is never dropped.
LoadingShellIsAwaited ==
    ShellLoading => \E l \in loads : l.token = reloadToken

LEMMA AwaitedStep ==
    ShellInv /\ LoadingShellIsAwaited /\ [ShellNext]_shellVars
        => LoadingShellIsAwaited'
<1> SUFFICES ASSUME ShellInv, LoadingShellIsAwaited, [ShellNext]_shellVars
             PROVE  LoadingShellIsAwaited'
  OBVIOUS
<1>1. CASE Load
  <2> DEFINE n == [token |-> reloadToken + 1, session |-> "unread",
                   listed |-> "unread", list |-> {}]
  <2>1. loads' = loads \cup {n} /\ reloadToken' = reloadToken + 1
    BY <1>1 DEF Load
  <2>2. n.token = reloadToken + 1
    OBVIOUS
  <2> HIDE DEF n
  <2>3. QED
    BY <2>1, <2>2 DEF LoadingShellIsAwaited
<1>2. ASSUME NEW l \in loads, NEW m,
             loads' = (loads \ {l}) \cup {m}, m.token = l.token, UNCHANGED shownVars
      PROVE  LoadingShellIsAwaited'
  BY <1>2 DEF LoadingShellIsAwaited, ShellLoading, shownVars
<1>3. ASSUME NEW l \in loads, ApiSession(l) \/ ApiList(l)
      PROVE  LoadingShellIsAwaited'
  <2>1. l \in LoadRecords
    BY DEF ShellInv, ShellTypeOK, LoadRecords
  <2>2. CASE ApiSession(l)
    <3> DEFINE m == [l EXCEPT !.session = IF signedIn THEN "known" ELSE "refused"]
    <3>1. loads' = (loads \ {l}) \cup {m} /\ UNCHANGED shownVars
      BY <2>2 DEF ApiSession
    <3>2. m.token = l.token
      BY <2>1 DEF LoadRecords
    <3> HIDE DEF m
    <3>3. QED
      BY <1>2, <3>1, <3>2
  <2>3. CASE ApiList(l)
    <3> DEFINE m == IF signedIn THEN [l EXCEPT !.listed = "known", !.list = live]
                                ELSE [l EXCEPT !.listed = "refused"]
    <3>1. loads' = (loads \ {l}) \cup {m} /\ UNCHANGED shownVars
      BY <2>3 DEF ApiList
    <3>2. m.token = l.token
      BY <2>1 DEF LoadRecords
    <3> HIDE DEF m
    <3>3. QED
      BY <1>2, <3>1, <3>2
  <2>4. QED
    BY <1>3, <2>2, <2>3
<1>4. ASSUME NEW l \in loads, LoadSettled(l)
      PROVE  LoadingShellIsAwaited'
  BY <1>4 DEF LoadSettled, TakesLoad, LoadingShellIsAwaited, ShellLoading, shownVars
<1>5. CASE UNCHANGED <<reloadToken, loadedToken, loads>>
  BY <1>5 DEF LoadingShellIsAwaited, ShellLoading
<1>6. QED
  BY <1>1, <1>3, <1>4, <1>5
  DEF ShellNext, shellVars, shownVars, OpenShell, Retry, CreateProject,
      RestoreArchived, ApiCreateProject, ProjectCreated, ApiRestore,
      ProjectRestored, ReloadAfterRestore, DashboardRequestFailed, SignedOut,
      ShellElsewhere

\* The shell is never left loading for nothing: the safety half of ShellComesUp,
\* for any number of overlapping loads.
THEOREM LoadingShellsAreAwaited == ShellSpec => []LoadingShellIsAwaited
<1>1. ShellInit => LoadingShellIsAwaited
  BY DEF ShellInit, LoadingShellIsAwaited, ShellLoading
<1>2. QED
  BY ShellInitInv, ShellStepInv, <1>1, AwaitedStep, PTL DEF ShellSpec

-----------------------------------------------------------------------------
(***************************************************************************)
(* The image tools.                                                        *)
(***************************************************************************)

\* Bitmaps: one that is being decoded is neither held nor closed.
BitmapsApart ==
    /\ 0 \notin decoding \cup closed
    /\ decoding \cap (closed \cup {image}) = {}
    /\ image \notin closed

\* URLs are of runs that were started; those of a run under way were not
\* revoked, and the result on the screen is of a run that has ended.
RunsApart ==
    /\ \A u \in urls : u[1] \in 1 .. runs
    /\ \A u \in revoked : u[1] \notin DOMAIN encoding
    /\ output \notin DOMAIN encoding
    /\ encoding \in [DOMAIN encoding -> [image : 0 .. picks, done : Nat]]

\* The URLs that are in use: of the result on the screen, or of a run under way.
Alive(u) ==
    \/ u \in Urls(output)
    \/ \E r \in DOMAIN encoding : u \in Parts(r, encoding[r].done) \cap Urls(r)

UrlInv ==
    /\ imageTool \in ImageToolSet
    /\ runs \in 0 .. MaxRuns
    /\ DOMAIN encoding \subseteq 1 .. runs
    /\ \A r \in DOMAIN encoding :
         encoding[r].done \in Nat /\ encoding[r].done < imageTool.waits
    /\ output \in 0 .. runs
    /\ output \notin DOMAIN encoding
    /\ revoked \subseteq urls
    /\ \A u \in urls : u[1] \in 1 .. runs
    /\ \A u \in revoked : u[1] \notin DOMAIN encoding
    /\ opened => \A u : u \in urls \ revoked <=> Alive(u)

BitmapInv ==
    /\ picks \in 0 .. MaxPicks
    /\ {image} \cup decoding \cup closed \subseteq 0 .. picks
    /\ BitmapsApart

ImageInv ==
    /\ ImageTypeOK
    /\ BitmapsApart
    /\ RunsApart
    /\ UrlsAreShownOrRevoked

\* What the steps use of a tool.
LEMMA ImageToolRecords ==
    \A t \in ImageToolSet : t.waits \in Nat /\ t.parts \in Nat
<1> DEFINE R == [startsOver : BOOLEAN, empties : BOOLEAN, drops : BOOLEAN,
                 closes : BOOLEAN, waits : Nat, parts : Nat, blanks : BOOLEAN,
                 given : BOOLEAN]
<1>1. Raster \in R
  BY DEF Raster
<1>2. FaviconGeneratorTool \in R
  BY <1>1 DEF FaviconGeneratorTool
<1>3. ImagePaletteExtractorTool \in R
  BY <1>1 DEF ImagePaletteExtractorTool
<1>4. QrCodeWorkbenchTool \in R
  BY <1>3 DEF QrCodeWorkbenchTool
<1>5. ImageDataUriWorkbenchTool \in R
  BY <1>4 DEF ImageDataUriWorkbenchTool
<1>6. ImageMetadataViewerTool \in R /\ SvgOptimizerTool \in R
  BY <1>1 DEF ImageMetadataViewerTool, SvgOptimizerTool
<1>7. \A t \in ImageToolSet : t \in R
  BY <1>1, <1>2, <1>3, <1>4, <1>5, <1>6
  DEF ImageToolSet, ImageOptimizerTool, ImageFormatConverterTool,
      ImageResizerTool, ImageCropperTool, AddWatermarkImageTool
<1>8. QED
  BY <1>7

LEMMA UrlsAre ==
    /\ \A run, count : \A u \in Parts(run, count) : u[1] = run
    /\ \A run : \A u \in Urls(run) : u[1] = run /\ run # 0
    /\ Urls(0) = {}
BY DEF Parts, Urls

LEMMA ImageInitInv == ImageInit => ImageInv
<1> SUFFICES ASSUME ImageInit PROVE ImageInv
  OBVIOUS
<1> USE ImageAssumption DEF ImageInit
<1>1. opened \in BOOLEAN
  OBVIOUS
<1>2. DOMAIN encoding = {}
  OBVIOUS
<1>3. encoding \in [DOMAIN encoding -> [image : 0 .. picks, done : Nat]]
  OBVIOUS
<1>4. ImageTypeOK
  BY <1>1, <1>2 DEF ImageTypeOK
<1>5. UrlsAreShownOrRevoked
  BY <1>2, UrlsAre DEF UrlsAreShownOrRevoked
<1>6. QED
  BY <1>2, <1>3, <1>4, <1>5 DEF ImageInv, BitmapsApart, RunsApart

\* Picking, decoding, letting go and leaving keep the bitmaps apart.
LEMMA BitmapStep == ImageInv /\ [ImageNext]_imageVars => BitmapInv'
<1> SUFFICES ASSUME ImageInv, [ImageNext]_imageVars
             PROVE  BitmapInv'
  OBVIOUS
<1>0. BitmapInv /\ picks \in Nat
  BY ImageAssumption DEF ImageInv, ImageTypeOK, BitmapInv
<1>1. CASE PickFile
  <2>1. /\ picks' = picks + 1 /\ picks < MaxPicks
        /\ decoding' \subseteq decoding \cup {picks + 1}
        /\ image' \in {image, 0}
        /\ closed' \subseteq closed \cup {image}
        /\ image' = image => closed' = closed
        /\ 0 \in closed' => 0 \in closed
    BY <1>1 DEF PickFile, Hold, Closed
  <2>2. QED
    BY <1>0, <2>1, ImageAssumption DEF BitmapInv, BitmapsApart
<1>2. ASSUME NEW pick \in decoding, Decoded(pick)
      PROVE  BitmapInv'
  <2>1. /\ picks' = picks
        /\ decoding' = decoding \ {pick}
        /\ image' \in {image, pick, 0}
        /\ closed' \subseteq closed \cup {image}
        /\ image' = image => closed' = closed
        /\ 0 \in closed' => 0 \in closed
    BY <1>2 DEF Decoded, Hold, Closed
  <2>2. QED
    BY <1>0, <2>1 DEF BitmapInv, BitmapsApart
<1>3. CASE LeaveTool
  <2>1. /\ UNCHANGED <<picks, decoding>>
        /\ image' = 0
        /\ closed' \subseteq closed \cup {image}
        /\ 0 \in closed' => 0 \in closed
    BY <1>3 DEF LeaveTool, Closed
  <2>2. QED
    BY <1>0, <2>1 DEF BitmapInv, BitmapsApart
<1>4. CASE UNCHANGED <<image, decoding, closed, picks>>
  BY <1>0, <1>4 DEF BitmapInv, BitmapsApart
<1>5. QED
  BY <1>1, <1>2, <1>3, <1>4
  DEF ImageNext, imageVars, StartRun, ContinueRun

LEMMA UrlsAreAlive ==
    ASSUME opened
    PROVE  UrlsAreShownOrRevoked
             <=> /\ \A u : u \in urls \ revoked <=> Alive(u)
                 /\ image \notin closed
<1> DEFINE Way == {Parts(r, encoding[r].done) \cap Urls(r) : r \in DOMAIN encoding}
<1>1. \A u : u \in UNION Way <=>
              \E r \in DOMAIN encoding : u \in Parts(r, encoding[r].done) \cap Urls(r)
  OBVIOUS
<1>2. \A u : Alive(u) <=> u \in Urls(output) \cup UNION Way
  BY <1>1 DEF Alive
<1>3. (urls \ revoked = Urls(output) \cup UNION Way)
        <=> \A u : u \in urls \ revoked <=> u \in Urls(output) \cup UNION Way
  <2> HIDE DEF Way
  <2>1. QED
    OBVIOUS
<1>4. UrlsAreShownOrRevoked <=>
        urls \ revoked = Urls(output) \cup UNION Way /\ image \notin closed
  BY DEF UrlsAreShownOrRevoked
<1>5. QED
  <2> HIDE DEF Way
  <2>1. QED
    BY <1>2, <1>3, <1>4

LEMMA PartsAre ==
    /\ \A run : Parts(run, 0) = {}
    /\ \A run : \A i, j \in Nat : i <= j => Parts(run, i) \subseteq Parts(run, j)
BY DEF Parts

\* What is in use after a step, with the tool it was before.
LEMMA AliveAfter ==
    ASSUME imageTool' = imageTool
    PROVE  \A u : Alive(u)' <=>
             \/ u \in Urls(output')
             \/ \E r \in DOMAIN encoding' :
                  u \in Parts(r, encoding'[r].done) \cap Urls(r)
BY DEF Alive, Urls

\* The result is taken off the screen, or stays on it.
LEMMA TakenOffInv ==
    ASSUME UrlInv, opened, output' \in {output, 0}, Replace(output'),
           UNCHANGED <<imageTool, opened, encoding, runs, urls>>
    PROVE  UrlInv'
<1>1. /\ revoked' = IF output' = output THEN revoked ELSE revoked \cup Urls(output)
      /\ revoked' \subseteq revoked \cup Urls(output)
  BY DEF Replace
<1>2. /\ Urls(output) \subseteq urls
      /\ \A u \in Urls(output) : u[1] = output
      /\ Urls(0) = {}
  BY UrlsAre DEF UrlInv, Alive
<1>3. /\ revoked' \subseteq urls
      /\ \A u \in revoked' : u[1] \notin DOMAIN encoding
  BY <1>1, <1>2 DEF UrlInv
<1>4. \A u : u \in urls \ revoked' <=> Alive(u)'
  <2>1. CASE output' = output
    BY <1>1, <2>1, AliveAfter DEF UrlInv, Alive
  <2>2. CASE output' # output
    <3>1. output' = 0 /\ revoked' = revoked \cup Urls(output)
      BY <1>1, <2>2
    <3>2. \A u : Alive(u)' <=>
            \E r \in DOMAIN encoding : u \in Parts(r, encoding[r].done) \cap Urls(r)
      BY <1>2, <3>1, AliveAfter
    <3>3. \A u : (\E r \in DOMAIN encoding :
                    u \in Parts(r, encoding[r].done) \cap Urls(r))
                 => u \notin Urls(output)
      BY <1>2, UrlsAre DEF UrlInv
    <3>4. QED
      BY <3>1, <3>2, <3>3 DEF UrlInv, Alive
  <2>3. QED
    BY <2>1, <2>2
<1>5. output' \in 0 .. runs /\ output' \notin DOMAIN encoding
  BY DEF UrlInv
<1>6. QED
  BY <1>3, <1>4, <1>5 DEF UrlInv

\* A run that fails, before it made anything or with what it made.
LEMMA GivenUpInv ==
    ASSUME UrlInv, NEW run \in Nat, NEW gone, GiveUp(run, gone),
           run \in DOMAIN encoding \/ (run = 0 /\ gone = {}),
           \A u \in gone : u[1] = run,
           run \in DOMAIN encoding =>
             Parts(run, encoding[run].done) \cap Urls(run) \subseteq gone,
           runs' \in runs .. MaxRuns, UNCHANGED <<imageTool, opened>>
    PROVE  UrlInv'
<1>1. /\ encoding' = [r \in DOMAIN encoding \ {run} |-> encoding[r]]
      /\ DOMAIN encoding' = DOMAIN encoding \ {run}
      /\ \A r \in DOMAIN encoding' : encoding'[r] = encoding[r]
  BY DEF GiveUp, Finished
<1>2. /\ urls' = urls \cup gone
      /\ \/ output' = 0 /\ revoked' = revoked \cup Urls(output) \cup gone /\ opened
         \/ output' = output /\ revoked' = revoked \cup gone
  BY DEF GiveUp
<1>3. /\ opened => Urls(output) \subseteq urls
      /\ \A u \in Urls(output) : u[1] = output
      /\ Urls(0) = {}
  BY UrlsAre DEF UrlInv, Alive
<1>4. runs \in Nat /\ runs' \in Nat /\ runs <= runs' /\ 1 .. runs \subseteq 1 .. runs'
  BY ImageAssumption DEF UrlInv
<1>5. /\ runs' \in 0 .. MaxRuns
      /\ DOMAIN encoding' \subseteq 1 .. runs'
      /\ output' \in 0 .. runs'
      /\ output' \notin DOMAIN encoding'
      /\ \A r \in DOMAIN encoding' :
           encoding'[r].done \in Nat /\ encoding'[r].done < imageTool'.waits
  BY <1>1, <1>2, <1>4, ImageAssumption DEF UrlInv
<1>6. /\ revoked' \subseteq urls'
      /\ \A u \in urls' : u[1] \in 1 .. runs'
      /\ \A u \in revoked' : u[1] \notin DOMAIN encoding'
  <2>1. revoked' \subseteq urls'
    BY <1>2, <1>3 DEF UrlInv
  <2>2. \A u \in urls' : u[1] \in 1 .. runs'
    BY <1>2, <1>4 DEF UrlInv
  <2>3. \A u \in revoked' : u[1] \notin DOMAIN encoding'
    BY <1>1, <1>2, <1>3 DEF UrlInv
  <2>4. QED
    BY <2>1, <2>2, <2>3
<1>7. ASSUME opened, NEW u
      PROVE  u \in urls' \ revoked' <=> Alive(u)'
  <2> DEFINE Other == \E r \in DOMAIN encoding \ {run} :
                        u \in Parts(r, encoding[r].done) \cap Urls(r)
  <2>1. Alive(u)' <=> u \in Urls(output') \/ Other
    BY <1>1, AliveAfter
  <2>2. u \in urls \ revoked <=>
          \/ u \in Urls(output)
          \/ Other
          \/ run \in DOMAIN encoding /\ u \in Parts(run, encoding[run].done) \cap Urls(run)
    BY <1>7 DEF UrlInv, Alive
  <2>3. Other => u[1] # run /\ u[1] # output /\ u \notin gone /\ u \notin Urls(output)
    BY <1>3, UrlsAre DEF UrlInv
  <2>4. u \in Urls(output) => u \notin gone
    BY <1>3, UrlsAre DEF UrlInv
  <2> HIDE DEF Other
  <2>5. u \in urls' \ revoked' <=> u \in (urls \ revoked) \ gone /\ (output' = output \/ u \notin Urls(output))
    BY <1>2, <1>3
  <2>6. QED
    BY <1>2, <1>3, <2>1, <2>2, <2>3, <2>4, <2>5
<1>8. QED
  BY <1>5, <1>6, <1>7 DEF UrlInv

\* The URLs of a run that shows its result are new or were its own.
LEMMA RunShownInv ==
    ASSUME UrlInv, opened, NEW run \in 1 .. runs', Replace(run),
           run \in DOMAIN encoding \/ run \notin 1 .. runs,
           encoding' = [r \in DOMAIN encoding \ {run} |-> encoding[r]],
           urls' = urls \cup Urls(run),
           runs' \in runs .. MaxRuns, UNCHANGED <<imageTool, opened>>
    PROVE  UrlInv'
<1>1. /\ DOMAIN encoding' = DOMAIN encoding \ {run}
      /\ \A r \in DOMAIN encoding' : encoding'[r] = encoding[r]
  OBVIOUS
<1>2. output' = run /\ run # output /\ revoked' = revoked \cup Urls(output)
  BY DEF Replace, UrlInv
<1>3. /\ Urls(output) \subseteq urls
      /\ \A u \in Urls(output) : u[1] = output
      /\ \A u \in Urls(run) : u[1] = run
  BY UrlsAre DEF UrlInv, Alive
<1>4. runs \in Nat /\ runs' \in Nat /\ runs <= runs' /\ 1 .. runs \subseteq 1 .. runs'
  BY ImageAssumption DEF UrlInv
<1>5. /\ runs' \in 0 .. MaxRuns
      /\ DOMAIN encoding' \subseteq 1 .. runs'
      /\ output' \in 0 .. runs'
      /\ output' \notin DOMAIN encoding'
      /\ \A r \in DOMAIN encoding' :
           encoding'[r].done \in Nat /\ encoding'[r].done < imageTool'.waits
  BY <1>1, <1>2, <1>4, ImageAssumption DEF UrlInv
<1>6. \A u \in revoked : u[1] # run
  BY DEF UrlInv
<1>7. /\ revoked' \subseteq urls'
      /\ \A u \in urls' : u[1] \in 1 .. runs'
      /\ \A u \in revoked' : u[1] \notin DOMAIN encoding'
  <2>1. revoked' \subseteq urls'
    BY <1>2, <1>3 DEF UrlInv
  <2>2. \A u \in urls' : u[1] \in 1 .. runs'
    BY <1>3, <1>4 DEF UrlInv
  <2>3. \A u \in revoked' : u[1] \notin DOMAIN encoding'
    BY <1>1, <1>2, <1>3 DEF UrlInv
  <2>4. QED
    BY <2>1, <2>2, <2>3
<1>8. ASSUME NEW u
      PROVE  u \in urls' \ revoked' <=> Alive(u)'
  <2> DEFINE Other == \E r \in DOMAIN encoding \ {run} :
                        u \in Parts(r, encoding[r].done) \cap Urls(r)
  <2>1. Alive(u)' <=> u \in Urls(run) \/ Other
    BY <1>1, <1>2, AliveAfter
  <2>2. u \in urls \ revoked <=>
          \/ u \in Urls(output)
          \/ Other
          \/ run \in DOMAIN encoding /\ u \in Parts(run, encoding[run].done) \cap Urls(run)
    BY DEF UrlInv, Alive
  <2>3. Other => u[1] # run /\ u[1] # output
    BY UrlsAre DEF UrlInv
  <2> HIDE DEF Other
  <2>4. CASE u \in Urls(run)
    BY <1>2, <1>3, <1>6, <2>1, <2>4
  <2>5. CASE u \notin Urls(run)
    BY <1>2, <1>3, <2>1, <2>2, <2>3, <2>5
  <2>6. QED
    BY <2>4, <2>5
<1>9. QED
  BY <1>5, <1>7, <1>8 DEF UrlInv

\* A run that waits for the browser has made nothing yet.
LEMMA RunStartedInv ==
    ASSUME UrlInv, runs < MaxRuns, runs' = runs + 1, imageTool.waits > 0,
           encoding' = [r \in DOMAIN encoding \cup {runs + 1} |->
                         IF r = runs + 1 THEN [image |-> image, done |-> 0]
                         ELSE encoding[r]],
           UNCHANGED <<imageTool, opened, urls, output, revoked>>
    PROVE  UrlInv'
<1>1. runs \in Nat /\ runs' \in 0 .. MaxRuns /\ 1 .. runs' = (1 .. runs) \cup {runs + 1}
  BY ImageAssumption DEF UrlInv
<1>2. /\ DOMAIN encoding' = DOMAIN encoding \cup {runs + 1}
      /\ runs + 1 \notin DOMAIN encoding
      /\ \A r \in DOMAIN encoding : encoding'[r] = encoding[r]
      /\ encoding'[runs + 1].done = 0
  BY <1>1 DEF UrlInv
<1>3. /\ DOMAIN encoding' \subseteq 1 .. runs'
      /\ output' \in 0 .. runs'
      /\ output' \notin DOMAIN encoding'
      /\ revoked' \subseteq urls'
      /\ \A u \in urls' : u[1] \in 1 .. runs'
      /\ \A u \in revoked' : u[1] \notin DOMAIN encoding'
  BY <1>1, <1>2 DEF UrlInv
<1>4. \A r \in DOMAIN encoding' :
        encoding'[r].done \in Nat /\ encoding'[r].done < imageTool'.waits
  <2>1. imageTool.waits \in Nat
    BY ImageToolRecords DEF UrlInv
  <2>2. QED
    BY <1>2, <2>1 DEF UrlInv
<1>5. \A u : Alive(u)' <=> Alive(u)
  BY <1>2, AliveAfter, PartsAre DEF Alive
<1>6. QED
  BY <1>1, <1>3, <1>4, <1>5 DEF UrlInv

\* One more part of a run is made, and is in use.
LEMMA NextPartInv ==
    ASSUME UrlInv, NEW run \in DOMAIN encoding, NextPart(run),
           encoding[run] \in [image : 0 .. picks, done : Nat],
           encoding[run].done + 1 < imageTool.waits,
           UNCHANGED <<imageTool, opened, runs>>
    PROVE  UrlInv'
<1> DEFINE done == encoding[run].done + 1
<1>1. /\ DOMAIN encoding' = DOMAIN encoding
      /\ \A r \in DOMAIN encoding \ {run} : encoding'[r] = encoding[r]
      /\ encoding'[run].done = done
      /\ urls' = urls \cup (Parts(run, done) \cap Urls(run))
      /\ output' = output /\ revoked' = revoked
  BY DEF NextPart
<1>2. done \in Nat /\ encoding[run].done \in Nat /\ encoding[run].done <= done
  OBVIOUS
<1>3. Parts(run, encoding[run].done) \subseteq Parts(run, done)
  BY <1>2, PartsAre
<1> HIDE DEF done
<1>4. \A u \in Urls(run) : u[1] = run
  BY UrlsAre
<1>5. /\ revoked' \subseteq urls'
      /\ \A u \in urls' : u[1] \in 1 .. runs'
      /\ \A u \in revoked' : u[1] \notin DOMAIN encoding'
      /\ \A u \in revoked : u[1] # run
  BY <1>1, <1>4 DEF UrlInv
<1>6. \A r \in DOMAIN encoding' :
        encoding'[r].done \in Nat /\ encoding'[r].done < imageTool'.waits
  BY <1>1, <1>2 DEF UrlInv, done
<1>7. ASSUME opened, NEW u
      PROVE  u \in urls' \ revoked' <=> Alive(u)'
  <2> DEFINE Rest == \/ u \in Urls(output)
                     \/ \E r \in DOMAIN encoding \ {run} :
                          u \in Parts(r, encoding[r].done) \cap Urls(r)
  <2>1. Alive(u)' <=> Rest \/ u \in Parts(run, done) \cap Urls(run)
    BY <1>1, AliveAfter
  <2>2. u \in urls \ revoked <=>
          Rest \/ u \in Parts(run, encoding[run].done) \cap Urls(run)
    BY <1>7 DEF UrlInv, Alive
  <2> HIDE DEF Rest
  <2>3. QED
    BY <1>1, <1>3, <1>4, <1>5, <2>1, <2>2
<1>8. QED
  BY <1>1, <1>5, <1>6, <1>7 DEF UrlInv

\* Whatever goes on after the tool was left, only runs end.
LEMMA LeftInv ==
    ASSUME UrlInv, LeaveTool
    PROVE  UrlInv'
<1>1. /\ ~opened' /\ output' = 0 /\ revoked' = revoked \cup Urls(output) /\ opened
      /\ UNCHANGED <<imageTool, encoding, runs, urls>>
  BY DEF LeaveTool
<1>2. Urls(output) \subseteq urls /\ \A u \in Urls(output) : u[1] = output
  BY <1>1, UrlsAre DEF UrlInv, Alive
<1>3. 0 \in 0 .. runs /\ 0 \notin DOMAIN encoding
  BY DEF UrlInv
<1>4. revoked' \subseteq urls' /\ \A u \in revoked' : u[1] \notin DOMAIN encoding'
  BY <1>1, <1>2 DEF UrlInv
<1>5. QED
  BY <1>1, <1>3, <1>4 DEF UrlInv

\* A run that ends after the tool was left shows nothing.
LEMMA LateRunInv ==
    ASSUME UrlInv, ~opened, NEW run \in DOMAIN encoding, Finished(run),
           urls' = urls \cup Urls(run),
           UNCHANGED <<imageTool, opened, runs, output, revoked>>
    PROVE  UrlInv'
<1>1. /\ DOMAIN encoding' = DOMAIN encoding \ {run}
      /\ \A r \in DOMAIN encoding' : encoding'[r] = encoding[r]
  BY DEF Finished
<1>2. \A u \in Urls(run) : u[1] = run /\ run \in 1 .. runs
  BY UrlsAre DEF UrlInv
<1>3. QED
  BY <1>1, <1>2 DEF UrlInv

LEMMA UrlStep ==
    ASSUME UrlInv, [ImageNext]_imageVars,
           encoding \in [DOMAIN encoding -> [image : 0 .. picks, done : Nat]]
    PROVE  UrlInv'
<1>1. CASE PickFile
  <2>1. /\ output' = IF imageTool.startsOver THEN 0 ELSE output
        /\ Replace(output')
    BY <1>1 DEF PickFile, Replace
  <2>2. QED
    BY <1>1, <2>1, TakenOffInv DEF PickFile
<1>2. ASSUME NEW pick \in decoding, Decoded(pick)
      PROVE  UrlInv'
  <2>1. UNCHANGED <<imageTool, opened, encoding, runs, output, urls, revoked>>
    BY <1>2 DEF Decoded
  <2>2. \A u : Alive(u)' <=> Alive(u)
    BY <2>1, AliveAfter DEF Alive
  <2>3. QED
    BY <2>1, <2>2 DEF UrlInv
<1>3. CASE StartRun
  <2>1. /\ runs \in Nat /\ runs < MaxRuns /\ runs' = runs + 1 /\ opened
        /\ runs' \in runs .. MaxRuns
        /\ UNCHANGED <<imageTool, opened>>
    BY <1>3, ImageAssumption DEF StartRun, UrlInv
  <2>2. CASE /\ imageTool.waits > 0
             /\ encoding' = [r \in DOMAIN encoding \cup {runs + 1} |->
                              IF r = runs + 1 THEN [image |-> image, done |-> 0]
                              ELSE encoding[r]]
             /\ UNCHANGED <<urls, output, revoked>>
    BY <2>1, <2>2, RunStartedInv
  <2>3. CASE /\ urls' = urls \cup Urls(runs + 1)
             /\ Replace(runs + 1)
             /\ UNCHANGED encoding
    <3>1. runs + 1 \in 1 .. runs' /\ runs + 1 \notin 1 .. runs
      BY <2>1
    <3>2. encoding = [r \in DOMAIN encoding \ {runs + 1} |-> encoding[r]]
      BY <3>1 DEF UrlInv
    <3>3. QED
      BY <2>1, <2>3, <3>1, <3>2, RunShownInv
  <2>4. CASE GiveUp(0, {})
    <3>1. 0 \notin DOMAIN encoding
      BY DEF UrlInv
    <3>2. QED
      BY <2>1, <2>4, <3>1, GivenUpInv
  <2>5. QED
    BY <1>3, <2>2, <2>3, <2>4 DEF StartRun
<1>4. ASSUME NEW run \in DOMAIN encoding, ContinueRun(run)
      PROVE  UrlInv'
  <2> DEFINE done == encoding[run].done + 1
  <2>1. /\ run \in Nat /\ run \in 1 .. runs /\ runs \in runs .. MaxRuns /\ runs' = runs
        /\ encoding[run].done \in Nat /\ done \in Nat /\ encoding[run].done <= done
        /\ UNCHANGED <<imageTool, opened>>
        /\ encoding[run] \in [image : 0 .. picks, done : Nat]
    BY <1>4, ImageAssumption DEF ContinueRun, UrlInv
  <2>2. /\ \A count : \A u \in Parts(run, count) \cap Urls(run) : u[1] = run
        /\ Parts(run, encoding[run].done) \subseteq Parts(run, done)
    BY <2>1, PartsAre, UrlsAre
  <2>3. CASE done < imageTool.waits /\ NextPart(run)
    BY <2>1, <2>3, NextPartInv
  <2>4. CASE GiveUp(run, Parts(run, done) \cap Urls(run))
    <3> DEFINE gone == Parts(run, done) \cap Urls(run)
    <3>1. /\ \A u \in gone : u[1] = run
          /\ Parts(run, encoding[run].done) \cap Urls(run) \subseteq gone
      BY <2>2
    <3> HIDE DEF gone
    <3>2. GiveUp(run, gone)
      BY <2>4 DEF gone
    <3>3. QED
      BY <2>1, <3>1, <3>2, GivenUpInv
  <2>5. CASE GiveUp(run, Parts(run, encoding[run].done) \cap Urls(run))
    BY <2>1, <2>2, <2>5, GivenUpInv
  <2>6. CASE ShowRun(run)
    <3>1. /\ Finished(run) /\ urls' = urls \cup Urls(run)
          /\ encoding' = [r \in DOMAIN encoding \ {run} |-> encoding[r]]
      BY <2>6 DEF ShowRun, Finished
    <3>2. CASE opened
      BY <2>1, <2>6, <3>1, <3>2, RunShownInv DEF ShowRun
    <3>3. CASE ~opened
      BY <2>1, <2>6, <3>1, <3>3, LateRunInv DEF ShowRun
    <3>4. QED
      BY <3>2, <3>3
  <2>7. QED
    BY <1>4, <2>3, <2>4, <2>5, <2>6 DEF ContinueRun
<1>5. CASE LeaveTool
  BY <1>5, LeftInv
<1>6. CASE UNCHANGED imageVars
  <2>1. UNCHANGED <<imageTool, opened, encoding, runs, output, urls, revoked>>
    BY <1>6 DEF imageVars
  <2>2. \A u : Alive(u)' <=> Alive(u)
    BY <2>1, AliveAfter DEF Alive
  <2>3. QED
    BY <2>1, <2>2 DEF UrlInv
<1>7. QED
  BY <1>1, <1>2, <1>3, <1>4, <1>5, <1>6 DEF ImageNext

\* The bitmap a run draws was picked.
LEMMA EncodingStep ==
    ASSUME ImageInv, [ImageNext]_imageVars
    PROVE  encoding' \in [DOMAIN encoding' -> [image : 0 .. picks', done : Nat]]
<1> DEFINE E == [image : 0 .. picks, done : Nat]
           F == [image : 0 .. picks', done : Nat]
<1>1. /\ encoding \in [DOMAIN encoding -> E]
      /\ picks \in Nat /\ image \in 0 .. picks
  BY ImageAssumption DEF ImageInv, RunsApart, ImageTypeOK
<1>2. picks' \in {picks, picks + 1}
  BY DEF ImageNext, imageVars, PickFile, Decoded, StartRun, ContinueRun, LeaveTool
<1>3. \A e \in E : e \in F
  BY <1>1, <1>2
<1>4. \A r \in DOMAIN encoding : encoding[r] \in F
  BY <1>1, <1>3
<1>5. [image |-> image, done |-> 0] \in F
  BY <1>1, <1>2
<1>6. ASSUME NEW run, Finished(run)
      PROVE  encoding' \in [DOMAIN encoding' -> F]
  BY <1>4, <1>6 DEF Finished
<1> HIDE DEF F
<1>7. ASSUME UNCHANGED encoding
      PROVE  encoding' \in [DOMAIN encoding' -> F]
  BY <1>1, <1>4, <1>7
<1>8. ASSUME StartRun
      PROVE  encoding' \in [DOMAIN encoding' -> F]
  <2> DEFINE new == [image |-> image, done |-> 0]
  <2>0. new \in F
    BY <1>5
  <2> HIDE DEF new
  <2>1. CASE encoding' = [r \in DOMAIN encoding \cup {runs + 1} |->
                            IF r = runs + 1 THEN new ELSE encoding[r]]
    BY <1>4, <2>0, <2>1
  <2>2. QED
    BY <1>6, <1>7, <1>8, <2>1 DEF StartRun, GiveUp, new
<1>9. ASSUME NEW run \in DOMAIN encoding, ContinueRun(run)
      PROVE  encoding' \in [DOMAIN encoding' -> F]
  <2>1. CASE NextPart(run)
    <3>1. encoding[run].done + 1 \in Nat
      BY <1>1
    <3> DEFINE new == [encoding[run] EXCEPT !.done = encoding[run].done + 1]
    <3>2. new \in F
      BY <1>4, <3>1 DEF F
    <3>3. encoding' = [encoding EXCEPT ![run] = new]
      BY <2>1 DEF NextPart
    <3> HIDE DEF new
    <3>4. encoding \in [DOMAIN encoding -> F]
      BY <1>1, <1>4
    <3>5. encoding' \in [DOMAIN encoding -> F] /\ DOMAIN encoding' = DOMAIN encoding
      BY <3>2, <3>3, <3>4
    <3>6. QED
      BY <3>5
  <2>2. QED
    BY <1>6, <1>9, <2>1 DEF ContinueRun, GiveUp, ShowRun
<1>10. QED
  <2>1. encoding' \in [DOMAIN encoding' -> F]
    BY <1>7, <1>8, <1>9 DEF ImageNext, imageVars, PickFile, Decoded, LeaveTool
  <2>2. QED
    BY <2>1 DEF F

LEMMA ImageStepInv == ImageInv /\ [ImageNext]_imageVars => ImageInv'
<1> SUFFICES ASSUME ImageInv, [ImageNext]_imageVars
             PROVE  ImageInv'
  OBVIOUS
<1>1. UrlInv
  BY UrlsAreAlive DEF ImageInv, ImageTypeOK, RunsApart, UrlInv
<1>2. BitmapInv' /\ UrlInv'
  BY <1>1, BitmapStep, UrlStep DEF ImageInv, RunsApart
<1>3. encoding' \in [DOMAIN encoding' -> [image : 0 .. picks', done : Nat]]
  BY EncodingStep
<1>4. opened' \in BOOLEAN
  BY Zenon
  DEF ImageInv, ImageTypeOK, ImageNext, imageVars, PickFile, Decoded, StartRun,
      ContinueRun, LeaveTool
<1>5. UrlsAreShownOrRevoked'
  <2>1. CASE opened'
    BY <1>2, <2>1, UrlsAreAlive, PTL DEF UrlInv, BitmapInv, BitmapsApart
  <2>2. CASE ~opened'
    BY <2>2 DEF UrlsAreShownOrRevoked
  <2>3. QED
    BY <1>4, <2>1, <2>2
<1>6. ImageTypeOK'
  BY <1>2, <1>3, <1>4 DEF ImageTypeOK, UrlInv, BitmapInv
<1>7. RunsApart' /\ BitmapsApart'
  BY <1>2, <1>3 DEF RunsApart, UrlInv, BitmapInv
<1>8. QED
  BY <1>5, <1>6, <1>7 DEF ImageInv

\* The image tools lose no object URL and show no dead one, however picks,
\* decoding, runs, failures and leaving overlap; the bitmap held is open.
THEOREM ImageUrlsAreKept == ImageSpec => [](ImageTypeOK /\ UrlsAreShownOrRevoked)
<1>1. ImageInv => ImageTypeOK /\ UrlsAreShownOrRevoked
  BY DEF ImageInv
<1>2. QED
  BY ImageInitInv, ImageStepInv, <1>1, PTL DEF ImageSpec

-----------------------------------------------------------------------------
(***************************************************************************)
(* The list of issues and the AI panel.                                    *)
(***************************************************************************)

\* While the list says it is loading, the answer it waits for is under way and
\* was asked for with the filters that are picked.
LoadingIsAwaited ==
    Loading => current \in unanswered /\ requests[current] = filters

IssuesInv ==
    /\ IssuesTypeOK
    /\ listOpen => current # 0 /\ requests[current] = filters
    /\ ~listOpen => current = 0
    /\ LoadingIsAwaited

\* A run on the screen is one the API made, and one that has not ended is
\* followed until the polls are used up.
ShownRunIsFollowed ==
    /\ shown # 0 => state \in RunStates /\ store[shown] # "none"
    /\ shown # 0 /\ state \notin Terminal /\ attempt < MaxPolls
         => phase \in {"timer", "polling"}

KeysInOrder ==
    /\ \E n \in 0 .. MaxSubmits : \A k \in Keys : k <= n <=> k \in Submitted
    /\ \A k \in onTheWay : store[k] = "none"
    /\ \A k \in Keys \ Submitted : store[k] = "none"

\* What the panel waits for, and what may have been answered to that.
PanelWaits ==
    /\ phase = "creating" =>
         /\ shown = 0 \/ state \in Terminal
         /\ LastKey # 0
         /\ answer \in RunStates => store[LastKey] # "none"
    /\ phase \in {"timer", "polling"} =>
         shown # 0 /\ attempt < MaxPolls /\ state \notin Terminal
    /\ phase = "polling" => answer # "refused"
    /\ phase \in {"timer", "rest"} => answer = "none"

PanelInv == PanelTypeOK /\ KeysInOrder /\ PanelWaits /\ ShownRunIsFollowed

LEMMA IssuesInitInv == IssuesInit => IssuesInv
<1>1. IssuesInit => listOpen \in BOOLEAN /\ issuesError \in BOOLEAN /\ ~listOpen
  BY DEF IssuesInit
<1>2. QED
  BY <1>1, IssuesAssumption
  DEF IssuesInit, IssuesInv, IssuesTypeOK, LoadingIsAwaited, Loading

LEMMA IssuesStepInv == IssuesInv /\ [IssuesNext]_issuesVars => IssuesInv'
<1> SUFFICES ASSUME IssuesInv, [IssuesNext]_issuesVars
             PROVE  IssuesInv'
  OBVIOUS
<1>0. listOpen' \in BOOLEAN /\ issuesError' \in BOOLEAN
  BY ZenonT(60)
  DEF IssuesInv, IssuesTypeOK, IssuesNext, issuesVars, OpenIssues, PickFilters,
      IssuesAnswered
<1>1. ASSUME NEW f \in Filters, Request(f), filters' = f, listOpen',
             UNCHANGED <<requestKey, issuesError>>
      PROVE  IssuesInv'
  <2>1. /\ current' = current + 1 /\ current + 1 \in 1 .. MaxChoices
        /\ requests' \in [1 .. MaxChoices -> Filters \cup {NoKey}]
        /\ requests'[current'] = f
        /\ unanswered' \subseteq 1 .. current'
        /\ current' \in unanswered'
    BY <1>1, IssuesAssumption DEF Request, IssuesInv, IssuesTypeOK
  <2>2. current' \in 0 .. MaxChoices /\ current' # 0
    BY <2>1, IssuesAssumption DEF IssuesInv, IssuesTypeOK
  <2>3. IssuesTypeOK'
    BY <1>0, <1>1, <2>1, <2>2 DEF IssuesInv, IssuesTypeOK
  <2>4. QED
    BY <1>1, <2>1, <2>2, <2>3 DEF IssuesInv, LoadingIsAwaited
<1>2. CASE OpenIssues
  BY <1>1, <1>2 DEF OpenIssues, IssuesInv, IssuesTypeOK
<1>3. ASSUME NEW f \in Filters, PickFilters(f)
      PROVE  IssuesInv'
  BY <1>1, <1>3 DEF PickFilters
<1>4. ASSUME NEW n \in 1 .. MaxChoices, NEW bad \in BOOLEAN, IssuesAnswered(n, bad)
      PROVE  IssuesInv'
  <2>1. /\ UNCHANGED <<listOpen, filters, requests, current>>
        /\ unanswered' = unanswered \ {n} /\ n \in unanswered
        /\ n = current => requestKey' = requests[n]
        /\ n # current => requestKey' = requestKey
    BY <1>4 DEF IssuesAnswered, StillActive
  <2>2. requestKey' \in Filters \cup {NoKey}
    BY <2>1 DEF IssuesInv, IssuesTypeOK
  <2>3. IssuesTypeOK'
    BY <1>0, <2>1, <2>2 DEF IssuesInv, IssuesTypeOK
  <2>4. LoadingIsAwaited'
    BY <2>1 DEF IssuesInv, LoadingIsAwaited, Loading
  <2>5. QED
    BY <2>1, <2>3, <2>4 DEF IssuesInv
<1>5. CASE UNCHANGED issuesVars
  BY <1>5 DEF issuesVars, IssuesInv, IssuesTypeOK, LoadingIsAwaited, Loading
<1>6. QED
  BY <1>2, <1>3, <1>4, <1>5 DEF IssuesNext

\* The list of issues never says it is loading without the answer to the
\* filters picked last being under way: the safety half of FiltersAreAnswered.
THEOREM LoadingListsAreAwaited == IssuesSpec => [](IssuesTypeOK /\ LoadingIsAwaited)
<1>1. IssuesInv => IssuesTypeOK /\ LoadingIsAwaited
  BY DEF IssuesInv
<1>2. QED
  BY IssuesInitInv, IssuesStepInv, <1>1, PTL DEF IssuesSpec

-----------------------------------------------------------------------------
LEMMA LastIs ==
    ASSUME KeysInOrder
    PROVE  /\ LastKey \in 0 .. MaxSubmits
           /\ \A k \in Keys : k <= LastKey <=> k \in Submitted
BY DEF KeysInOrder, LastKey

LEMMA PanelInitInv == PanelInit => PanelInv
<1> SUFFICES ASSUME PanelInit PROVE PanelInv
  OBVIOUS
<1> USE PanelAssumption DEF PanelInit
<1>1. error \in BOOLEAN
  OBVIOUS
<1>2. Submitted = {}
  BY DEF Submitted
<1>3. PanelTypeOK
  BY <1>1, <1>2 DEF PanelTypeOK
<1>4. KeysInOrder
  <2>1. \A k \in Keys : k <= 0 <=> k \in Submitted
    BY <1>2 DEF Keys
  <2>2. 0 \in 0 .. MaxSubmits
    OBVIOUS
  <2>3. QED
    BY <1>2, <2>1, <2>2 DEF KeysInOrder
<1>5. PanelWaits /\ ShownRunIsFollowed
  BY DEF PanelWaits, ShownRunIsFollowed
<1>6. QED
  BY <1>3, <1>4, <1>5 DEF PanelInv

\* Keys are the same when the same was asked for.
LEMMA KeysStay ==
    ASSUME UNCHANGED asked
    PROVE  Submitted' = Submitted /\ LastKey' = LastKey
BY DEF Submitted, LastKey, Keys

LEMMA PanelBoolean == PanelInv /\ [PanelNext]_aiVars => error' \in BOOLEAN
BY ZenonT(60)
DEF PanelInv, PanelTypeOK, PanelNext, aiVars, panelVars, OpenPanel, ClosePanel,
    Fresh, Submit, CreateAnswered, CreateLost, TimerFires, PollAnswered,
    PollLost, ApiCreate, ApiGet, RunGoesOn

\* What a run that is shown sets going.
LEMMA ShowInv ==
    ASSUME PanelInv, NEW k \in Keys, NEW s \in RunStates, NEW n \in 0 .. MaxPolls,
           Show(k, s, n), store[k] # "none", error' \in BOOLEAN,
           UNCHANGED <<panel, asked, onTheWay, lost, store>>
    PROVE  PanelInv'
<1>1. /\ shown' = k /\ k # 0 /\ state' = s /\ attempt' = n /\ answer' = "none"
      /\ phase' \in {"timer", "rest"}
      /\ phase' = "timer" <=> s \notin Terminal /\ n < MaxPolls
  BY DEF Show, Follow, ShouldPoll, Keys
<1>2. Submitted' = Submitted
  BY KeysStay
<1>3. PanelTypeOK'
  BY <1>1, <1>2 DEF PanelInv, PanelTypeOK, Keys
<1>4. KeysInOrder'
  BY <1>2 DEF PanelInv, KeysInOrder
<1>5. PanelWaits' /\ ShownRunIsFollowed'
  BY <1>1 DEF PanelWaits, ShownRunIsFollowed
<1>6. QED
  BY <1>3, <1>4, <1>5 DEF PanelInv

LEMMA PanelStepInv == PanelInv /\ [PanelNext]_aiVars => PanelInv'
<1> SUFFICES ASSUME PanelInv, [PanelNext]_aiVars
             PROVE  PanelInv'
  OBVIOUS
<1>a. error' \in BOOLEAN
  BY PanelBoolean
<1>b. /\ LastKey \in 0 .. MaxSubmits
      /\ \A k \in Keys : k <= LastKey <=> k \in Submitted
  BY LastIs DEF PanelInv
<1> USE <1>a, PanelAssumption
<1>1. CASE OpenPanel \/ ClosePanel
  <2>1. Submitted' = Submitted
    BY <1>1, KeysStay DEF OpenPanel, ClosePanel, Fresh
  <2>2. /\ panel' \in {"closed", "runner", "copilot"} /\ shown' = 0 /\ state' = "none"
        /\ attempt' = 0 /\ phase' = "rest" /\ answer' = "none"
        /\ UNCHANGED <<asked, onTheWay, lost, store>>
    BY <1>1 DEF OpenPanel, ClosePanel, Fresh
  <2>3. QED
    BY <2>1, <2>2
    DEF PanelInv, PanelTypeOK, KeysInOrder, PanelWaits, ShownRunIsFollowed
<1>2. ASSUME NEW input \in Inputs, Submit(input)
      PROVE  PanelInv'
  <2>1. /\ LastKey < MaxSubmits /\ LastKey + 1 \in Keys
        /\ asked' = [asked EXCEPT ![LastKey + 1] = input]
        /\ onTheWay' = onTheWay \cup {LastKey + 1}
        /\ attempt' = 0 /\ phase' = "creating" /\ answer' = "none"
        /\ UNCHANGED <<panel, lost, store>>
    BY <1>2, <1>b DEF Submit, Keys
  <2>2. /\ (shown' = 0 /\ state' = "none") \/ UNCHANGED <<shown, state>>
        /\ shown' = 0 \/ state' \in Terminal
    BY <1>2 DEF Submit, MaySubmit
  <2>3. asked' \in [Keys -> Inputs \cup {"nothing"}] /\ input # "nothing"
    BY <2>1 DEF PanelInv, PanelTypeOK
  <2>4. \A k \in Keys : k \in Submitted' <=> k \in Submitted \/ k = LastKey + 1
    BY <2>1, <2>3 DEF Submitted, PanelInv, PanelTypeOK
  <2>5. /\ LastKey + 1 \in 0 .. MaxSubmits
        /\ \A k \in Keys : k <= LastKey + 1 <=> k \in Submitted'
    BY <1>b, <2>1, <2>4 DEF Keys
  <2>6. LastKey + 1 \notin Submitted
    BY <1>b, <2>1 DEF Keys
  <2>7. KeysInOrder'
    <3>1. \E n \in 0 .. MaxSubmits : \A k \in Keys : k <= n <=> k \in Submitted'
      BY <2>5
    <3>2. QED
      BY <2>1, <2>4, <2>6, <3>1 DEF PanelInv, KeysInOrder
  <2>8. LastKey' \in 0 .. MaxSubmits /\ LastKey' # 0
    <3>1. /\ LastKey' \in 0 .. MaxSubmits
          /\ \A k \in Keys : k <= LastKey' <=> k \in Submitted'
      BY <2>5 DEF LastKey
    <3>2. LastKey + 1 <= LastKey'
      BY <2>1, <2>4, <3>1
    <3>3. QED
      BY <1>b, <3>1, <3>2
  <2>9. PanelTypeOK'
    <3>1. onTheWay' \subseteq Submitted' /\ lost' \subseteq Submitted'
      BY <2>1, <2>4 DEF PanelInv, PanelTypeOK, Submitted
    <3>2. QED
      BY <2>1, <2>2, <2>3, <3>1 DEF PanelInv, PanelTypeOK
  <2>10. PanelWaits' /\ ShownRunIsFollowed'
    <3>1. answer' \notin RunStates
      BY <2>1 DEF RunStates, Terminal
    <3>2. PanelWaits'
      BY <2>1, <2>2, <2>8, <3>1 DEF PanelWaits
    <3>3. ShownRunIsFollowed'
      BY <2>1, <2>2 DEF PanelInv, ShownRunIsFollowed
    <3>4. QED
      BY <3>2, <3>3
  <2>11. QED
    BY <2>7, <2>9, <2>10 DEF PanelInv
<1>3. CASE CreateAnswered
  <2>1. CASE answer = "refused"
    <3>1. /\ phase = "creating" /\ phase' = "rest" /\ answer' = "none"
          /\ UNCHANGED <<panel, shown, state, attempt, asked, onTheWay, lost, store>>
      BY <1>3, <2>1 DEF CreateAnswered
    <3>2. Submitted' = Submitted
      BY <3>1, KeysStay
    <3>3. QED
      BY <3>1, <3>2
      DEF PanelInv, PanelTypeOK, KeysInOrder, PanelWaits, ShownRunIsFollowed
  <2>2. CASE answer # "refused"
    <3>1. /\ Show(LastKey, answer, attempt)
          /\ answer \in RunStates /\ LastKey \in Keys /\ attempt \in 0 .. MaxPolls
          /\ store[LastKey] # "none"
          /\ UNCHANGED <<panel, asked, onTheWay, lost, store>>
      BY <1>3, <1>b, <2>2 DEF CreateAnswered, PanelInv, PanelTypeOK, PanelWaits, Keys
    <3>2. QED
      BY <3>1, ShowInv
  <2>3. QED
    BY <2>1, <2>2
<1>4. CASE CreateLost
  <2>1. /\ phase = "creating" /\ phase' = "rest" /\ answer' = "none"
        /\ lost' = lost \cup {LastKey}
        /\ UNCHANGED <<panel, shown, state, attempt, asked, onTheWay, store>>
    BY <1>4 DEF CreateLost
  <2>2. Submitted' = Submitted
    BY <2>1, KeysStay
  <2>3. LastKey \in Submitted
    BY <1>b, <2>1 DEF PanelInv, PanelWaits, Keys
  <2>4. QED
    BY <2>1, <2>2, <2>3
    DEF PanelInv, PanelTypeOK, KeysInOrder, PanelWaits, ShownRunIsFollowed
<1>5. CASE TimerFires
  <2>1. /\ phase = "timer" /\ phase' = "polling"
        /\ UNCHANGED <<panel, shown, state, attempt, answer, asked, onTheWay,
                      lost, store>>
    BY <1>5 DEF TimerFires
  <2>2. Submitted' = Submitted
    BY <2>1, KeysStay
  <2>3. QED
    BY <2>1, <2>2
    DEF PanelInv, PanelTypeOK, KeysInOrder, PanelWaits, ShownRunIsFollowed
<1>6. CASE PollAnswered
  <2>1. /\ Show(shown, answer, attempt + 1)
        /\ answer \in RunStates /\ shown \in Keys /\ attempt + 1 \in 0 .. MaxPolls
        /\ store[shown] # "none"
        /\ UNCHANGED <<panel, asked, onTheWay, lost, store>>
    BY <1>6
    DEF PollAnswered, PanelInv, PanelTypeOK, PanelWaits, ShownRunIsFollowed, Keys
  <2>2. QED
    BY <2>1, ShowInv
<1>7. CASE PollLost
  <2>1. /\ phase = "polling" /\ answer' = "none" /\ attempt' = attempt + 1
        /\ Follow(shown, state, attempt + 1)
        /\ UNCHANGED <<panel, shown, state, asked, onTheWay, lost, store>>
    BY <1>7 DEF PollLost, PollCounted
  <2>2. /\ shown # 0 /\ state \notin Terminal /\ attempt + 1 \in 0 .. MaxPolls
        /\ attempt \in Nat
    BY <2>1 DEF PanelInv, PanelTypeOK, PanelWaits
  <2>3. phase' = IF attempt + 1 < MaxPolls THEN "timer" ELSE "rest"
    BY <2>1, <2>2 DEF Follow, ShouldPoll
  <2>4. Submitted' = Submitted
    BY <2>1, KeysStay
  <2>5. QED
    BY <2>1, <2>2, <2>3, <2>4
    DEF PanelInv, PanelTypeOK, KeysInOrder, PanelWaits, ShownRunIsFollowed
<1>8. ASSUME NEW k \in Keys, ApiCreate(k)
      PROVE  PanelInv'
  <2>1. /\ k \in onTheWay /\ onTheWay' = onTheWay \ {k}
        /\ UNCHANGED <<panel, shown, state, attempt, phase, asked, lost>>
        /\ store' \in {store, [store EXCEPT ![k] = "pending"]}
        /\ answer' \in {answer, "pending", "refused"}
        /\ answer' = answer \/ phase = "creating"
        /\ answer' = answer \/ answer' = "refused"
              \/ (k = LastKey /\ store' = [store EXCEPT ![k] = "pending"])
    BY <1>8 DEF ApiCreate
  <2>2. Submitted' = Submitted /\ LastKey' = LastKey /\ k \in Submitted
    BY <2>1, KeysStay DEF PanelInv, PanelTypeOK
  <2>3. /\ store' \in [Keys -> RunStates \cup {"none"}]
        /\ \A i \in Keys \ {k} : store'[i] = store[i]
        /\ store'[k] = "pending" \/ store'[k] = store[k]
        /\ \A i \in Keys : store[i] # "none" => store'[i] # "none"
    BY <2>1 DEF PanelInv, PanelTypeOK, RunStates
  <2>4. PanelTypeOK'
    BY <2>1, <2>2, <2>3 DEF PanelInv, PanelTypeOK, RunStates
  <2>5. KeysInOrder'
    BY <2>1, <2>2, <2>3 DEF PanelInv, PanelTypeOK, KeysInOrder, Submitted
  <2>6. PanelWaits'
    <3>1. phase = "creating" => LastKey \in Keys
      BY <1>b DEF PanelInv, PanelWaits, Keys
    <3>2. answer' = answer \/ phase = "creating"
      BY <2>1
    <3>3. phase = "creating" /\ answer' \in RunStates => store'[LastKey] # "none"
      BY <2>1, <2>3, <3>1 DEF PanelInv, PanelTypeOK, PanelWaits, RunStates, Terminal
    <3>4. QED
      BY <2>1, <2>2, <3>2, <3>3 DEF PanelInv, PanelWaits
  <2>7. ShownRunIsFollowed'
    BY <2>1, <2>3 DEF PanelInv, PanelTypeOK, ShownRunIsFollowed, Keys
  <2>8. QED
    BY <2>4, <2>5, <2>6, <2>7 DEF PanelInv
<1>9. CASE ApiGet
  <2>1. /\ phase = "polling" /\ answer' = store[shown]
        /\ UNCHANGED <<panel, shown, state, attempt, phase, asked, onTheWay, lost, store>>
    BY <1>9 DEF ApiGet
  <2>2. store[shown] \in RunStates
    BY <2>1 DEF PanelInv, PanelTypeOK, PanelWaits, ShownRunIsFollowed, Keys
  <2>3. store[shown] # "refused"
    BY <2>2 DEF RunStates, Terminal
  <2>4. Submitted' = Submitted
    BY <2>1, KeysStay
  <2>5. QED
    BY <2>1, <2>2, <2>3, <2>4
    DEF PanelInv, PanelTypeOK, KeysInOrder, PanelWaits, ShownRunIsFollowed
<1>10. ASSUME NEW k \in Keys, RunGoesOn(k)
       PROVE  PanelInv'
  <2>1. /\ store[k] # "none"
        /\ \E s \in RunStates : s # "none" /\ store' = [store EXCEPT ![k] = s]
        /\ UNCHANGED <<panel, shown, state, attempt, phase, answer, asked,
                      onTheWay, lost>>
    BY <1>10 DEF RunGoesOn, RunStates, Terminal, panelVars
  <2>2. Submitted' = Submitted /\ LastKey' = LastKey
    BY <2>1, KeysStay
  <2>3. /\ store' \in [Keys -> RunStates \cup {"none"}]
        /\ \A i \in Keys : store[i] = "none" <=> store'[i] = "none"
    BY <2>1 DEF PanelInv, PanelTypeOK
  <2>4. PanelTypeOK'
    BY <2>1, <2>2, <2>3 DEF PanelInv, PanelTypeOK
  <2>5. KeysInOrder'
    BY <2>1, <2>2, <2>3 DEF PanelInv, PanelTypeOK, KeysInOrder, Submitted
  <2>6. PanelWaits' /\ ShownRunIsFollowed'
    BY <1>b, <2>1, <2>2, <2>3
    DEF PanelInv, PanelTypeOK, PanelWaits, ShownRunIsFollowed, Keys
  <2>7. QED
    BY <2>4, <2>5, <2>6 DEF PanelInv
<1>11. CASE UNCHANGED aiVars
  <2>1. Submitted' = Submitted /\ LastKey' = LastKey
    BY <1>11, KeysStay DEF aiVars
  <2>2. QED
    BY <1>11, <2>1
    DEF aiVars, panelVars, PanelInv, PanelTypeOK, KeysInOrder, PanelWaits,
        ShownRunIsFollowed
<1>12. QED
  BY <1>1, <1>2, <1>3, <1>4, <1>5, <1>6, <1>7, <1>8, <1>9, <1>10, <1>11 DEF PanelNext

\* The AI panels show no run the API did not make, and do not let go of one
\* that goes on before the polls are used up, however many of them fail: the
\* safety half of RunSettles.
THEOREM ShownRunsAreFollowed == PanelSpec => [](PanelTypeOK /\ ShownRunIsFollowed)
<1>1. PanelInv => PanelTypeOK /\ ShownRunIsFollowed
  BY DEF PanelInv
<1>2. QED
  BY PanelInitInv, PanelStepInv, <1>1, PTL DEF PanelSpec

-----------------------------------------------------------------------------
(***************************************************************************)
(* The pages put together.  A step of one page leaves the variables of the *)
(* others alone, and so is a step or a stutter of each.                    *)
(***************************************************************************)
PagesInv ==
    /\ page \in Pages
    /\ PanelInv
    /\ AuditInv
    /\ CrawlInv
    /\ IssuesInv
    /\ ShellInv
    /\ LoadingShellIsAwaited
    /\ PreviewInv
    /\ ToolInv
    /\ ImageInv

LEMMA PagesInitInv == PagesInit => PagesInv
<1> SUFFICES ASSUME PagesInit PROVE PagesInv
  OBVIOUS
<1>1. page \in Pages /\ PanelInit /\ ProjectInit /\ IssuesInit /\ ShellInit
      /\ PreviewInit /\ ToolInit /\ ImageInit
  BY DEF PagesInit
<1>2. LoadingShellIsAwaited
  BY <1>1 DEF ShellInit, LoadingShellIsAwaited, ShellLoading
<1>3. QED
  BY <1>1, <1>2, PanelInitInv, AuditInitInv, CrawlInitInv, IssuesInitInv,
     ShellInitInv, PreviewInitInv, ToolInitInv, ImageInitInv DEF PagesInv

LEMMA PagesStepOfEach ==
    ASSUME [PagesNext]_pagesVars
    PROVE  /\ page' = page
           /\ [PanelNext]_aiVars
           /\ [ProjectNext]_projectVars
           /\ [IssuesNext]_issuesVars
           /\ [ShellNext]_shellVars
           /\ [PreviewNext]_previewVars
           /\ [ToolNext]_toolVars
           /\ [ImageNext]_imageVars
<1>1. CASE VisitAIPanel
  BY <1>1 DEF VisitAIPanel
<1>2. CASE VisitProject
  BY <1>2 DEF VisitProject
<1>3. CASE VisitIssues
  BY <1>3 DEF VisitIssues
<1>4. CASE VisitShell
  BY <1>4 DEF VisitShell
<1>5. CASE VisitPreview
  BY <1>5 DEF VisitPreview
<1>6. CASE VisitTool
  BY <1>6 DEF VisitTool
<1>7. CASE VisitImageTool
  BY <1>7 DEF VisitImageTool
<1>8. CASE UNCHANGED pagesVars
  BY <1>8 DEF pagesVars
<1>9. QED
  BY <1>1, <1>2, <1>3, <1>4, <1>5, <1>6, <1>7, <1>8 DEF PagesNext

LEMMA PagesStepInv == PagesInv /\ [PagesNext]_pagesVars => PagesInv'
<1> SUFFICES ASSUME PagesInv, [PagesNext]_pagesVars PROVE PagesInv'
  OBVIOUS
<1>1. /\ [PanelNext]_aiVars /\ [ProjectNext]_projectVars /\ [IssuesNext]_issuesVars
      /\ [ShellNext]_shellVars /\ [PreviewNext]_previewVars /\ [ToolNext]_toolVars
      /\ [ImageNext]_imageVars
  BY PagesStepOfEach
<1>2. page' \in Pages
  BY PagesStepOfEach DEF PagesInv, Pages
<1>3. PanelInv' /\ AuditInv' /\ CrawlInv' /\ IssuesInv'
  BY <1>1, PanelStepInv, AuditStepInv, CrawlStepInv, IssuesStepInv DEF PagesInv
<1>4. ShellInv' /\ LoadingShellIsAwaited'
  BY <1>1, ShellStepInv, AwaitedStep DEF PagesInv
<1>5. PreviewInv' /\ ToolInv' /\ ImageInv'
  BY <1>1, PreviewStepInv, ToolStepInv, ImageStepInv DEF PagesInv
<1>6. QED
  BY <1>2, <1>3, <1>4, <1>5 DEF PagesInv

\* On any visit to the site each page's state has its type: whatever page it is
\* and however late its answers come, no page disturbs what another one holds.
THEOREM PagesAreTyped == PagesSpec => []WebTypeOK
<1>1. PagesInv => WebTypeOK
  <2> SUFFICES ASSUME PagesInv PROVE WebTypeOK
    OBVIOUS
  <2>1. page \in Pages /\ PanelTypeOK /\ IssuesTypeOK /\ ShellTypeOK
    BY DEF PagesInv, PanelInv, IssuesInv, ShellInv
  <2>2. ProjectTypeOK
    BY DEF PagesInv, AuditInv, CrawlInv, CrawlTypeOK, SpeedFollowsLatest, ProjectTypeOK
  <2>3. PreviewTypeOK /\ ToolTypeOK /\ ImageTypeOK
    BY DEF PagesInv, PreviewInv, ToolInv, ImageInv
  <2>4. QED
    BY <2>1, <2>2, <2>3 DEF WebTypeOK
<1>2. QED
  BY PagesInitInv, PagesStepInv, <1>1, PTL DEF PagesSpec

\* What each page promises by itself it keeps in the site: the page speed of the
\* audit beside it, restored projects on their list, no worker without its timer,
\* the outcome of the last submit, no object URL lost, and for every answer that
\* a page says it waits for one that is under way.
THEOREM PagesKeepPromises ==
    PagesSpec => [](/\ PageSpeedOfLatestAudit
                    /\ RestoredIsShown
                    /\ NoOrphanWorker
                    /\ FormShowsLastOutcome
                    /\ UrlsAreShownOrRevoked
                    /\ ShownRunIsFollowed
                    /\ ShownCrawlIsFollowed
                    /\ LoadingIsAwaited
                    /\ LoadingShellIsAwaited)
<1>1. PagesInv => /\ PageSpeedOfLatestAudit
                  /\ RestoredIsShown
                  /\ NoOrphanWorker
                  /\ FormShowsLastOutcome
                  /\ UrlsAreShownOrRevoked
                  /\ ShownRunIsFollowed
                  /\ ShownCrawlIsFollowed
                  /\ LoadingIsAwaited
                  /\ LoadingShellIsAwaited
  BY OutcomeParts
  DEF PagesInv, AuditInv, ShellInv, PreviewInv, ImageInv, PanelInv, CrawlInv, IssuesInv
<1>2. QED
  BY PagesInitInv, PagesStepInv, <1>1, PTL DEF PagesSpec
=============================================================================
