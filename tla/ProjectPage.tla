----------------------------- MODULE ProjectPage -----------------------------
(***************************************************************************)
(* The page of a project: account-project-detail.tsx in src/apps/web/src/  *)
(* features/account/, with its requests (account-workspace-client.ts) and  *)
(* the proxy they pass (account-workspace-proxy.ts).  Left out: renaming,  *)
(* and archiving, which leaves the page.                                   *)
(*                                                                         *)
(* Audits and crawl jobs of the project are numbered in the order the API  *)
(* made them.  A state update, the render it causes and the effects of     *)
(* that render are one step.  An effect's "active" flag is modelled by     *)
(* which request the page still listens to.                                *)
(***************************************************************************)
EXTENDS Naturals

CONSTANTS
    MaxAudits,   \* bound of the model: audits ever saved
    MaxJobs      \* bound of the model: crawl jobs ever made

ASSUME ProjectPageAssumption == MaxAudits \in Nat /\ MaxJobs \in Nat

VARIABLES
    detail,         \* "closed", "loading", "failed" or "ready"
    latestAudit,    \* the first of the saved audits shown, 0 for none
    pageSpeed,      \* the audit whose PageSpeed is shown, 0 for none
    speedWanted,    \* the audit whose PageSpeed the effect waits for, or 0
    speedRequests,  \* requests for a PageSpeed under way
    auditRequest,   \* an audit asked for: how far it is, and which it became
    crawlShown,     \* the crawl job shown: [job, state], job 0 for none
    crawlError,     \* a crawl error is on the screen
    mount,          \* the first load: how far it is, and the job it goes on to
    startRequest,   \* a crawl asked for: how far it is, and the job it became
    pollTimer,      \* the timer of the next poll is set
    polls,          \* polls under way: [job, said]
    audits,         \* audits the API has saved
    crawls          \* crawls[j]: the state of the j-th job

auditVars == <<latestAudit, pageSpeed, speedWanted, speedRequests, auditRequest>>
crawlVars == <<crawlShown, crawlError, mount, startRequest, pollTimer, polls>>
projectVars == <<detail, auditVars, crawlVars, audits, crawls>>

Audits == 1 .. MaxAudits
Jobs == 1 .. MaxJobs
JobStates == {"queued", "running", "succeeded", "failed"}
Following == {"queued", "running"}
NoRequest == [at |-> "none", is |-> 0]
Asked == [at |-> "asked", is |-> 0]
NoJob == [job |-> 0, state |-> "none"]
Made == {j \in Jobs : crawls[j] # "none"}
LastJob == CHOOSE j \in 0 .. MaxJobs : \A i \in Jobs : i <= j <=> i \in Made

ProjectInit ==
    /\ detail = "closed"
    /\ latestAudit = 0 /\ pageSpeed = 0 /\ speedWanted = 0 /\ speedRequests = {}
    /\ auditRequest = NoRequest
    /\ crawlShown = NoJob /\ crawlError = FALSE /\ mount = NoRequest
    /\ startRequest = NoRequest /\ pollTimer = FALSE /\ polls = {}
    /\ audits \in 0 .. MaxAudits
    /\ crawls \in {[j \in Jobs |-> IF j <= n THEN "succeeded" ELSE "none"] :
                     n \in 0 .. MaxJobs}

Blank ==
    /\ latestAudit' = 0 /\ pageSpeed' = 0 /\ speedWanted' = 0 /\ speedRequests' = {}
    /\ auditRequest' = NoRequest
    /\ crawlShown' = NoJob /\ crawlError' = FALSE
    /\ startRequest' = NoRequest /\ pollTimer' = FALSE /\ polls' = {}
    /\ UNCHANGED <<audits, crawls>>

OpenProject ==
    /\ detail = "closed"
    /\ detail' = "loading"
    /\ mount' = Asked
    /\ Blank

\* Unmount.  What is still under way updates a page that is gone.
CloseProject ==
    /\ detail # "closed"
    /\ detail' = "closed"
    /\ mount' = NoRequest
    /\ Blank

-----------------------------------------------------------------------------
\* The PageSpeed effect: it runs when the list of saved audits changes, and
\* asks for the PageSpeed of the first one.
FollowSpeed(n) ==
    IF n = 0 THEN speedWanted' = 0 /\ UNCHANGED speedRequests
    ELSE speedWanted' = n /\ speedRequests' = speedRequests \cup {n}

\* getAccountProject.  The list may be older than what the API has by now.
DetailLoaded ==
    /\ detail = "loading"
    /\ detail' = "ready"
    /\ \E n \in 0 .. audits : latestAudit' = n /\ FollowSpeed(n)
    /\ UNCHANGED <<pageSpeed, auditRequest, crawlVars, audits, crawls>>

DetailFailed ==
    /\ detail = "loading"
    /\ detail' = "failed"
    /\ UNCHANGED <<auditVars, crawlVars, audits, crawls>>

\* The retry button, which is all the page shows then.
Reload ==
    /\ detail = "failed"
    /\ detail' = "loading"
    /\ UNCHANGED <<auditVars, crawlVars, audits, crawls>>

\* Mutant: the answer is used whatever was asked for since.
ListensAlways(a) == TRUE

\* The flag the effect's clean-up resets.
Listens(a) == a = speedWanted

\* getAccountSavedAudit: the audit comes with or without a PageSpeed, or the
\* request fails.
SpeedAnswered(a) ==
    /\ a \in speedRequests
    /\ speedRequests' = speedRequests \ {a}
    /\ IF Listens(a) THEN pageSpeed' \in {a, 0} ELSE UNCHANGED pageSpeed
    /\ UNCHANGED <<detail, latestAudit, speedWanted, auditRequest,
                   crawlVars, audits, crawls>>

\* runAudit: the button is disabled while one runs.
RunAudit ==
    /\ detail = "ready"
    /\ auditRequest = NoRequest
    /\ auditRequest' = Asked
    /\ UNCHANGED <<detail, latestAudit, pageSpeed, speedWanted, speedRequests,
                   crawlVars, audits, crawls>>

ApiSaveAudit ==
    /\ auditRequest = Asked
    /\ audits < MaxAudits
    /\ audits' = audits + 1
    /\ auditRequest' = [at |-> "answered", is |-> audits + 1]
    /\ UNCHANGED <<detail, latestAudit, pageSpeed, speedWanted, speedRequests,
                   crawlVars, crawls>>

AuditShown ==
    /\ auditRequest.at = "answered"
    /\ auditRequest' = NoRequest
    /\ latestAudit' = auditRequest.is
    /\ pageSpeed' \in {auditRequest.is, 0}
    /\ FollowSpeed(auditRequest.is)
    /\ UNCHANGED <<detail, crawlVars, audits, crawls>>

\* The audit is refused or fails, or the proxy gives up after its minute.
AuditLost ==
    /\ auditRequest # NoRequest
    /\ auditRequest' = NoRequest
    /\ UNCHANGED <<detail, latestAudit, pageSpeed, speedWanted, speedRequests,
                   crawlVars, audits, crawls>>

-----------------------------------------------------------------------------
\* The polling effect: an active job sets the timer, any other clears it.
ShowCrawl(j, s) ==
    /\ crawlShown' = [job |-> j, state |-> s]
    /\ pollTimer' = (s \in Following)

\* States job j has been in: what an answer that was late may say.
SaidOf(j) ==
    {s \in JobStates :
        \/ s = crawls[j]
        \/ s = "running" /\ crawls[j] \notin {"queued", "none"}
        \/ s = "queued" /\ crawls[j] # "none"}

\* listAccountCrawls of the first load, then getAccountCrawl of its newest.
MountListed ==
    /\ mount = Asked
    /\ mount' = IF LastJob = 0 THEN NoRequest
                ELSE [at |-> "answered", is |-> LastJob]
    /\ UNCHANGED <<detail, auditVars, crawlShown, crawlError, startRequest,
                   pollTimer, polls, audits, crawls>>

MountShown ==
    /\ mount.at = "answered"
    /\ \E s \in SaidOf(mount.is) : ShowCrawl(mount.is, s)
    /\ mount' = NoRequest
    /\ UNCHANGED <<detail, auditVars, crawlError, startRequest, polls, audits, crawls>>

MountFailed ==
    /\ mount # NoRequest
    /\ mount' = NoRequest
    /\ crawlError' = TRUE
    /\ UNCHANGED <<detail, auditVars, crawlShown, startRequest, pollTimer, polls,
                   audits, crawls>>

\* runCrawl: the button is disabled while a request or the job shown goes on.
StartCrawl ==
    /\ detail = "ready"
    /\ startRequest = NoRequest
    /\ crawlShown.state \notin Following
    /\ startRequest' = Asked
    /\ crawlError' = FALSE
    /\ UNCHANGED <<detail, auditVars, crawlShown, mount, pollTimer, polls,
                   audits, crawls>>

\* create_job of the API: one active job for a project.
ApiStartCrawl ==
    /\ startRequest = Asked
    /\ IF \E j \in Jobs : crawls[j] \in Following
       THEN startRequest' = [at |-> "refused", is |-> 0] /\ UNCHANGED crawls
       ELSE /\ LastJob < MaxJobs
            /\ crawls' = [crawls EXCEPT ![LastJob + 1] = "queued"]
            /\ startRequest' = [at |-> "answered", is |-> LastJob + 1]
    /\ UNCHANGED <<detail, auditVars, crawlShown, crawlError, mount, pollTimer,
                   polls, audits>>

StartAnswered ==
    /\ startRequest.at = "answered"
    /\ startRequest' = NoRequest
    /\ ShowCrawl(startRequest.is, "queued")
    /\ UNCHANGED <<detail, auditVars, crawlError, mount, polls, audits, crawls>>

\* A refusal, or no answer: the job may have been made all the same.
StartFailed ==
    /\ startRequest # NoRequest
    /\ startRequest' = NoRequest
    /\ crawlError' = TRUE
    /\ UNCHANGED <<detail, auditVars, crawlShown, mount, pollTimer, polls,
                   audits, crawls>>

PollFires ==
    /\ pollTimer
    /\ pollTimer' = FALSE
    /\ polls' = polls \cup {[job |-> crawlShown.job, said |-> "nothing"]}
    /\ UNCHANGED <<detail, auditVars, crawlShown, crawlError, mount,
                   startRequest, audits, crawls>>

ApiSaysCrawl(q) ==
    /\ q \in polls
    /\ q.said = "nothing"
    /\ polls' = (polls \ {q}) \cup {[q EXCEPT !.said = crawls[q.job]]}
    /\ UNCHANGED <<detail, auditVars, crawlShown, crawlError, mount,
                   startRequest, pollTimer, audits, crawls>>

\* The answer is shown whatever the page shows by now: there is no flag here.
PollShown(q) ==
    /\ q \in polls
    /\ q.said # "nothing"
    /\ polls' = polls \ {q}
    /\ ShowCrawl(q.job, q.said)
    /\ UNCHANGED <<detail, auditVars, crawlError, mount, startRequest, audits, crawls>>

\* Mutant: the catch of the poll says nothing.
Silent == UNCHANGED crawlError

\* The catch of the poll.
Told == crawlError' = TRUE

\* A poll that fails sets no timer: the page stops following the job.
PollFailed(q) ==
    /\ q \in polls
    /\ polls' = polls \ {q}
    /\ Told
    /\ UNCHANGED <<detail, auditVars, crawlShown, mount, startRequest, pollTimer,
                   audits, crawls>>

\* What module CrawlJobs is about: a job goes on and ends.
JobGoesOn(j) ==
    /\ crawls[j] \in Following
    /\ \/ crawls[j] = "queued" /\ crawls' = [crawls EXCEPT ![j] = "running"]
       \/ crawls[j] = "running"
          /\ \E s \in {"succeeded", "failed"} : crawls' = [crawls EXCEPT ![j] = s]
    /\ UNCHANGED <<detail, auditVars, crawlVars, audits>>

\* What is asked for on another page, or was asked for here and given up
\* before the API came to it.
Elsewhere ==
    /\ \/ /\ audits < MaxAudits
          /\ audits' = audits + 1
          /\ UNCHANGED crawls
       \/ /\ LastJob < MaxJobs
          /\ \A j \in Jobs : crawls[j] \notin Following
          /\ crawls' = [crawls EXCEPT ![LastJob + 1] = "queued"]
          /\ UNCHANGED audits
    /\ UNCHANGED <<detail, auditVars, crawlVars>>

ProjectNext ==
    \/ OpenProject \/ CloseProject
    \/ DetailLoaded \/ DetailFailed \/ Reload
    \/ RunAudit \/ ApiSaveAudit \/ AuditShown \/ AuditLost
    \/ MountListed \/ MountShown \/ MountFailed
    \/ StartCrawl \/ ApiStartCrawl \/ StartAnswered \/ StartFailed
    \/ PollFires
    \/ \E a \in Audits : SpeedAnswered(a)
    \/ \E q \in polls : ApiSaysCrawl(q) \/ PollShown(q) \/ PollFailed(q)
    \/ Elsewhere
    \/ \E j \in Jobs : JobGoesOn(j)

(***************************************************************************)
(* Timers fire, the API answers polls or the proxy gives them up, and a    *)
(* crawl job ends (CrawlJobs has that as a property).                      *)
(***************************************************************************)
ProjectFairness ==
    /\ WF_projectVars(PollFires)
    /\ WF_projectVars(\E q \in polls : ApiSaysCrawl(q))
    /\ WF_projectVars(\E q \in polls : PollShown(q) \/ PollFailed(q))
    /\ \A j \in Jobs : WF_projectVars(JobGoesOn(j))

ProjectSpec == ProjectInit /\ [][ProjectNext]_projectVars /\ ProjectFairness

-----------------------------------------------------------------------------
ProjectTypeOK ==
    /\ detail \in {"closed", "loading", "failed", "ready"}
    /\ latestAudit \in 0 .. MaxAudits
    /\ pageSpeed \in 0 .. MaxAudits
    /\ speedWanted \in 0 .. MaxAudits
    /\ speedRequests \subseteq Audits
    /\ auditRequest \in {NoRequest, Asked} \cup [at : {"answered"}, is : Audits]
    /\ crawlShown \in [job : Jobs, state : JobStates] \cup {NoJob}
    /\ crawlError \in BOOLEAN
    /\ mount \in {NoRequest, Asked} \cup [at : {"answered"}, is : Jobs]
    /\ startRequest \in {NoRequest, Asked, [at |-> "refused", is |-> 0]}
                         \cup [at : {"answered"}, is : Jobs]
    /\ pollTimer \in BOOLEAN
    /\ polls \subseteq [job : Jobs, said : JobStates \cup {"nothing"}]
    /\ audits \in 0 .. MaxAudits
    /\ crawls \in [Jobs -> JobStates \cup {"none"}]

\* The PageSpeed on the page is that of the audit it is shown with, in
\* whatever order the answers about older and newer audits arrive.
PageSpeedOfLatestAudit == pageSpeed # 0 => pageSpeed = latestAudit

\* A crawl shown as queued or running does not stay so without a word: an end
\* is shown, or an error, or the page is left.
CrawlShownSettles ==
    crawlShown.state \in Following
        ~> crawlShown.state \notin Following \/ crawlError
=============================================================================
