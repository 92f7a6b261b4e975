# A verification of WebDiag

WebDiag is a monorepo: a Python API (`apps/api`), a worker and a scheduler
(`apps/worker`), a Next.js site (`apps/web`) and two TypeScript packages. Three
kinds of things go wrong in it in ways a unit test hardly reaches, and this
directory has models of each:

- *State shared between processes.* SQLite stores written by web requests, by
  workers that hold leases, by clean-up and by a scheduler: AI runs and the
  credits they cost, the queue of site-audit jobs, the monitors of projects.
  Model-checked with TLC and, for every value of the constants, proved with
  TLAPS.
- *Pages that wait.* The account pages and tool forms of the site, where answers
  come late, in another order or never while timers fire, effects run again and
  the user goes on clicking; and Web Workers, bitmaps and object URLs, which
  somebody has to end. Model-checked, and their safety proved, of each page and of
  all of them together.
- *Two descriptions of one thing.* Answers of the API, described once by pydantic
  models and once by hand-written guards; and the tools that compute in the
  browser (converters, formatters, validators, cron), whose result is compared
  with what it is defined to be. Model-checked; the line difference, the
  certificate chain and cron are proved right for inputs of any length.

- [The system and its parts](#the-system-and-its-parts)
- [Plan](#plan)
- [Modules and the code](#modules-and-the-code)
- [Runs, bounds and what they show](#runs-bounds-and-what-they-show)
- [What is proved](#what-is-proved)
- [Disagreements found](#disagreements-found)
- [What is not modelled](#what-is-not-modelled)

## The system and its parts

All stores share one idiom: one SQLite file, one connection per call, and every
writing method one `BEGIN IMMEDIATE` transaction. A store method is therefore
one atomic step whoever calls it, and *between* two methods anything may happen.
That is the granularity of every module here.

| Component | State | Operations | Talks to | Hard behaviour | Correct if |
|---|---|---|---|---|---|
| **AI credit and run store** (`ai/storage.py`, `ai/service.py`) | balances, append-only ledger, runs, attempts with leases, uploads, places kept for artifacts, artifacts | grant, upload, create, delete, claim, renew, mark submitted, complete, fail, two clean-ups | web requests, workers over HTTP, clean-up | expiry inside somebody else's claim, late and repeated calls, sweeps racing the use of an upload | credits are neither lost nor made; each run is settled once; no second submission; a result stays readable |
| **AI worker and provider client** (`webdiag_worker/ai.py`, `vercel_gateway_provider.py`, `artifact_storage.py`) | one job at a time: claim, token, posts made, heartbeat; private objects | claim, prepare, heartbeat, execute with retries, store, report | the API's internal routes, the provider, object storage | lost answers, calls served late, crash between any two steps, lease lost while the provider works | one attempt reaches the provider; no charge without work |
| **Crawl jobs** (`crawl/storage.py`, `crawl/service.py`, worker `crawler.py`) | jobs and attempts with leases | create, claim, complete, fail | scheduler, workspace archive | leases are never renewed; no cap on attempts; uncaught exceptions leave a job running | one result per job; none on an archived project; every job ends |
| **Crawl frontier** (`crawl/executor.py`) | queue, visited set, counters | fetch, discover, stop | fetcher | page, depth and time limits meeting; redirects | no page twice; only reachable pages of the origin |
| **Monitoring** (`accounts/monitoring_*.py`) | schedule, lease, failures, bounded history | create, update, manual and scheduled claim, renew, save run | scheduler, audits, workspace | update or archive during a run; lease expiry against heartbeat | at most one run in progress saves; history bounded; a schedule is never lost |
| **Workspace** (`accounts/workspace_*.py`) | projects, saved audits | create, rename, archive, restore, save | crawl and monitoring tables | archive ends others' work in one transaction | nothing runs for an archived project |
| **Accounts and sessions** (`accounts/storage.py`, `service.py`) | users, sessions, login attempts | register, log in, change password, revoke | registration admission | password verified outside the transaction | a session is only ever made from the current password; caps hold |
| **Admission** (`audit/admission.py`, `accounts/registration_admission.py`) | leases, one window counter | acquire, renew, release | public audit and registration routes | crash while holding; renewal of an expired lease | concurrency and rate bounds |
| **Audit pipeline** (`audit/*.py`) | none between audits | fetch, analyse, report | the Internet | sequential | pure functions of what was fetched |
| **Audit snapshots, reports** (`audit/storage.py`, `accounts/report_*.py`) | snapshots, reports, history limit | save, prune, create, delete | workspace | pruning while saving | job and run appear and go together |
| **Backup** (`recovery.py`) | a bundle directory | back up, verify, restore | both databases | two databases, two instants | a published bundle verifies |
| **Scheduler, actors** (`scheduler.py`, `actors.py`) | none | loop: monitors, clean-up, one crawl | all of the above | one part failing must not stop the others | each part is tried again for ever |
| **Stateless tools of the API** (`tools/*.py`) | none | one request, one answer | the Internet | what an answer may hold | the site can read each answer |
| **AI panels** (`account-ai-*.tsx`, `.ts`) | the run shown, its state, the poll due | submit, follow, leave | proxy, API | lost answers, poll bound | a followed run settles; one run per submit, and per intent, which it does not keep |
| **Project page** (`account-project-detail.tsx`) | saved audits, page speed, crawl shown, poll timer | load, audit, crawl, poll | proxy, API | answers about older audits and jobs | page speed belongs to the audit beside it; a crawl shown settles |
| **Issues list, account shell, dashboard** (`account-issues-list.tsx`, `account-workspace-shell.tsx`, `account-dashboard.tsx`) | filters and request key; session, projects, reload token | filter; load, create, restore | proxy, API | overlapping loads | the last choice is shown; what was restored is shown |
| **Tool forms** (`*-tool.tsx`, `*-tools.tsx`, `app/api/*`) | result, error, busy | submit | one route each | three deadlines, contract of the answer | the form shows what came of the last submit |
| **Preview workers** (`query-code-workbench-tools.tsx`, `developer-inspection-workbench-tools.tsx`, `public/workers/`) | worker, timer, request id | run, reset, leave | a Web Worker | a worker that never ends | no worker without a timer |
| **Image tools** (`image-*.tsx`, `qr-code-workbench.tsx`) | picked image, result, object URLs | pick, run, leave | the browser's decoders | decode and encode overlap | each URL is shown or revoked |
| **Workbenches** (`text-encoding-diff-engine.ts`, `structured-*.ts`, `query-code-workbench.ts`, ...) | none | text in, text out | | pure functions with many cases | the result is what it is defined to be |
| **Contracts** (`*-contract.ts`, pydantic models) | none | send, check | | two descriptions kept by hand | what is sent is accepted |
| **Content, presentation, packages, scripts** | none | | | | |

`PROJECT.json` lists the same components with their source files, and under
`hazards` each thing that is hard to test, at the line where it bites, with the
properties that guard against it or the reason there are none yet.

## Plan

In this order, the most important behaviour first:

1. **AIRuns**, with **CreditEscrow**, the abstract specification of what it
   promises about money. *Done; runs, theorems.*
2. **AIWorker**, which composes AIRuns with workers, calls in flight, the
   provider, private objects and clean-up. *Done; runs, theorems.*
3. **CrawlJobs**: jobs, leases without renewal, archive against completion,
   liveness under the fairness of `scheduler.py`, with **AuditOrders**, the
   abstract specification of what it promises the owner of a project. *Done;
   runs, theorems.*
4. **Monitors**: schedules, leases and their renewal, changes and archiving
   under a run. *Done; run, theorems.*
5. **WebPages**, the pages together: AIPanel, ProjectPage, IssuesList,
   AccountShell, PreviewWorker, ToolRequests with ToolRoutes, ImageTools. *Done;
   one run over all of them, as pages share nothing in the browser; theorems of
   each page and of all of them.*
6. **Workbench** and the other tools that compute in the page, and **Contracts**,
   the answers of the API against what the site accepts, with the pages in
   **WebApp**. *Done; part of the same run; theorems of Workbench's own tools.*
7. **AccountSessions**: compare-and-swap of passwords, session cap, the login
   limiter's window and block. Theorem: no session from a replaced password.
   *Left.*
8. **Admission**: concurrency and window bounds with crashes. Theorem: both.
   *Left.*
9. **CrawlFrontier**, **AuditStore** and **Recovery**, in that order. *Left.*

Also left: liveness of the artifact clean-up, which `scheduler.py` drives next
to the monitors.

## Modules and the code

### CreditEscrow

What the store promises about money and nothing else: a job's price leaves its
payer's balance and is *held*, then either *kept* or *returned*, once. It has
four actions (Deposit, Hold, Keep, Return). It abstracts nothing in particular
of the code; `AIRuns!ImplementsEscrow` is the statement that the code, seen
through `EscrowOf`, does only this.

### AIRuns

`SqliteAIStore`, one action per method that writes.

| Variable | Code |
|---|---|
| `available`, `reserved`, `version` | columns of `credit_accounts` |
| `ledger` | `credit_ledger`; an entry's `op` and `of` stand for its correlation ID, unique per user |
| `state`, `request` | `ai_runs`; the request is user, key, tool and upload, and the price is the catalogue's |
| `attempt` | the newest row of `ai_run_attempts` of each run |
| `upload` | `ai_uploads`: deletion state, remaining lifetime, bound run |
| `reservation`, `artifact` | `deletion_state` of the one `ai_artifact_reservations` row and the one `ai_artifacts` row a run may have |

Abstractions worth knowing:

- *Time.* The code compares absolute deadlines with the clock. The model keeps
  what is left of each, and `Tick` lowers all of them; 0 is expired. Only
  comparisons of a deadline with the current time are lost by this, and the
  code makes one other: `ORDER BY lease_expires_at` decides which of several
  abandoned runs a claim ends. In the model it may be any of them, which allows
  more behaviours than the code, so safety carries over.
- *Identity.* A lease token is a fresh random string per claim; the attempt's
  number, as fresh, stands for it. A run's number is its place in the order of
  `created_at`, which is all the claim looks at.
- *Replays change nothing.* A grant with a used correlation ID, a create with a
  used key, and a complete of a run that has already succeeded return what is
  there. The first two are disabled actions; `Replay` says what the second
  answers. The third needs the call to be sent twice, which the worker never
  does.
- *The whole handler.* `ClaimPending` ends one abandoned run, hands out the
  oldest claimable one and keeps a place for its image, in one step, as
  `claim_pending` does. The ledger's operation of a delete is `release` with the
  correlation `delete-release`; the model's `op` is the latter.
- *Bounds.* `MaxRuns` runs are ever created and `MaxAttempts` attempts made at
  each: both are model bounds, guards of `CreateRun` (through `RunIds`) and of
  `ClaimPending`. The code has neither. When a run is out of attempts in the
  model, the claim that would hand it out is not taken.

### AIWorker

`EXTENDS AIRuns` and adds what is between the store and the outside world.

| Variable | Code |
|---|---|
| `worker` | where `run_one_ai_job` is, for which run and token, how many posts it has made, whether its heartbeat has failed |
| `calls` | internal HTTP requests sent and not yet served |
| `taken` | history: how often the provider began to work, for each attempt |
| `object` | whether there is an object under the key kept for a run |
| `cleaner` | one object's clean-up: listed, object removed, row marked |

A call leaves the worker (`Send`), is served by the API some time later or never
(`Serve...`), and its answer reaches the worker if that still waits (`Answer`).
`TimeOut` is a worker that stops waiting; the call stays in `calls` and may be
served afterwards. A lost answer is a time-out just before the call is served.
Calls are served in any order. `Crash` ends a worker at any point; a restarted
one starts idle, as nothing is kept on the worker's side.

`complete` takes two steps on the server, because `AIService.complete_run` reads
the run, its place and its object before the transaction that decides: first
`CheckResult`, then `ServeCommit` or `ServeReject`.

`PostProvider` is one POST of the gateway client: a result, a refusal, an answer
without meaning, a 429, or silence; `TryAgain` is `_post_bounded`'s decision.
The repository has the adapter for text tools only. For image tools the store,
the API, the staging of objects and the worker's `run_one_ai_job` are all there
and tested, with an `AIProvider` the test supplies; the model lets an image be
written under the kept key by the storage client (`StoreObject`) after the
provider's answer, as the staging design requires of any adapter.

The clean-up takes one object at a time. Its batch limit, and with it the order
in which it gets to objects, is not modelled.

### AuditOrders

What the queue promises the owner of a project, and no threads, attempts, leases
or retries: an order is placed, one at a time for each site and none for a closed
site; it is open until it is delivered, refused or, when its site is closed,
withdrawn; and then it stays as it is. `CrawlJobs!ImplementsOrders` is the
statement that the code, seen through `OrderOf`, does only this.

### CrawlJobs

| State | Code |
|---|---|
| `job` | `crawl_jobs`: state, project, `public_error_code` (which of the crawl's own codes is not told apart) |
| `attempt` | the newest row of `crawl_job_attempts` of each job: whose token, what is left of the lease, `completed_at` |
| `archived` | projects with an `archived_at` |
| `crawl` | threads of the API inside `CrawlService.run_one`, and their jobs |

`run_one` runs inside one HTTP call of the scheduler, but the scheduler stops
waiting after at most 330 seconds and calls again, so the model lets several
threads crawl at once. Claiming is one transaction; crawling touches nothing
that is shared, so its whole duration is the gap between `Claim` and the step
that ends it: `Report` (`complete_job` or `fail_job`, with the lease check
inside), `Raise` (an exception `run_one` does not catch), or `Crash` (the API
dies, and all threads with it). A token is known to one thread only, and all
reads look at the newest attempt only; so the attempt names its thread instead
of a token and carries no number, which keeps the state space finite although
attempts have no cap. `ArchiveProject` is the crawl part of `archive_project`:
three updates in one transaction, in the order of the code (which attempts are
closed depends on the error codes just written).

`job`s are numbered in order of creation. Two created in the same second are
ordered by their random ids in the code; the model's order is one of the two.

### Monitors

| State | Code |
|---|---|
| `monitor` | `account_workspace_monitors`: enabled, status, ticks until it is due, failures in a row, whose lease and how much is left of it |
| `runs`, `saved` | `account_workspace_monitor_runs`: the rows kept, and how many there ever were |
| `archived` | projects with an `archived_at` |
| `work` | what each thread of `MonitoringService._execute` is doing: which monitor, what it read to compare with |

A run is `ClaimDue` or `ClaimManual`, then `ReadPrevious`
(`latest_successful_payload`), then the audit, during which `Renew` is the
heartbeat's renewal, then `SaveRun`, which checks lease and project inside its
transaction, computes the next schedule with the back-off table, and prunes the
history. In between the monitor may be changed (`UpdateMonitor`, which clears
the lease), its project archived or restored, the lease run out, or the process
die. `changed` in `work` is no state of the code: it remembers that the monitor
was changed under a run, so that a property can speak of it.

### The pages: AIPanel, ProjectPage, IssuesList, AccountShell, PreviewWorker, ToolRequests, ToolRoutes, ImageTools, WebPages, WebApp

One module per page, and ToolRoutes for the handlers behind the tools' forms. A state update, the render it causes and the effects of
that render are one step: React runs nothing else in between. An effect's
`active` flag is modelled by which request, timer or load the page still listens
to; a request goes out, is answered by the API some time later, and its answer
reaches the page later still, or is lost in the proxy.

| Module | Code | State worth knowing |
|---|---|---|
| AIPanel | text tool runner, fix plan, `account-ai-query/client/proxy.ts` | `onTheWay` and `lost` are requests the API handles later or whose answer nobody saw; `store` is the API's side, a run per idempotency key |
| ProjectPage | `account-project-detail.tsx` and its client and proxy | audits and jobs are numbered in the order the API made them |
| IssuesList | `account-issues-list.tsx` | the result carries the filters it was asked for |
| AccountShell | `account-workspace-shell.tsx`, `account-dashboard.tsx` | loads are numbered by `reloadToken`; requests of a dashboard that is gone still call back |
| PreviewWorker | regex lab, cron preview, their workers | a terminated worker sends nothing more; one that computes may never end |
| ToolRequests | every form that asks the API | a tool is a form (when it takes an earlier result off the screen), the fields it sends, and the path it posts them to |
| ToolRoutes | the POST handlers under `app/api/tools/` and `app/api/audits/`, and the proxies they are made of | none: each handler is a function from the body it gets and what happens upstream to its reply |
| ImageTools | the five image tools | bitmaps by the number of the pick, URLs by run and part; which ones a tool makes, keeps and revokes, and when, is the tool |

In ToolRoutes a body is whether it is an object and which fields it has of the
type, and in the form, they must have. What happens upstream is how many seconds
it takes, the status, and what the payload is: no JSON, an error payload, what
some endpoint promises, or anything else. `Relay` is what all handlers do from
their `fetch` on. The handlers differ in the fields they check, in those they
pass on, in the endpoint they ask, and in their limit: 15 to 45 seconds. The
connection between page and site may be lost, too, whatever the route would have
said (`Failure("lost")`). A list of URLs has some that outgrow 2048 characters
when the form normalises them, or none: the first is the one body of a form that
its route refuses. The bulk check is the one endpoint with a deadline of its own
(`_BULK_DEADLINE_SECONDS`).

WebPages puts them together: a behaviour is a visit to one page, and the others
rest, since pages share nothing in the browser. WebApp adds the tools that compute
in the page and the answers of the API, which keep no state between two uses;
PagesSpec, without them, is what the theorems are about.

### Workbench and its tools

`ToolWork` is a tool's last use: what it was given and what it returned; it also
holds the JSON values the tools for documents share. Each submit is one step, and
the invariants compare the two. Workbench itself has the line difference, CSV and
the certificate chain, and extends CronTool: these need no tree, so nothing in
them is a RECURSIVE operator. WebApp adds the others, most of which walk trees:

| Module | Engine | Compared with |
|---|---|---|
| SchemaTool | `validateJsonSchema` | what a schema demands, keyword by keyword |
| YamlTool, TomlTool; CSV in Workbench | the writer and the reader of each format | reading back what was written |
| XmlTool | `validateAndFormatXml` | what a document means: its elements, attributes and texts |
| JsonPathTool | `queryJsonPath` | the nodes a path describes, said of the document as a whole |
| CodeTool | `formatSql`, `formatGraphql` | the same tokens, still apart, when read again |
| UrlTool | `analyzeUrlNormalization`, `analyzeQueryParameters` | the same URL octet by octet, and a fixed point |
| CronTool | `parseCronExpression`, `cron-preview-worker.js` | the minutes cron would run at |

Texts are sequences of tokens, not of characters: what a tokenizer takes for one
token is given, and where it could take two neighbours for one is modelled
(`SqlReadsAsOne`, `NeedsQuotes`); those of CSV and URLs are sequences of characters.
CSV has both directions of its tool: `JsonToCsv` with the delimiter chosen, rows
from arrays or from objects, and the prefix; `CsvToJson` with the delimiter chosen or
guessed (`DelimiterScore`, `DetectDelimiter`), with and without a row of headers,
and every limit of reader and writer (`CsvLimits`), all small enough to be passed by
some input of MCTools. CronTool's calendar is cut short to months of four days
and hours of three minutes, but its weeks have seven days and Sunday is both 0
and 7, as in the code.

### Contracts

A contract says for each path into an answer which values may stand there
(ContractTypes). ToolModels and AccountModels are the response models of the API, bounds included; PageToolContracts,
NetworkToolContracts and AccountContracts the guards (`is...`) and interfaces of
the site. Contracts pairs them, one exchange per request the site makes, and lets an
answer arrive that has some allowed value at some path. A field the API computes
from others is written as what determines it on both sides, so that a guard that
recomputes it can be compared. Guards are conjunctions of checks of one
field each, but for such computed fields; so one value at a time is enough.

### MCAIRuns, MCAIWorker, MCCrawlJobs, MCMonitors, MCWebApp, MCTools

Give the constants values for TLC. MCTools has what the tools are given: small
inputs in which each construct of a format meets each other one, next to it and
one level below. Prices are 2 for an image and 1 for text in
MCAIRuns, so that the two cannot be confused. MCWebApp has a latency within each
limit of a route but beyond the next shorter one, and one beyond all of them.

### AIRuns_proofs, AIWorker_proofs, CrawlJobs_proofs, Monitors_proofs, WebPages_proofs, ToolRequests_proofs, Workbench_proofs

Theorems; see [below](#what-is-proved).

## Runs, bounds and what they show

| Run | Instance | Shows |
|---|---|---|
| `store` | 2 users, 1 upload, 2 keys, 1 grant of 3 per user, an image and a text tool, 2 runs, 2 attempts, leases of 2 ticks; symmetric keys | The store's eight invariants and two action properties |
| `queue` | 3 users, 3 text runs, grant of 2, limits 1 per user and 2 in all; symmetric keys and users | Active runs stay within both limits; the store implements CreditEscrow |
| `calls` | 2 workers, 1 run, 3 attempts, 3 posts, leases of 2 ticks; symmetric workers | Five invariants of the composition; everything the workers do is allowed by AIRuns |
| `jobs` | 3 users (one with 2 projects, 2 with 1), 3 jobs, 2 threads, limits 1 and 2, leases of 1 tick; symmetric threads and projects of the first user | Three invariants and an action property of the job queue |
| `live` | 2 users with 1 project each, 3 jobs, 2 threads | Every job ends, under `Fairness`; the queue implements AuditOrders |
| `raise` | as `live` | A sentence of the crawler's design the code does not keep |
| `monitor` | 1 project, 2 threads, leases of 1 tick, an interval of 2, two retry delays, history of 2, 3 runs ever saved | Two invariants, one action property, and that a due monitor is run, under `Fairness` |
| `web` | one page at a time: 2 submits and 2 polls; 2 audits and 2 jobs; 4 choices of 2 filters; 3 loads; 3 workers; 2 requests; 2 picks and 2 runs; the tools' inputs of MCTools; every path of every answer | Nine invariants and four liveness properties of the site (286,993 states, about three minutes) |
| `intent` | AIPanel alone, as in `web` | A sentence of a plan the panel does not keep |
| `upload`, `replay`, `retry` | as `store` or `calls`, smaller | A sentence of a design document that the code does not keep, each with a counterexample |

Why these bounds are enough for the hazards they aim at: two runs are the least
for a claim that ends one run and starts another, for two users' money to be
confused, and for a run to reach for an upload another has; a grant of 3 pays
one image run and one text run, so that paying and not being able to pay both
happen; in `queue` a user may run one, could pay for two, and all may run two, so
that each limit is at some time the only one that refuses; leases of 2 ticks let a renewal change something; three attempts let a
call of the first be served in the third; three posts are the code's own
`_MAX_ATTEMPTS`. For larger instances there are the theorems. In CrawlJobs two
threads are the least for a late crawl beside a new one of the same job, three
jobs the least for an old, a lapsed and a new one, four projects of three users
the least for the limit per user and the one for all to bind separately; only
whether a lease is over is ever looked at, so one tick does. In Monitors two
threads are the least for a late save beside a newer run, and three saves for a
pruned history. In the pages two of everything is the least for an older answer
to come after a newer one; three loads and three workers let one be replaced
twice. Deadlock is checked in the stores' runs (`Tick` is always possible, so it
says little there) but not in `web` and `intent`: a page nobody touches rests.

Properties, and the code they are about:

- `ReservedBacksActiveRuns`, `CreditsConserved`, `BalanceMatchesLedger`,
  `SettledExactlyOnce`: the four ways in which `_settle_reservation` and
  `_insert_ledger`, called from create, delete, claim, complete and fail, could
  let an account go wrong.
- `ChargedOnlyForResult`, `EndedIsFinal`: what `_current_attempt` is for; a late
  worker neither charges nor changes what has ended.
- `NoSecondSubmission`: what `submitted_at` is for in `claim_pending`.
- `ActiveRunKeepsUpload`, `PlaceKeptForArtifact`: sweeps and clean-up against
  use.
- `ActiveRunsWithinLimits`: `create_run`'s two limits, where runs return to the
  queue.
- `OneAttemptReachesProvider`, `ChargedOnlyAfterProvider`: the protocol between
  worker and store, whatever is lost, late or dies.
- `SucceededImageIsReadable`: no clean-up and no late worker takes away an image
  a user can still ask for.
- `WorkKeepsStore`: AIWorker refines AIRuns, so all the store's properties hold
  there too.

- `ActiveJobsWithinLimits`, `ActiveJobHasLiveProject`: `create_job`'s checks
  against jobs handed out again and projects archived and restored.
- `AcceptedReportEndsJob`: `complete_job` checks the attempt but not the job's
  state, and does not look at how many rows its guarded update wrote; so an open
  attempt of an ended job would swallow a result.
- `ImplementsOrders`: a late crawl, a job handed out again, a crash or an archiving
  must not show to the owner as a second audit, a second outcome, or the end of
  another project's audit. It implies `EndedJobIsFinal`, which is proved besides.
- `EveryJobEnds`: expired leases are handed out again, and oldest first is fair
  enough.

- `ComparedWithPredecessor`: a successful run is compared with the successful run
  saved just before it, although what it is compared with is read long before it
  is saved.
- `NoResultFromBeforeChange`: clearing the lease in `update_monitor` and
  `archive_project` is enough to keep a run that was under way from saving, even
  when the monitor is claimed and saved by others meanwhile.
- `DueIsRun`: a due monitor is run or stops being due, whoever dies.

- `PageSpeedOfLatestAudit`, `RestoredIsShown`, `FormShowsLastOutcome`: what is on
  the screen belongs together, whatever answers were late.
- `NoOrphanWorker`, `UrlsAreShownOrRevoked`: a worker has a timer that will end
  it; an object URL is shown or revoked.
- `RunSettles`, `CrawlShownSettles`, `FiltersAreAnswered`, `ShellComesUp`: effects
  that set off the next poll, or wait for the right one of several loads, do not
  stop short.
- `ToolsAnswerRight`: the difference is right and shortest (`DiffIsShortest`), the
  certificate chain is found when there is one (`ChainIsFound`), and a cron
  expression is due when cron has it (`CronIsRight`).
- `DocumentToolsAreRight`: CSV, YAML and TOML read back as what they were written
  from (CSV with the delimiter told or guessed, as rows or as records; and CSV that
  was typed loses no character on its way); XML means what it meant, SQL and GraphQL
  have the tokens they had, a URL leads where it led; a JSONPath selects what it
  describes and the verdict of a schema is the schema's. Also one part for each tool;
  each part names the exceptions,
  which are listed [below](#disagreements-found).
- `AnswersAreRead`: the site accepts each value the API may send at each path.

Every property of a passing run has a mutant in `PROJECT.json`: a definition
changed as a plausible bug would change it (a dropped guard, a missing reset, a
refund too many), under which TLC finds that property violated. The mutated
forms stand next to the originals, marked `Mutant`.

*Fairness.* For AI runs, none is assumed. Nothing in the repository sends
`run_pending_ai` messages, so no claim need ever happen, and `cleanup_uploads`
has no caller; all statements about them are safety. Crawl jobs are driven by
`scheduler.py`, whose loop calls `run_one_crawl` once a cycle whatever happened
in the cycle before, so `Fairness` has weak fairness of `Claim` by some thread;
of `Tick`; and of `Report` of each thread, since a crawl has a deadline
(`deadline_seconds`). Strong fairness of `ReportInTime` for each job is an
assumption about the world as much as about the code: of the crawls of one job,
started again and again, not every one is late, killed or ended by an uncaught
exception. `config.py` makes the lease at least 30 seconds longer than the
deadline, which is why being late is the exception; the run `raise` shows that
an uncaught exception is not ruled out, and a page that raises one each time
makes the assumption false for its job.

Monitors are driven by the same loop: weak fairness of `ClaimDue`, of time, and
of each step of a run, whose audit has time-outs; and strong fairness of
`SaveInTime`, since the lease outlasts an audit several times and is renewed every
third of it, so that runs do not miss it, or crash, for ever. On the pages
timers fire, requests end (each has a time-out in the proxy or route), workers
are answered or timed out, and effects run; on the project page the API also
brings crawls to an end, which is `EveryJobEnds` of CrawlJobs. No user ever has to
do anything, and no AI run has to end.

## What is proved

For every number of users, runs, workers and attempts, any prices and limits:
from the assumptions named in the modules (prices, grants and bounds are
positive; only some tools make images or need uploads; an upload has an owner)
TLAPS checks the following. The theorems are listed in `PROJECT.json`.

**AIRuns_proofs** (the store's money). `TypeInv` is `TypeOK` and that every
created run has a request, without which no price is known to be a number.
`SettledExactlyOnce` is inductive once types are known: each action posts at most one entry per run, and the guard of
the state it leaves rules out an earlier one. For the two properties about sums
the model writes a sum of prices as the cardinality of a set of credits
(`Units(r)` is `{r} \X 1..Cost(r)`), so that the proofs need only disjoint
unions of finite sets and no induction over sums; `HeldInv` and `ConservedInv`
add that the sets are finite. `AccountsReconcile` is about what
`reconcile_credits` adds up. A sum of positive and negative entries is counted
out as well: the total and the units the entries take away are as many as the
units they add (`AddsUp`). `LedgerInv` adds that these sets are finite
(`Sound`); then one entry more adds, or takes away, a set disjoint from the others
(`OneMoreIsSound`), and every action that touches an account posts exactly one
entry that the ledger does not have (`PostReconciled`). `StoreImplementsEscrow`
maps each action to a step of CreditEscrow or a stutter.

Of the store's work (the second part of the module), the two action properties
need that a run no claim has reached has an untouched attempt
(`UntouchedBeforeClaim`): a pending run has neither lease nor submission.
`UploadInv` adds that an upload that does not exist yet is bound to nothing.
`ChargedOnlyForResult` and `PlaceKeptForArtifact` are inductive with the types.

**AIWorker_proofs** (the composition). `WorkersKeepStore` shows each step of the
composition to be a step of the store or a stutter, and `WorkKeepsMoney` carries
the credit invariants over. The rest is one inductive invariant, `WorkInv`:

- `CallInv`: workers, calls in flight and clean-up name runs and attempts that
  exist; a worker that is idle has forgotten the last run;
- `CountInv`: two workers never hold one attempt, for the token each holds is at
  most the run's newest number and a claim hands out the next; so nobody but its
  holder adds to what the provider took on of an attempt, at most one for each
  post. This is why `WorkTypeOK` can bound the provider's count by
  `_MAX_ATTEMPTS`, and types alone would not be inductive;
- `ReachInv`: the attempt a worker at the provider holds, and every attempt the
  provider ever took on, is the run's newest and marked submitted - so two
  attempts can not both have been taken on; and a completion in flight is of an
  attempt the provider took on;
- `ChargedOnlyAfterProvider`, which follows from step to step by the latter;
- `ObjectInv`: a completion that passed the check has its object, and clean-up
  of a place has only listed runs that can not be completed any more. This is
  why the check outside the transaction is harmless: a place that leaves
  `reserved` never comes back.

**CrawlJobs_proofs.** From the assumptions on the constants of CrawlJobs (limits
and leases positive, projects owned). `JobInv` adds to the types that a job is
running just while its newest attempt is open, and that a job never claimed has
no attempt (`AttemptMatchesJob`): the claim, the report and the archiving each
change both sides together. `AcceptedReportEndsJob` follows from it in one step,
and would not be inductive alone. `ActiveStep` says that only a new job becomes
active; with it, `LimitsStep` needs only that a set that loses elements, or
gains one while below its limit, stays within it. `QueueImplementsOrders` maps
each step to one of AuditOrders or a stutter: claims, crashes and time stutter; a
report settles one order, which is open because the attempt check passed
(`RecordedJob`); archiving withdraws just the open order of its project
(`OrdersStep`).

**Monitors_proofs.** For any number of projects and threads, any lease, cadence,
history limit and table of retry delays that does not exceed the cadence.
`ComparedWithPredecessor` is about rows saved long ago and needs the strengthening
`MonitorInv`: the thread whose token a monitor bears has read the latest
successful row (`HolderKnowsLatest`), because nobody else may save while it holds
the token; a change takes the token away (`ChangedIsTokenless`), from which
`NoResultFromBeforeChange` follows; rows are numbered without gaps at the end of
the history (`RowsNumbered`), which bounds it (`HistoryBounded`); and a monitor
is enabled just while it has a next run (`EnabledIsScheduled`), running just
while somebody holds its lease (`RunningIsLeased`).

**WebPages_proofs.** Each page as a behaviour of its own, and then all of them,
for any number of workers, audits, jobs, loads, choices, files, runs, submits and
polls.

- *PreviewWorker.* `NoOrphanWorker` is inductive with `RunNamesWorker`: the run
  shown is of the worker the tool holds. `PreviewResultsAreTaken` says that the
  cron preview's comparison of request numbers is never needed, and that the
  regex lab does not miss it: a worker that was replaced sends nothing more.
- *ProjectPage.* The page speed shown is of the latest audit because the effect
  waits for that one only (`SpeedFollowsLatest`), whatever else is on its way.
  `ShownCrawlIsFollowed` needs that every job an answer, a poll or the page names
  is one the API made (`JobsAreMade`).
- *AccountShell.* `RestoredIsShown` needs that a load of the newest token, if it
  has read the list, has read it with all that was restored (`LoadsSeeRestored`):
  a restore counts the token up, and loads of older tokens are dropped.
  A shell that is loading has the load of the newest token under way
  (`LoadingShellIsAwaited`).
- *ImageTools.* What is alive is what is shown or still being encoded (`Alive`);
  the URLs of a run under way are not revoked, and the result on the screen is of
  no run under way (`RunsApart`), so that each path that replaces, gives up or
  leaves a run revokes what is no longer needed and nothing else. For every tool.
- *IssuesList, AIPanel.* A list that is loading awaits the answer to the filters
  picked last. A run shown as going on has a timer or a poll until the polls are
  used up, and is one the API made (`PanelWaits`, `KeysInOrder`).

Four of these (`ShownCrawlIsFollowed`, `LoadingIsAwaited`, `ShownRunIsFollowed`,
`LoadingShellIsAwaited`) are the safety halves of `CrawlShownSettles`,
`FiltersAreAnswered`, `RunSettles` and `ShellComesUp`: something is always under way that fairness will bring about. TLC
checks the liveness itself.

Then the pages together. `PagesInv` is the conjunction of their invariants; a step
of the site is, for each page, a step of it or a stutter (`PagesStepOfEach`), so
`PagesStepInv` only cites the lemmas of the pages, and `PagesAreTyped` and
`PagesKeepPromises` follow for a visit to any page.

**ToolRequests_proofs.** `RoutesServeForms` goes through the tools family by
family, for any latencies: whatever happens upstream, the reply is about all that
the form sent, is in the contract the form checks, refuses no body but one with
URLs that outgrew the limit, and is no time-out for the bulk check, whose deadline
is below its route's limit. With it, `FormShowsLastOutcome` is inductive together
with types and `RequestIsLast`: one request at a time, which is the last one sent.

**Workbench_proofs.** `ToolsComputeRight`: whatever is typed or pasted, the line
difference, the certificate chain and cron give what they are defined to give, for
texts, bundles, expressions and calendars of any length. What such a tool does is
said of every input by induction over it. The induction theorems of the library
take an operator, which no prover here can put in; so `LeastNat` (a set of naturals
that is not empty has a least element, from well-founded `<`) gives
`NatSetInduction` and, for the table of the difference, `CellInduction`, both stated
about sets. `Iterated` and `RecursiveFunction` say that the functions the model
defines by recursion exist, and so take at each argument the value the
definition gives them there.

- *Line difference.* `CommonIs` and `WalkIs` give the table and the way back cell
  by cell. `CommonIsLongest`: no choice of equal lines up to a cell, in their
  order, is longer than the cell says; `WalkIsRight`: the lines up to a cell are
  both sides up to it (`IsSide`), with as many unchanged ones as the cell says.
  Together the difference is right and shortest. `GroupsAre` bounds the groups of
  the summary by the unchanged lines between them.
- *Certificate chain.* `ChainIsPath`: after each turn the order goes from issuer to
  issuer and has nothing twice. If no subject occurs twice and a path takes in all
  certificates and ends at one that issued itself, the leaf is where that path
  begins (`LeafIsFirst`) and each turn takes its next certificate (`ChainFollows`), so
  the chain is found whole (`WholeIsComplete`, and the converse `CompleteIsWhole`).
- *Cron.* `PartMeansIt` and `FieldMeansIt` are about names, ranges, steps and both
  Sundays; `NormalizedIsSame` about what is written instead. `SearchIs` gives the
  worker's state after each turn, `SearchStepFinds` that what it has found are just
  the due minutes among those it has looked at; so it leaves none out
  (`SearchFinds`).

Assumed are only `WorkbenchAssumption` and `CronAssumption`, of which the code's
own constants are an instance (`CRON_FIELDS`: bounds in order, a week of 0 to 7;
10,000 nodes are no more than 10,000 rows, 100,000 scored characters fewer than
500,000 cells).

Only model-checked, not proved:

- `DocumentToolsAreRight`, most of which is about trees: the tools that read and
  write them are RECURSIVE operators here as they are recursive functions in the
  code, and the provers can not reason about such definitions. Its parts for CSV,
  SQL, GraphQL and URLs have none of these, but are folds over characters and
  tokens with many cases; they are not proved either.
- `AnswersAreRead`: two tables of several hundred entries, compared entry by
  entry. They have no parameter, and TLC compares all of them.
- Liveness (`EveryJobEnds`, `DueIsRun`, `RunSettles`, `CrawlShownSettles`,
  `FiltersAreAnswered`, `ShellComesUp`) and `ENABLED`, which are out of TLAPS'
  reach.
- What the runs that expect a violation refute.

Proved and not run: `SubmissionIsRecorded`, `WorkKeepsMoney`, `MonitorsStayScheduled`,
`RunningMonitorsLeased`, `HistoriesStayBounded`, `PreviewResultsAreTaken` and the
safety halves above, of each page and, in `PagesKeepPromises`, of all.

## Disagreements found

| Run | A document says | The code |
|---|---|---|
| `upload` | Terminal runs mark their bound upload for deletion (`2026-08-13-webdiag-ai-alt-text-design.md`) | `delete_run_for_user` ends a pending run and leaves its upload available and bound; both sweeps skip bound uploads, so its object is kept for ever |
| `replay` | An identical replay returns the original run (`2026-08-12-webdiag-ai-foundation-a12-0.md`) | the service resolves the upload before it looks for the key, and answers 404 once the upload was released or has expired; in the run the upload lives longer than the trace, which ends the run and so releases it |
| `retry` | No automatic provider retry after an ambiguous outcome (`2026-09-10-webdiag-portfolio-mvp-ai-suite-design.md`) | `_post_bounded` posts again after a time-out or a 5xx; tests of the transport expect it to |
| `raise` | The API executes a job and persists a bounded result or stable failure code (`2026-08-13-durable-account-crawler-design.md`) | `run_one` catches three kinds of errors; another one, such as `urljoin`'s `ValueError` for a link `http://[`, leaves the job running, to be crawled again each time its lease ends |
| `intent` | The page makes one key per user intent and reuses it for an explicit retry of the same payload (`2026-09-10-portfolio-mvp-ai-workspace-foundation.md:464`, quoted in `PROJECT.json`) | the form and the fix plan make a new idempotency key for each submit, so that a repeated submit after a lost answer makes, and pays for, a second run |

None of the others charges for anything twice: the credit properties hold in the
same models. `intent` does, but each of its runs is accounted for.

The properties of the site's tools and contracts hold but for exceptions, each
named by an operator of its module:

*Contracts* (`MeasuredWithQuery`, `WrittenByAI`, `OutputOfOtherTool`).

- The answer about loading times carries the URL as it was asked for; if it has a
  query, the site's guard (`isRedactedPublicUrl`) refuses the whole answer.
- Lengths of what AI tools write are counted in characters by pydantic and in
  UTF-16 units by the site. A run whose output is near a limit and has characters
  outside the basic plane is unreadable, and with it the list of all runs.
- The site demands that the issues an action of the fix plan names are distinct;
  `_validate_action_plan` does not.
- The interface of a run has the fix plan as its only output; its guard accepts
  the outputs of all tools.

*Converters and formatters.* Some values are written in a form their own reader
refuses, some read back as something else; tools that refuse say so.

- YAML: a list item or a root scalar that ends in a colon reads back as a key with
  null. Empty collections inside others, root scalars and keys with brackets, `#` or
  quotes are written and refused on reading, and so is what looks like an anchor
  after a space, although `structured-data-utilities.test.ts:62` speaks of safe
  YAML that makes the round trip and `development-data.ts:567` of safe quoting.
- CSV (`Readable`, `MarkedFirst`, `Unmistakable`): a last row of empty cells is
  dropped; a byte order mark that begins the first cell is taken for the file's,
  and a formula behind it is then not prefixed. Tables whose cells are all blank are
  refused on reading, and so are those that grow past a limit of the reader: objects
  that share few keys make many cells, doubled quotes many characters. Names in the
  first row that are blank or occur twice are reported, and no JSON is made; the
  prefix may make two names one (`=a` and `'=a`). The delimiter is guessed: when
  cells hold another candidate or line ends, or the text has more than the 100,000
  characters that are scored, the guess may be wrong without an issue (`[["a;b;c"]]`
  written with commas reads back as three cells), which the result shows by naming the
  delimiter; there is no guess when the delimiter is chosen. A key that only some objects
  have and that names an inherited member, such as `toString`, is refused (not
  modelled).
- TOML: empty lists inside tables are not written. Fractions below zero, unsafe
  integers, strings with three quotes in a row, empty keys, tables within the items
  of a list, tables whose paths look the same because a key has a dot, and a
  document with nothing in it are refused on reading.
- XML: a CDATA section that stands alone in its element is given white space
  around it.
- URL: a stray percent sign before an encoded character (`%%32e`) becomes an octet
  once that one is decoded, so that the normalised URL is not a fixed point. Encoded
  dot segments and a lone `?` or `#` vanish without a reported change. When removing
  tracking leaves one empty pair, that one is read as no pair.
- SQL: a lone `.` beside a number or another `.` is glued to it. GraphQL: a number
  before `...` is glued to it. Neither is valid.
- Certificates: with two certificates of one subject the first is followed, and a
  whole chain may be missed.
- A favicon generator that is left while it encodes makes object URLs nobody
  revokes, which the browser frees with the page
  (`2026-08-13-favicon-generator-design.md:43` asks for each to be revoked on
  unmount).

## What is not modelled

Of the AI component: the text of inputs and outputs (their contracts are in
AccountModels, their verdict a choice of AIWorker), costs and usage reports, the
objects of uploads (`create_image_upload` stores the object first and compensates;
a crash in between leaves an object no row names), the batch of the clean-up
(failures use up its limit, so that keys which can never be deleted could starve
the others), an image that is stored after its place was cleaned up (no adapter
in the repository would do it), the HTTP formats, redelivery by the message
broker (a redelivered message is one more worker that claims), and deletion of
accounts, which no code path performs.

Of crawl jobs: the crawl itself (planned as CrawlFrontier), the result's digest
and its re-validation on reading, and the length of a scheduler cycle, so that
nothing is said about how long a job waits. Of monitors: the audit, the comparison
of two payloads, and the notifications, which are pure functions of what Monitors
hands them.

Of the site: layout, texts, navigation, selection and focus; the content of the
tool and home pages (the longest files of the repository), which is constant data;
signing in and out and the settings forms, which send one request and leave the
page; renaming and archiving, which leave it too; the conversion of characters
into tokens; the inspection of JWTs, the heuristics about regular expressions,
CSS and hashes, which report on a text without state and have no definition to
be compared with but themselves; pixels. The proxy of the audit form tries its
next address after an error whose outcome is unknown, which may run one audit
twice; addresses are a choice of the deployment and no document promises
otherwise, so ToolRequests has one.

Accounts and sessions, admission, the crawl's frontier, snapshots, reports and
backup are planned (see [Plan](#plan)) and not modelled. The audit pipeline keeps
no state between audits. Packages and scripts are static catalogues, generated
code and build or release checks.
