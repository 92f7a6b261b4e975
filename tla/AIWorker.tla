------------------------------ MODULE AIWorker ------------------------------
(***************************************************************************)
(* AI workers at work on the runs of AIRuns: run_one_ai_job and its lease  *)
(* heartbeat (src/apps/worker/src/webdiag_worker/ai.py), the provider they *)
(* call (vercel_gateway_provider.py), the internal HTTP calls between      *)
(* worker and API, the private objects, and the clean-up of given-up ones. *)
(*                                                                         *)
(* A call is one HTTP request.  The worker waits for its answer, but may   *)
(* time out or die first; the call may still be served, much later, or     *)
(* never.  (A lost answer is a time-out just before the call is served.)   *)
(***************************************************************************)
EXTENDS AIRuns

CONSTANTS
    Workers,   \* processes that consume the "ai" queue
    MaxPosts   \* _MAX_ATTEMPTS of the gateway client

ASSUME WorkersAssumption == MaxPosts \in Nat \ {0}

VARIABLES
    worker,   \* what each worker is doing, and for which attempt
    calls,    \* internal HTTP calls not served yet
    taken,    \* history: requests the provider took on, for each attempt
    object,   \* is there an object under the key kept for the run?
    cleaner   \* the clean-up call in progress, for one object

workVars == <<worker, calls, taken, object, cleaner>>
allVars == <<vars, workVars>>

Idle == [pc |-> "idle", run |-> NoRun, token |-> 0, posts |-> 0,
         lost |-> FALSE]
Resting == [kind |-> "none", run |-> NoRun, removed |-> FALSE]

WorkInit ==
    /\ Init
    /\ worker = [w \in Workers |-> Idle]
    /\ calls = {}
    /\ taken = [r \in RunIds |-> [n \in 1 .. MaxAttempts |-> 0]]
    /\ object = [r \in RunIds |-> FALSE]
    /\ cleaner = Resting

Call(op, w, outcome) == [op |-> op, run |-> worker[w].run,
                         token |-> worker[w].token, outcome |-> outcome]

\* _fail, and every other POST: the worker now waits, at `pc'.
Send(op, w, outcome, pc) ==
    /\ calls' = calls \cup {Call(op, w, outcome)}
    /\ worker' = [worker EXCEPT ![w].pc = pc]

Fail(w, outcome) == Send("fail", w, outcome, "failing")

-----------------------------------------------------------------------------
(***************************************************************************)
(* POST /claim is served, and its answer reaches the worker or is lost.    *)
(***************************************************************************)
Claim(w) ==
    /\ worker[w] = Idle
    /\ \E s, r \in RunIds \cup {NoRun} :
        /\ ClaimPending(s, r)
        /\ worker' \in {worker,
                IF r = NoRun THEN worker
                ELSE [worker EXCEPT ![w].pc = "prepare", ![w].run = r,
                                    ![w].token = attempt'[r].number]}
    /\ UNCHANGED <<calls, taken, object, cleaner>>

\* provider.prepare succeeds, or fails in a way that is safe or is not.
Prepare(w) ==
    /\ worker[w].pc = "prepare"
    /\ \/ Send("mark-submitted", w, "none", "submitting")
       \/ \E outcome \in {"failed", "provider_unknown"} : Fail(w, outcome)
    /\ UNCHANGED <<vars, taken, object, cleaner>>

Executing(w) == worker[w].pc \in {"post", "store"}

\* _LeaseHeartbeat._run: one renewal.  One that fails is the last; it may
\* be served all the same, with nobody waiting for its answer.
Renew(w) ==
    /\ Executing(w)
    /\ ~worker[w].lost
    /\ \/ RenewLease(worker[w].run, worker[w].token)
            /\ UNCHANGED <<worker, calls>>
       \/ UNCHANGED vars
            /\ worker' = [worker EXCEPT ![w].lost = TRUE]
            /\ calls' = calls \cup {Call("renew", w, "none")}
    /\ UNCHANGED <<taken, object, cleaner>>

\* Mutant: a provider's failure is reported as a result.
ReportAnyway(w, verdict) ==
    IF ~worker[w].lost THEN Send("complete", w, "none", "completing")
                       ELSE Fail(w, "provider_unknown")

(***************************************************************************)
(* provider.execute is over.  A heartbeat that failed turns a result into  *)
(* an exception, but does not hide an exception of the provider's.         *)
(***************************************************************************)
Report(w, verdict) ==
    IF verdict = "result" /\ ~worker[w].lost
    THEN Send("complete", w, "none", "completing")
    ELSE Fail(w, IF verdict = "failed" THEN "failed" ELSE "provider_unknown")

TookOn(w) ==
    taken' = [taken EXCEPT ![worker[w].run][worker[w].token] = @ + 1]

\* Mutant: one try too many.
TryAgainOnceMore(w, verdict) ==
    IF worker[w].posts < MaxPosts
    THEN worker' = [worker EXCEPT ![w].posts = @ + 1] /\ UNCHANGED calls
    ELSE Report(w, verdict)

\* _post_bounded, another try: after a time-out, a broken connection, a 429
\* or a 5xx.  `verdict' is what execute makes of the last one.
TryAgain(w, verdict) ==
    IF worker[w].posts + 1 < MaxPosts
    THEN worker' = [worker EXCEPT ![w].posts = @ + 1] /\ UNCHANGED calls
    ELSE Report(w, verdict)

(***************************************************************************)
(* One POST to the provider: a result; a refusal or a rejection, which is  *)
(* the end, or an answer that makes no sense; a 429; a 5xx or no answer.   *)
(* Except for a result and a 429, the provider may have taken the request  *)
(* on or not.  (For an image this is the AIProvider a deployment plugs in: *)
(* the repository has only the adapter for text, and the storage client.)  *)
(***************************************************************************)
PostProvider(w) ==
    /\ worker[w].pc = "post"
    /\ \/ TookOn(w) /\ request[worker[w].run].tool \in ImageTools
            /\ worker' = [worker EXCEPT ![w].pc = "store"] /\ UNCHANGED calls
       \/ TookOn(w) /\ request[worker[w].run].tool \notin ImageTools
            /\ Report(w, "result")
       \/ (TookOn(w) \/ UNCHANGED taken)
            /\ \E verdict \in {"failed", "provider_unknown"} :
                  Report(w, verdict)
       \/ UNCHANGED taken /\ TryAgain(w, "failed")
       \/ (TookOn(w) \/ UNCHANGED taken) /\ TryAgain(w, "provider_unknown")
    /\ UNCHANGED <<vars, object, cleaner>>

\* put_reserved under the key kept for the run.
StoreObject(w) ==
    /\ worker[w].pc = "store"
    /\ \/ /\ object' = [object EXCEPT ![worker[w].run] = TRUE]
          /\ Report(w, "result")
       \/ UNCHANGED object /\ Report(w, "provider_unknown")
    /\ UNCHANGED <<vars, taken, cleaner>>

(***************************************************************************)
(* The worker stops waiting: an unanswered complete is followed by a fail, *)
(* anything else ends the job with an error.                               *)
(***************************************************************************)
TimeOut(w) ==
    /\ worker[w].pc \in {"submitting", "completing", "failing"}
    /\ IF worker[w].pc = "completing"
       THEN Fail(w, "provider_unknown")
       ELSE worker' = [worker EXCEPT ![w] = Idle] /\ UNCHANGED calls
    /\ UNCHANGED <<vars, taken, object, cleaner>>

Crash(w) ==
    /\ worker[w] # Idle
    /\ worker' = [worker EXCEPT ![w] = Idle]
    /\ UNCHANGED <<vars, calls, taken, object, cleaner>>

-----------------------------------------------------------------------------
Completions == {"complete", "commit", "reject"}
Ops == {"renew", "mark-submitted", "fail"} \cup Completions

\* Where a worker waits for the answer to a call.
WaitsAt(op) == CASE op = "mark-submitted" -> "submitting"
                 [] op \in Completions -> "completing"
                 [] op = "fail" -> "failing"
                 [] op = "renew" -> "nowhere"

Waiting(c) == {w \in Workers : /\ worker[w].run = c.run
                              /\ worker[w].token = c.token
                              /\ worker[w].pc = WaitsAt(c.op)}

\* Mutant: a refused mark-submitted does not stop the worker.
AnswerUnread(c, ok) ==
    /\ calls' = calls \ {c}
    /\ worker' = [w \in Workers |->
          IF w \notin Waiting(c) THEN worker[w]
          ELSE IF c.op = "mark-submitted"
               THEN [worker[w] EXCEPT !.pc = "post"] ELSE Idle]

(***************************************************************************)
(* Call c is answered.  Whoever still waits goes on: to the provider, to   *)
(* report a completion that was refused, or to the end of the job.         *)
(***************************************************************************)
Answer(c, ok) ==
    LET refusedResult == c.op \in Completions /\ ~ok
    IN  /\ calls' = (calls \ {c})
              \cup {Call("fail", w, "provider_unknown") :
                        w \in {v \in Waiting(c) : refusedResult}}
        /\ worker' = [w \in Workers |->
              IF w \notin Waiting(c) THEN worker[w]
              ELSE IF c.op = "mark-submitted" /\ ok
                   THEN [worker[w] EXCEPT !.pc = "post"]
              ELSE IF refusedResult THEN [worker[w] EXCEPT !.pc = "failing"]
              ELSE Idle]

\* A call of the current attempt does what `effect' says; another gets 409.
Serve(c, effect) ==
    /\ IF Current(c.run, c.token) THEN effect ELSE UNCHANGED vars
    /\ Answer(c, Current(c.run, c.token))
    /\ UNCHANGED <<taken, object, cleaner>>

ServeRenew(c) ==
    /\ c \in calls /\ c.op = "renew"
    /\ Serve(c, RenewLease(c.run, c.token))

ServeMarkSubmitted(c) ==
    /\ c \in calls /\ c.op = "mark-submitted"
    /\ Serve(c, MarkSubmitted(c.run, c.token))

ServeFail(c) ==
    /\ c \in calls /\ c.op = "fail"
    /\ Serve(c, FailRun(c.run, c.token, c.outcome))

\* complete_run, before its transaction: the place and the object are read.
Readable(r) ==
    request[r].tool \in ImageTools =>
        reservation[r] \in {"reserved", "committed"} /\ object[r]

(***************************************************************************)
(* AIService.complete_run reads the run, its place and its object outside  *)
(* the transaction that decides.  The output may break the tool's contract *)
(* or be too large, or no storage be configured (413 and 503: nothing is   *)
(* written).                                                               *)
(***************************************************************************)
CheckResult(c) ==
    /\ c \in calls /\ c.op = "complete"
    /\ \/ \E verdict \in {"reject"} \cup (IF Readable(c.run)
                                        THEN {"commit"} ELSE {}) :
            /\ calls' = (calls \ {c}) \cup {[c EXCEPT !.op = verdict]}
            /\ UNCHANGED worker
       \/ Answer(c, FALSE)
    /\ UNCHANGED <<vars, taken, object, cleaner>>

ServeCommit(c) ==
    /\ c \in calls /\ c.op = "commit"
    /\ Serve(c, CompleteRun(c.run, c.token))

\* Mutant: the run is failed without giving its credits back.
ServeRejectUnsettled(c) ==
    /\ c \in calls /\ c.op = "reject"
    /\ IF Current(c.run, c.token)
       THEN /\ state' = [state EXCEPT ![c.run] = "failed"]
            /\ UNCHANGED <<credits, request, attempt, upload, reservation,
                           artifact>>
       ELSE UNCHANGED vars
    /\ Answer(c, FALSE)
    /\ UNCHANGED <<taken, object, cleaner>>

\* The run has failed, but the worker is told 422.
ServeReject(c) ==
    /\ c \in calls /\ c.op = "reject"
    /\ IF Current(c.run, c.token) THEN FailRun(c.run, c.token, "failed")
                                  ELSE UNCHANGED vars
    /\ Answer(c, FALSE)
    /\ UNCHANGED <<taken, object, cleaner>>

-----------------------------------------------------------------------------
\* Mutant: a place that is only kept, not given up, is listed too.
ListUncommitted(kind, r) ==
    /\ cleaner = Resting
    /\ IF kind = "place" THEN reservation[r] \in {"reserved", "pending"}
                         ELSE artifact[r] = "pending"
    /\ cleaner' = [kind |-> kind, run |-> r, removed |-> FALSE]
    /\ UNCHANGED <<vars, worker, calls, taken, object>>

(***************************************************************************)
(* AIService.cleanup_artifacts for one listed object: the object goes      *)
(* first, then the row says so.                                            *)
(***************************************************************************)
ListGivenUp(kind, r) ==
    /\ cleaner = Resting
    /\ IF kind = "place" THEN reservation[r] = "pending"
                         ELSE artifact[r] = "pending"
    /\ cleaner' = [kind |-> kind, run |-> r, removed |-> FALSE]
    /\ UNCHANGED <<vars, worker, calls, taken, object>>

DeleteObject ==
    /\ cleaner # Resting /\ ~cleaner.removed
    /\ object' = [object EXCEPT ![cleaner.run] = FALSE]
    /\ cleaner' = [cleaner EXCEPT !.removed = TRUE]
    /\ UNCHANGED <<vars, worker, calls, taken>>

\* The storage refuses, or the clean-up call dies.
GiveUpCleaning ==
    /\ cleaner # Resting
    /\ cleaner' = Resting
    /\ UNCHANGED <<vars, worker, calls, taken, object>>

MarkCleaned ==
    /\ cleaner.removed
    /\ IF cleaner.kind = "place" THEN MarkReservationDeleted(cleaner.run)
                                 ELSE MarkArtifactDeleted(cleaner.run)
    /\ cleaner' = Resting
    /\ UNCHANGED <<worker, calls, taken, object>>

-----------------------------------------------------------------------------
\* What users, administrators and time do to the store.
UserStep ==
    /\ \/ \E u \in Users, c \in Correlations, q \in GrantSizes :
                GrantCredits(u, c, q)
       \/ \E u \in Users, x \in Uploads : CreateUpload(u, x)
       \/ \E x \in Uploads : MarkUploadDeletionPending(x)
       \/ ListUploadsPendingDeletion
       \/ \E x \in Uploads : MarkUploadDeleted(x)
       \/ \E r \in RunIds, q \in Request : CreateRun(r, q)
       \/ \E r \in RunIds : DeleteRun(r)
       \/ Tick
    /\ UNCHANGED workVars

WorkerStep(w) ==
    \/ Claim(w)
    \/ Prepare(w)
    \/ Renew(w)
    \/ PostProvider(w)
    \/ StoreObject(w)
    \/ TimeOut(w)
    \/ Crash(w)

ServerStep ==
    \E c \in calls :
        \/ ServeRenew(c)
        \/ ServeMarkSubmitted(c)
        \/ ServeFail(c)
        \/ CheckResult(c)
        \/ ServeCommit(c)
        \/ ServeReject(c)

CleanerStep ==
    \/ \E kind \in {"place", "artifact"}, r \in RunIds : ListGivenUp(kind, r)
    \/ DeleteObject
    \/ GiveUpCleaning
    \/ MarkCleaned

WorkNext == \/ UserStep
            \/ \E w \in Workers : WorkerStep(w)
            \/ ServerStep
            \/ CleanerStep

WorkSpec == WorkInit /\ [][WorkNext]_allVars

-----------------------------------------------------------------------------
Pcs == {"idle", "prepare", "submitting", "post", "store", "completing",
        "failing"}

Doing == [pc : Pcs, run : RunIds \cup {NoRun}, token : 0 .. MaxAttempts,
          posts : 0 .. MaxPosts - 1, lost : BOOLEAN]
AnyCall == [op : Ops, run : RunIds, token : 1 .. MaxAttempts,
            outcome : {"none", "failed", "provider_unknown"}]
Cleaning == [kind : {"none", "place", "artifact"}, run : RunIds \cup {NoRun},
             removed : BOOLEAN]

WorkTypeOK ==
    /\ worker \in [Workers -> Doing]
    /\ \A w \in Workers : worker[w].pc = "idle" => worker[w] = Idle
    /\ calls \subseteq AnyCall
    /\ taken \in [RunIds -> [1 .. MaxAttempts -> 0 .. MaxPosts]]
    /\ object \in [RunIds -> BOOLEAN]
    /\ cleaner \in Cleaning

(***************************************************************************)
(* Whatever is lost, late, or dies, only one attempt at a run ever reaches *)
(* a provider: a worker that lost its lease before its mark-submitted call *)
(* was served cannot go on to a provider a second worker has called.       *)
(***************************************************************************)
OneAttemptReachesProvider ==
    \A r \in RunIds, n, m \in 1 .. MaxAttempts :
        taken[r][n] > 0 /\ taken[r][m] > 0 => n = m

(***************************************************************************)
(* The image of a run that succeeded can be read until its user deletes    *)
(* the run: no clean-up, listed before the run was completed or after, and *)
(* no worker of an earlier attempt, removes it.                            *)
(***************************************************************************)
SucceededImageIsReadable ==
    \A r \in RunIds : artifact[r] = "available" => object[r]

(***************************************************************************)
(* A worker at the provider holds an attempt the store knows was submitted *)
(* there; so a lease that runs out meanwhile ends the run as unknown, and  *)
(* never puts it back in the queue.                                        *)
(***************************************************************************)
ExecutingIsSubmitted ==
    \A w \in Workers :
        Executing(w) => LET a == attempt[worker[w].run]
                        IN  a.number = worker[w].token /\ a.submitted

(***************************************************************************)
(* Nobody is charged for a run no provider took on: the charge is decided  *)
(* by the store, from a call a worker sent, after an answer it had got.    *)
(***************************************************************************)
ChargedOnlyAfterProvider ==
    \A r \in RunIds :
        Captured(r) => \E n \in 1 .. MaxAttempts : taken[r][n] > 0

(***************************************************************************)
(* All that workers, calls in flight and clean-up do to the store is what  *)
(* the store's own specification allows.                                   *)
(***************************************************************************)
WorkKeepsStore == Spec

(***************************************************************************)
(* "No automatic provider retry after an ambiguous submission outcome",    *)
(* says the design of the AI suite.  _post_bounded does retry.             *)
(***************************************************************************)
ProviderAskedOnce ==
    \A r \in RunIds, n \in 1 .. MaxAttempts : taken[r][n] <= 1
=============================================================================
