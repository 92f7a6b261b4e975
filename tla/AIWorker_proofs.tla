--------------------------- MODULE AIWorker_proofs ---------------------------
(***************************************************************************)
(* What workers, calls in flight and clean-up do to the store is allowed   *)
(* by the store's own specification; so every theorem about the store      *)
(* holds of the whole system.                                              *)
(***************************************************************************)
EXTENDS AIWorker, AIRuns_proofs

Outcomes == {"failed", "provider_unknown"}

\* A busy worker, a call, and the clean-up name runs and attempts that exist.
BusyOnRun ==
    \A w \in Workers : worker[w].pc # "idle" =>
        worker[w].run \in RunIds /\ worker[w].token \in 1 .. MaxAttempts

CallsName ==
    \A c \in calls : /\ c.run \in RunIds
                     /\ c.token \in 1 .. MaxAttempts
                     /\ c.op = "fail" => c.outcome \in Outcomes

CleanerNames ==
    cleaner # Resting => cleaner.run \in RunIds

IdleIsAtRest ==
    \A w \in Workers : worker[w].pc = "idle" => worker[w] = Idle

CallInv ==
    /\ worker \in [Workers -> Doing]
    /\ IdleIsAtRest
    /\ BusyOnRun
    /\ calls \subseteq AnyCall
    /\ CallsName
    /\ cleaner \in Cleaning
    /\ CleanerNames

LEMMA IdleIsDoing == Idle \in Doing /\ Idle.pc = "idle"
<1>1. 0 \in 0 .. MaxAttempts /\ 0 \in 0 .. MaxPosts - 1
  BY BoundsAssumption, WorkersAssumption
<1>2. QED
  BY <1>1 DEF Idle, Doing, Pcs

LEMMA CallInit == WorkInit => CallInv
<1>1. Resting \in Cleaning
  BY DEF Resting, Cleaning
<1>2. QED
  BY <1>1, IdleIsDoing
  DEF WorkInit, CallInv, BusyOnRun, CallsName, CleanerNames, IdleIsAtRest, Idle

\* A worker that sends a call stays where it was in the store's terms.
LEMMA SendKeeps ==
    ASSUME CallInv, NEW w \in Workers, worker[w].pc # "idle",
           NEW op \in Ops, NEW outcome \in Outcomes \cup {"none"},
           NEW pc \in Pcs \ {"idle"}, Send(op, w, outcome, pc),
           op = "fail" => outcome \in Outcomes, UNCHANGED cleaner
    PROVE  CallInv'
<1>1. /\ Call(op, w, outcome) \in AnyCall
      /\ Call(op, w, outcome).op = op
      /\ Call(op, w, outcome).outcome = outcome
  BY DEF Call, CallInv, BusyOnRun, AnyCall, Outcomes
<1>2. calls' \subseteq AnyCall /\ CallsName'
  <2>1. \A c \in calls' : c \in calls \/ c = Call(op, w, outcome)
    BY DEF Send
  <2>2. QED
    BY <1>1, <2>1 DEF CallInv, CallsName, AnyCall
<1>3. worker' = [worker EXCEPT ![w] = [worker[w] EXCEPT !.pc = pc]]
  BY DEF Send
<1>4. worker[w] \in Doing
  BY DEF CallInv
<1>5. LET d == [worker[w] EXCEPT !.pc = pc]
      IN  /\ d \in Doing /\ d.pc = pc
          /\ d.run = worker[w].run /\ d.token = worker[w].token
  BY <1>4 DEF Doing
<1>6. BusyOnRun' /\ worker' \in [Workers -> Doing] /\ IdleIsAtRest'
  BY <1>3, <1>5 DEF CallInv, BusyOnRun, IdleIsAtRest
<1>7. QED
  BY <1>2, <1>6 DEF CallInv, CleanerNames

LEMMA ReportKeeps ==
    ASSUME CallInv, NEW w \in Workers, worker[w].pc # "idle",
           NEW verdict, Report(w, verdict), UNCHANGED cleaner
    PROVE  CallInv'
BY SendKeeps DEF Report, Fail, Outcomes, Pcs, Ops, Completions

LEMMA TryKeeps ==
    ASSUME CallInv, NEW w \in Workers, worker[w].pc # "idle",
           NEW verdict, TryAgain(w, verdict), UNCHANGED cleaner
    PROVE  CallInv'
<1>1. CASE worker[w].posts + 1 < MaxPosts
  <2>1. worker' = [worker EXCEPT ![w] = [worker[w] EXCEPT !.posts = @ + 1]]
    BY <1>1 DEF TryAgain
  <2>2. worker[w] \in Doing
    BY DEF CallInv
  <2>3. worker[w].posts + 1 \in 0 .. MaxPosts - 1
    BY <1>1, <2>2, WorkersAssumption DEF Doing
  <2>4. LET d == [worker[w] EXCEPT !.posts = @ + 1]
        IN  /\ d \in Doing /\ d.pc = worker[w].pc
            /\ d.run = worker[w].run /\ d.token = worker[w].token
    BY <2>2, <2>3 DEF Doing
  <2>5. BusyOnRun' /\ worker' \in [Workers -> Doing] /\ IdleIsAtRest'
    BY <2>1, <2>4 DEF CallInv, BusyOnRun, IdleIsAtRest
  <2>6. QED
    BY <1>1, <2>5 DEF TryAgain, CallInv, CallsName, CleanerNames
<1>2. CASE ~(worker[w].posts + 1 < MaxPosts)
  BY <1>2, ReportKeeps DEF TryAgain
<1>3. QED
  BY <1>1, <1>2

LEMMA AnswerKeeps ==
    ASSUME CallInv, NEW c \in calls, NEW ok \in BOOLEAN, c.op \in Ops,
           Answer(c, ok), UNCHANGED cleaner
    PROVE  CallInv'
<1>1. \A w \in Waiting(c) : /\ worker[w].run \in RunIds
                             /\ worker[w].token \in 1 .. MaxAttempts
  BY DEF Waiting, WaitsAt, Ops, Completions, CallInv, BusyOnRun
<1>2. \A w \in Waiting(c) :
        LET d == Call("fail", w, "provider_unknown")
        IN  d \in AnyCall /\ d.outcome \in Outcomes
  BY <1>1 DEF Call, Outcomes, AnyCall, Ops
<1>3. calls' \subseteq AnyCall /\ CallsName'
  <2>1. \A d \in calls' :
          \/ d \in calls
          \/ \E w \in Waiting(c) : d = Call("fail", w, "provider_unknown")
    BY DEF Answer
  <2>2. QED
    BY <1>2, <2>1 DEF CallInv, CallsName, AnyCall
<1>4. ASSUME NEW w \in Workers
      PROVE  /\ worker'[w] \in Doing
             /\ worker'[w].pc = "idle" => worker'[w] = Idle
             /\ worker'[w].pc # "idle" => /\ worker'[w].run = worker[w].run
                                          /\ worker'[w].token = worker[w].token
                                          /\ worker[w].pc # "idle"
  <2>1. CASE w \notin Waiting(c)
    BY <2>1 DEF Answer, CallInv, IdleIsAtRest
  <2>2. CASE w \in Waiting(c)
    <3>1. \/ worker'[w] = Idle
          \/ \E pc \in {"post", "failing"} :
                worker'[w] = [worker[w] EXCEPT !.pc = pc]
      BY <2>2 DEF Answer
    <3>2. worker[w].pc # "idle"
      BY <2>2 DEF Waiting, WaitsAt, Ops, Completions
    <3>3. worker[w] \in Doing
      BY DEF CallInv
    <3>4. QED
      <4>1. CASE worker'[w] = Idle
        BY <4>1, IdleIsDoing
      <4>2. ASSUME NEW pc \in {"post", "failing"},
                   worker'[w] = [worker[w] EXCEPT !.pc = pc]
            PROVE  /\ worker'[w] \in Doing
                   /\ worker'[w].pc = pc
                   /\ worker'[w].run = worker[w].run
                   /\ worker'[w].token = worker[w].token
        BY <3>3, <4>2 DEF Doing, Pcs
      <4>3. QED
        BY <3>1, <3>2, <4>1, <4>2
  <2>3. QED
    BY <2>1, <2>2
<1>5. BusyOnRun' /\ worker' \in [Workers -> Doing] /\ IdleIsAtRest'
  <2>1. DOMAIN worker' = Workers /\ worker' = [w \in Workers |-> worker'[w]]
    BY DEF Answer
  <2>2. QED
    BY <1>4, <2>1 DEF CallInv, BusyOnRun, IdleIsAtRest
<1>6. QED
  BY <1>3, <1>4, <1>5 DEF CallInv, CleanerNames

\* The attempt a claim hands out.
LEMMA NewAttempt ==
    ASSUME TypeInv, NEW s \in RunIds \cup {NoRun}, NEW r \in RunIds,
           ClaimPending(s, r)
    PROVE  attempt'[r].number \in 1 .. MaxAttempts
<1>1. r # NoRun /\ Claimable(r) /\ attempt[r].number < MaxAttempts
  BY DEF ClaimPending, RunIds, NoRun
<1>2. s # r
  BY <1>1 DEF ClaimPending, Claimable, Abandoned, Expired
<1>3. attempt'[r].number = attempt[r].number + 1
  BY <1>2 DEF ClaimPending
<1>4. attempt[r].number \in 0 .. MaxAttempts
  BY DEF TypeInv, TypeOK, Attempt
<1>5. QED
  BY <1>1, <1>3, <1>4, BoundsAssumption

-----------------------------------------------------------------------------
\* What a worker does keeps the names right.
LEMMA WorkerKeeps ==
    ASSUME TypeInv, CallInv, NEW w \in Workers, WorkerStep(w)
    PROVE  CallInv'
<1>1. CASE Claim(w)
  <2>1. CASE UNCHANGED worker
    BY <1>1, <2>1
    DEF Claim, CallInv, BusyOnRun, CallsName, CleanerNames, IdleIsAtRest
  <2>2. CASE worker' # worker
    <3>1. PICK s \in RunIds \cup {NoRun}, r \in RunIds \cup {NoRun} :
            /\ ClaimPending(s, r)
            /\ r # NoRun
            /\ worker' = [worker EXCEPT ![w].pc = "prepare", ![w].run = r,
                                       ![w].token = attempt'[r].number]
      BY <1>1, <2>2 DEF Claim
    <3>2. r \in RunIds /\ attempt'[r].number \in 1 .. MaxAttempts
      BY <3>1, NewAttempt
    <3>3. PICK n \in 1 .. MaxAttempts : n = attempt'[r].number
      BY <3>2
    <3>4. worker[w] \in Doing
      BY DEF CallInv
    <3>5. ASSUME NEW d, d = [worker[w] EXCEPT !.pc = "prepare", !.run = r,
                                              !.token = n]
          PROVE  d \in Doing /\ d.pc = "prepare" /\ d.run = r /\ d.token = n
      <4>1. n \in 0 .. MaxAttempts
        OBVIOUS
      <4>2. r \in RunIds \cup {NoRun} /\ "prepare" \in Pcs
        BY <3>2 DEF Pcs
      <4>3. QED
        BY <3>4, <3>5, <4>1, <4>2 DEF Doing
    <3>6. worker' = [worker EXCEPT ![w] =
              [worker[w] EXCEPT !.pc = "prepare", !.run = r, !.token = n]]
      BY <3>1, <3>3
    <3>7. worker' \in [Workers -> Doing] /\ BusyOnRun' /\ IdleIsAtRest'
      BY <3>2, <3>3, <3>5, <3>6 DEF CallInv, BusyOnRun, IdleIsAtRest
    <3>8. QED
      BY <1>1, <3>7 DEF Claim, CallInv, CallsName, CleanerNames
  <2>3. QED
    BY <2>1, <2>2
<1>2. CASE Prepare(w)
  BY <1>2, SendKeeps DEF Prepare, Fail, Outcomes, Pcs, Ops, Completions
<1>3. CASE Renew(w)
  <2>1. CASE UNCHANGED <<worker, calls>>
    BY <1>3, <2>1
    DEF Renew, CallInv, BusyOnRun, CallsName, CleanerNames, IdleIsAtRest
  <2>2. CASE /\ worker' = [worker EXCEPT ![w].lost = TRUE]
             /\ calls' = calls \cup {Call("renew", w, "none")}
    <3>1. worker[w] \in Doing /\ worker[w].pc # "idle"
      BY <1>3 DEF Renew, Executing, CallInv
    <3>2. LET d == [worker[w] EXCEPT !.lost = TRUE]
          IN  /\ d \in Doing /\ d.pc = worker[w].pc
              /\ d.run = worker[w].run /\ d.token = worker[w].token
      BY <3>1, Zenon DEF Doing
    <3>3. worker' \in [Workers -> Doing] /\ BusyOnRun' /\ IdleIsAtRest'
      BY <2>2, <3>1, <3>2 DEF CallInv, BusyOnRun, IdleIsAtRest
    <3>4. calls' \subseteq AnyCall /\ CallsName'
      <4>1. /\ Call("renew", w, "none") \in AnyCall
            /\ Call("renew", w, "none").op = "renew"
        BY <3>1 DEF CallInv, BusyOnRun, Call, AnyCall, Ops
      <4>2. QED
        BY <2>2, <4>1 DEF CallInv, CallsName, AnyCall
    <3>5. QED
      BY <1>3, <3>3, <3>4 DEF Renew, CallInv, CleanerNames
  <2>3. QED
    BY <1>3, <2>1, <2>2 DEF Renew
<1>4. CASE PostProvider(w)
  <2>1. worker[w].pc # "idle" /\ UNCHANGED cleaner
    BY <1>4 DEF PostProvider
  <2>2. CASE /\ worker' = [worker EXCEPT ![w].pc = "store"]
             /\ UNCHANGED calls
    <3>1. worker[w] \in Doing
      BY DEF CallInv
    <3>2. LET d == [worker[w] EXCEPT !.pc = "store"]
          IN  /\ d \in Doing /\ d.pc = "store"
              /\ d.run = worker[w].run /\ d.token = worker[w].token
      BY <3>1 DEF Doing, Pcs
    <3>3. worker' \in [Workers -> Doing] /\ BusyOnRun' /\ IdleIsAtRest'
      BY <2>1, <2>2, <3>2 DEF CallInv, BusyOnRun, IdleIsAtRest
    <3>4. QED
      BY <2>1, <2>2, <3>3 DEF CallInv, CallsName, CleanerNames
  <2>3. CASE \E verdict : Report(w, verdict) \/ TryAgain(w, verdict)
    BY <2>1, <2>3, ReportKeeps, TryKeeps
  <2>4. QED
    BY <1>4, <2>2, <2>3 DEF PostProvider
<1>5. CASE StoreObject(w)
  BY <1>5, ReportKeeps DEF StoreObject
<1>6. CASE TimeOut(w) /\ worker[w].pc = "completing"
  BY <1>6, SendKeeps DEF TimeOut, Fail, Outcomes, Pcs, Ops
<1>7. CASE worker' = [worker EXCEPT ![w] = Idle] /\ UNCHANGED <<calls, cleaner>>
  <2>1. worker' \in [Workers -> Doing] /\ BusyOnRun' /\ IdleIsAtRest'
    BY <1>7, IdleIsDoing DEF CallInv, BusyOnRun, IdleIsAtRest
  <2>2. QED
    BY <1>7, <2>1 DEF CallInv, CallsName, CleanerNames
<1>8. QED
  BY <1>1, <1>2, <1>3, <1>4, <1>5, <1>6, <1>7
     DEF WorkerStep, TimeOut, Crash

LEMMA CallStep ==
    TypeInv /\ CallInv /\ [WorkNext]_allVars => CallInv'
<1> SUFFICES ASSUME TypeInv, CallInv, [WorkNext]_allVars
             PROVE  CallInv'
  OBVIOUS
<1>1. CASE UserStep \/ UNCHANGED allVars
  BY <1>1 DEF UserStep, workVars, allVars, CallInv, BusyOnRun, CallsName,
              CleanerNames, IdleIsAtRest
<1>2. CASE \E w \in Workers : WorkerStep(w)
  BY <1>2, WorkerKeeps
<1>3. ASSUME NEW c \in calls, CheckResult(c)
      PROVE  CallInv'
  <2>1. CASE Answer(c, FALSE)
    BY <1>3, <2>1, AnswerKeeps DEF CheckResult, Ops, Completions
  <2>2. ASSUME NEW verdict \in {"reject", "commit"},
               calls' = (calls \ {c}) \cup {[c EXCEPT !.op = verdict]}
        PROVE  calls' \subseteq AnyCall /\ CallsName'
    <3>1. c \in AnyCall
      BY DEF CallInv
    <3>2. LET d == [c EXCEPT !.op = verdict]
          IN  d \in AnyCall /\ d.op = verdict
      BY <3>1 DEF AnyCall, Ops, Completions
    <3>3. QED
      BY <2>2, <3>2 DEF CallInv, CallsName, AnyCall
  <2>3. CASE ~Answer(c, FALSE)
    BY <1>3, <2>2, <2>3
    DEF CheckResult, CallInv, BusyOnRun, CleanerNames, IdleIsAtRest
  <2>4. QED
    BY <2>1, <2>3
<1>4. ASSUME NEW c \in calls,
             \/ ServeRenew(c)
             \/ ServeMarkSubmitted(c)
             \/ ServeFail(c)
             \/ ServeCommit(c)
             \/ ServeReject(c)
      PROVE  CallInv'
  <2>1. Current(c.run, c.token) \in BOOLEAN
    BY DEF Current
  <2>2. c.op \in Ops
    BY <1>4 DEF ServeRenew, ServeMarkSubmitted, ServeFail, ServeCommit,
                ServeReject, Ops, Completions
  <2>3. UNCHANGED cleaner
    BY <1>4 DEF ServeRenew, ServeMarkSubmitted, ServeFail, ServeCommit,
                ServeReject, Serve
  <2>4. CASE ServeReject(c)
    <3>1. Answer(c, FALSE)
      BY <2>4 DEF ServeReject
    <3>2. QED
      BY <2>2, <2>3, <3>1, AnswerKeeps
  <2>5. CASE ~ServeReject(c)
    <3>1. Answer(c, Current(c.run, c.token))
      BY <1>4, <2>5 DEF ServeRenew, ServeMarkSubmitted, ServeFail,
                        ServeCommit, Serve
    <3>2. QED
      BY <2>1, <2>2, <2>3, <3>1, AnswerKeeps
  <2>6. QED
    BY <2>4, <2>5
<1>5. CASE CleanerStep
  <2>1. cleaner' \in Cleaning /\ CleanerNames'
    <3>1. ASSUME NEW kind \in {"place", "artifact"}, NEW r \in RunIds,
                 ListGivenUp(kind, r)
          PROVE  cleaner' \in Cleaning /\ CleanerNames'
      BY <3>1 DEF ListGivenUp, CleanerNames, Cleaning
    <3>2. CASE DeleteObject
      <4>1. cleaner' = [cleaner EXCEPT !.removed = TRUE]
        BY <3>2 DEF DeleteObject
      <4>2. cleaner \in Cleaning
        BY DEF CallInv
      <4>3. cleaner' \in Cleaning /\ cleaner'.run = cleaner.run
        BY <4>1, <4>2 DEF Cleaning
      <4>4. QED
        BY <3>2, <4>3 DEF DeleteObject, CallInv, CleanerNames
    <3>3. CASE GiveUpCleaning \/ MarkCleaned
      <4>1. cleaner' = Resting
        BY <3>3 DEF GiveUpCleaning, MarkCleaned
      <4>2. QED
        BY <4>1 DEF CleanerNames, Resting, Cleaning
    <3>4. QED
      BY <1>5, <3>1, <3>2, <3>3 DEF CleanerStep
  <2>2. UNCHANGED <<worker, calls>>
    BY <1>5 DEF CleanerStep, ListGivenUp, DeleteObject, GiveUpCleaning,
                MarkCleaned
  <2>3. QED
    BY <2>1, <2>2 DEF CallInv, BusyOnRun, CallsName, IdleIsAtRest
<1>6. QED
  BY <1>1, <1>2, <1>3, <1>4, <1>5 DEF WorkNext, ServerStep

-----------------------------------------------------------------------------
\* Every step of the system is a step of the store, or does not concern it.
LEMMA StepOfStore ==
    CallInv /\ [WorkNext]_allVars => [Next]_vars
<1> SUFFICES ASSUME CallInv, [WorkNext]_allVars
             PROVE  [Next]_vars
  OBVIOUS
<1>1. CASE UserStep \/ UNCHANGED allVars
  BY <1>1 DEF UserStep, allVars, Next
<1>2. ASSUME NEW w \in Workers, WorkerStep(w)
      PROVE  [Next]_vars
  <2>1. CASE Claim(w)
    BY <2>1 DEF Claim, Next
  <2>2. CASE Renew(w)
    <3>1. worker[w].run \in RunIds /\ worker[w].token \in 1 .. MaxAttempts
      BY <2>2 DEF Renew, Executing, CallInv, BusyOnRun
    <3>2. RenewLease(worker[w].run, worker[w].token) \/ UNCHANGED vars
      BY <2>2 DEF Renew, RenewLease
    <3>3. QED
      BY <3>1, <3>2 DEF Next
  <2>3. CASE ~Claim(w) /\ ~Renew(w)
    BY <1>2, <2>3 DEF WorkerStep, Prepare, PostProvider, StoreObject, TimeOut,
                      Crash
  <2>4. QED
    BY <2>1, <2>2, <2>3
<1>3. ASSUME NEW c \in calls,
             \/ ServeRenew(c)
             \/ ServeMarkSubmitted(c)
             \/ ServeFail(c)
             \/ CheckResult(c)
             \/ ServeCommit(c)
             \/ ServeReject(c)
      PROVE  [Next]_vars
  <2>1. /\ c.run \in RunIds
        /\ c.token \in 1 .. MaxAttempts
        /\ c.op = "fail" => c.outcome \in Outcomes
    BY DEF CallInv, CallsName
  <2>2. \/ UNCHANGED vars
        \/ RenewLease(c.run, c.token)
        \/ MarkSubmitted(c.run, c.token)
        \/ \E outcome \in Outcomes : FailRun(c.run, c.token, outcome)
        \/ CompleteRun(c.run, c.token)
    BY <1>3, <2>1 DEF ServeRenew, ServeMarkSubmitted, ServeFail, CheckResult,
                      ServeCommit, ServeReject, Serve, Outcomes
  <2>3. QED
    BY <2>1, <2>2 DEF Next, Outcomes
<1>4. CASE CleanerStep
  BY <1>4 DEF CleanerStep, ListGivenUp, DeleteObject, GiveUpCleaning,
              MarkCleaned, Next, CallInv, CleanerNames, Resting
<1>5. QED
  BY <1>1, <1>2, <1>3, <1>4 DEF WorkNext, ServerStep

(***************************************************************************)
(* However workers, calls and clean-up interleave, crash and repeat, what  *)
(* they do to the store is what the store's specification allows           *)
(* (ai.py and service.py call nothing of the store but its operations, and *)
(* name only runs and attempts it handed to them).                         *)
(***************************************************************************)
THEOREM WorkersKeepStore == WorkSpec => WorkKeepsStore
<1>1. WorkInit => Init /\ TypeInv /\ CallInv
  BY TypeInit, CallInit DEF WorkInit
<1>2. TypeInv /\ CallInv /\ [WorkNext]_allVars => TypeInv' /\ CallInv'
  BY TypeStep, CallStep, StepOfStore
<1>3. TypeInv /\ CallInv /\ [WorkNext]_allVars => [Next]_vars
  BY StepOfStore
<1>4. QED
  BY <1>1, <1>2, <1>3, PTL DEF WorkSpec, WorkKeepsStore, Spec

(***************************************************************************)
(* The money of the whole system, by the theorems about the store: credits *)
(* are conserved, back active runs only, are settled once, and are charged *)
(* only for results (storage.py, whatever ai.py does at the other end).    *)
(***************************************************************************)
THEOREM WorkKeepsMoney ==
    WorkSpec => [](/\ CreditsConserved
                   /\ ReservedBacksActiveRuns
                   /\ SettledExactlyOnce
                   /\ ChargedOnlyForResult)
<1>1. WorkSpec => Spec
  BY WorkersKeepStore DEF WorkKeepsStore
<1>2. QED
  BY <1>1, CreditsAreConserved, ReservedIsBacked, RunsSettledOnce,
     ResultsAreWhatIsPaid, PTL

-----------------------------------------------------------------------------
(***************************************************************************)
(* Who reached a provider.                                                 *)
(***************************************************************************)
Submitted(r, n) == attempt[r].number = n /\ attempt[r].submitted
TakenOn(r, n) == taken[r][n] > 0

ReachInv ==
    /\ taken \in [RunIds -> [1 .. MaxAttempts -> Nat]]
    /\ \A w \in Workers :
          Executing(w) => Submitted(worker[w].run, worker[w].token)
    /\ \A r \in RunIds, n \in 1 .. MaxAttempts :
          TakenOn(r, n) => Submitted(r, n)
    /\ \A w \in Workers :
          worker[w].pc = "store" => TakenOn(worker[w].run, worker[w].token)
    /\ \A c \in calls : c.op \in Completions => TakenOn(c.run, c.token)

LEMMA ReachInit == WorkInit => ReachInv
BY DEF WorkInit, ReachInv, Idle, Executing, TakenOn

\* What was submitted stays so: only a claim makes a new attempt.
LEMMA SubmittedStays ==
    ASSUME TypeInv, UntouchedBeforeClaim, [Next]_vars, NEW r \in RunIds, NEW n,
           Submitted(r, n)
    PROVE  Submitted(r, n)'
<1>1. attempt'[r].number = n
  BY ReplacedOnlyWhenSafe DEF Submitted
<1>2. attempt'[r].submitted
  <2> USE DEF TypeInv, TypeOK, Submitted, Attempt
  <2>1. ASSUME NEW t \in RunIds \cup {NoRun}, NEW c \in RunIds \cup {NoRun},
               ClaimPending(t, c)
        PROVE  attempt'[r].submitted
    <3>1. CASE r = t
      BY <2>1, <3>1 DEF ClaimPending
    <3>2. CASE r # t /\ r = c
      <4>1. attempt'[r].number = attempt[r].number + 1
        BY <2>1, <3>2 DEF ClaimPending
      <4>2. QED
        BY <1>1, <4>1
    <3>3. CASE r # t /\ r # c
      BY <2>1, <3>3 DEF ClaimPending
    <3>4. QED
      BY <3>1, <3>2, <3>3
  <2>2. ASSUME NEW p \in RunIds, NEW k \in 1 .. MaxAttempts,
               \/ RenewLease(p, k)
               \/ MarkSubmitted(p, k)
               \/ CompleteRun(p, k)
               \/ \E outcome \in {"failed", "provider_unknown"} :
                    FailRun(p, k, outcome)
        PROVE  attempt'[r].submitted
    <3>1. \/ attempt' = [attempt EXCEPT ![p].lease = Lease]
          \/ attempt' = [attempt EXCEPT ![p].submitted = TRUE]
          \/ attempt' = [attempt EXCEPT ![p].completed = TRUE]
      BY <2>2 DEF RenewLease, MarkSubmitted, CompleteRun, FailRun
    <3>2. QED
      BY <3>1
  <2>3. CASE Tick
    BY <2>3 DEF Tick
  <2>4. CASE \/ \E u \in Users, c \in Correlations, q \in GrantSizes :
                   GrantCredits(u, c, q)
             \/ \E u \in Users, x \in Uploads : CreateUpload(u, x)
             \/ \E x \in Uploads : MarkUploadDeletionPending(x)
             \/ ListUploadsPendingDeletion
             \/ \E x \in Uploads : MarkUploadDeleted(x)
             \/ \E p \in RunIds, q \in Request : CreateRun(p, q)
             \/ \E p \in RunIds : DeleteRun(p)
             \/ \E p \in RunIds : MarkReservationDeleted(p)
             \/ \E p \in RunIds : MarkArtifactDeleted(p)
             \/ UNCHANGED vars
    BY <2>4 DEF GrantCredits, CreateUpload, MarkUploadDeletionPending,
         ListUploadsPendingDeletion, MarkUploadDeleted, CreateRun, DeleteRun,
         MarkReservationDeleted, MarkArtifactDeleted, vars
  <2>5. QED
    BY <2>1, <2>2, <2>3, <2>4 DEF Next
<1>3. QED
  BY <1>1, <1>2 DEF Submitted

\* Worker w is the only one that moves, and keeps its run and its attempt.
OnlyMoves(w, pcs) ==
    /\ \A v \in Workers \ {w} : worker'[v] = worker[v]
    /\ worker'[w].pc \in pcs
    /\ worker'[w].run = worker[w].run
    /\ worker'[w].token = worker[w].token

LEMMA SendFacts ==
    ASSUME CallInv, NEW w \in Workers, NEW op, NEW outcome, NEW pc,
           Send(op, w, outcome, pc)
    PROVE  /\ OnlyMoves(w, {pc})
           /\ \A d \in calls' \ calls : /\ d.op = op
                                        /\ d.run = worker[w].run
                                        /\ d.token = worker[w].token
<1>1. worker' = [worker EXCEPT ![w] = [worker[w] EXCEPT !.pc = pc]]
  BY DEF Send
<1>2. worker[w] \in Doing
  BY DEF CallInv
<1>3. /\ [worker[w] EXCEPT !.pc = pc].pc = pc
      /\ [worker[w] EXCEPT !.pc = pc].run = worker[w].run
      /\ [worker[w] EXCEPT !.pc = pc].token = worker[w].token
  BY <1>2 DEF Doing
<1>4. OnlyMoves(w, {pc})
  BY <1>1, <1>3 DEF OnlyMoves, CallInv
<1>5. QED
  BY <1>4 DEF Send, Call

LEMMA ReportFacts ==
    ASSUME CallInv, NEW w \in Workers, NEW verdict, Report(w, verdict)
    PROVE  /\ OnlyMoves(w, {"completing", "failing"})
           /\ \A d \in calls' \ calls :
                \/ d.op = "fail"
                \/ /\ verdict = "result"
                   /\ d.run = worker[w].run
                   /\ d.token = worker[w].token
BY SendFacts DEF Report, Fail, OnlyMoves

LEMMA TryFacts ==
    ASSUME CallInv, NEW w \in Workers, NEW verdict, verdict # "result",
           worker[w].pc = "post", TryAgain(w, verdict)
    PROVE  /\ OnlyMoves(w, {"post", "completing", "failing"})
           /\ \A d \in calls' \ calls : d.op = "fail"
<1>1. CASE worker[w].posts + 1 < MaxPosts
  <2>1. worker' = [worker EXCEPT ![w] = [worker[w] EXCEPT !.posts = @ + 1]]
    BY <1>1 DEF TryAgain
  <2>2. worker[w] \in Doing
    BY DEF CallInv
  <2>3. /\ [worker[w] EXCEPT !.posts = @ + 1].pc = "post"
        /\ [worker[w] EXCEPT !.posts = @ + 1].run = worker[w].run
        /\ [worker[w] EXCEPT !.posts = @ + 1].token = worker[w].token
    BY <2>2 DEF Doing
  <2>4. QED
    BY <1>1, <2>1, <2>3 DEF TryAgain, OnlyMoves, CallInv
<1>2. CASE ~(worker[w].posts + 1 < MaxPosts)
  BY <1>2, ReportFacts DEF TryAgain, OnlyMoves
<1>3. QED
  BY <1>1, <1>2

LEMMA AnswerFacts ==
    ASSUME CallInv, NEW c \in calls, c.op \in Ops, NEW ok \in BOOLEAN,
           Answer(c, ok)
    PROVE  /\ \A v \in Workers :
                \/ worker'[v] = worker[v]
                \/ worker'[v].pc \in {"idle", "failing"}
                \/ /\ c.op = "mark-submitted"
                   /\ ok
                   /\ worker'[v].pc = "post"
                   /\ worker'[v].run = c.run
                   /\ worker'[v].token = c.token
           /\ \A d \in calls' \ calls : d.op = "fail"
<1>1. ASSUME NEW v \in Workers
      PROVE  \/ worker'[v] = worker[v]
             \/ worker'[v].pc \in {"idle", "failing"}
             \/ /\ c.op = "mark-submitted"
                /\ ok
                /\ worker'[v].pc = "post"
                /\ worker'[v].run = c.run
                /\ worker'[v].token = c.token
  <2>1. worker[v] \in Doing
    BY DEF CallInv
  <2>2. CASE v \notin Waiting(c)
    BY <2>2 DEF Answer
  <2>3. CASE v \in Waiting(c) /\ worker'[v] = Idle
    BY <2>3 DEF Idle
  <2>4. CASE /\ v \in Waiting(c)
             /\ worker'[v] = [worker[v] EXCEPT !.pc = "failing"]
    BY <2>1, <2>4 DEF Doing
  <2>5. CASE /\ v \in Waiting(c)
             /\ c.op = "mark-submitted"
             /\ ok
             /\ worker'[v] = [worker[v] EXCEPT !.pc = "post"]
    BY <2>1, <2>5 DEF Doing, Waiting
  <2>6. QED
    BY <2>2, <2>3, <2>4, <2>5 DEF Answer
<1>2. \A d \in calls' \ calls : d.op = "fail"
  BY DEF Answer, Call
<1>3. QED
  BY <1>1, <1>2

\* One request more that the provider took on.
LEMMA OneMoreTaken ==
    ASSUME ReachInv, NEW w \in Workers, TookOn(w),
           NEW r \in RunIds, NEW n \in 1 .. MaxAttempts,
           r = worker[w].run, n = worker[w].token
    PROVE  /\ taken' \in [RunIds -> [1 .. MaxAttempts -> Nat]]
           /\ \A p \in RunIds, k \in 1 .. MaxAttempts :
                /\ taken[p][k] \in Nat
                /\ taken'[p][k] = IF p = r /\ k = n THEN taken[p][k] + 1
                                                   ELSE taken[p][k]
<1>1. taken' = [taken EXCEPT ![r][n] = @ + 1]
  BY DEF TookOn
<1>2. /\ taken \in [RunIds -> [1 .. MaxAttempts -> Nat]]
      /\ \A p \in RunIds : taken[p] \in [1 .. MaxAttempts -> Nat]
  BY DEF ReachInv
<1>3. PICK row : row = [taken[r] EXCEPT ![n] = taken[r][n] + 1]
  OBVIOUS
<1>4. /\ row \in [1 .. MaxAttempts -> Nat]
      /\ \A k \in 1 .. MaxAttempts :
            row[k] = IF k = n THEN taken[r][k] + 1 ELSE taken[r][k]
  <2>1. PICK f \in [1 .. MaxAttempts -> Nat] : f = taken[r]
    BY <1>2
  <2>2. row = [f EXCEPT ![n] = f[n] + 1]
    BY <1>3, <2>1
  <2>3. /\ row \in [1 .. MaxAttempts -> Nat]
        /\ \A k \in 1 .. MaxAttempts : row[k] = IF k = n THEN f[n] + 1 ELSE f[k]
    BY <2>2
  <2>4. QED
    BY <2>1, <2>3
<1>5. taken' = [taken EXCEPT ![r] = row]
  BY <1>1, <1>3
<1>6. taken' \in [RunIds -> [1 .. MaxAttempts -> Nat]]
  BY <1>2, <1>4, <1>5
<1>7. \A p \in RunIds : taken'[p] = IF p = r THEN row ELSE taken[p]
  BY <1>2, <1>5
<1>8. QED
  BY <1>2, <1>4, <1>6, <1>7

LEMMA TakenStays ==
    ASSUME CallInv, ReachInv, [WorkNext]_allVars,
           NEW r \in RunIds, NEW n \in 1 .. MaxAttempts, TakenOn(r, n)
    PROVE  TakenOn(r, n)'
<1>1. ASSUME NEW w \in Workers, PostProvider(w), TookOn(w)
      PROVE  TakenOn(r, n)'
  <2>1. /\ worker[w].run \in RunIds
        /\ worker[w].token \in 1 .. MaxAttempts
    BY <1>1 DEF PostProvider, CallInv, BusyOnRun
  <2>2. taken[r][n] \in Nat /\ taken'[r][n] \in {taken[r][n], taken[r][n] + 1}
    BY <1>1, <2>1, OneMoreTaken
  <2>3. QED
    BY <2>2 DEF TakenOn
<1>2. CASE UNCHANGED taken
  BY <1>2 DEF TakenOn
<1>3. \/ UNCHANGED taken
      \/ \E w \in Workers : PostProvider(w) /\ TookOn(w)
  BY DEF WorkNext, UserStep, workVars, allVars, WorkerStep, Claim, Prepare,
         Renew, PostProvider, StoreObject, TimeOut, Crash, ServerStep,
         ServeRenew, ServeMarkSubmitted, ServeFail, CheckResult, ServeCommit,
         ServeReject, Serve, CleanerStep, ListGivenUp, DeleteObject,
         GiveUpCleaning, MarkCleaned
<1>4. QED
  BY <1>1, <1>2, <1>3

\* A step that asks no provider, completes nothing and sends nobody there.
LEMMA ReachKept ==
    ASSUME TypeInv, UntouchedBeforeClaim, CallInv, ReachInv, [Next]_vars,
           UNCHANGED taken,
           \A d \in calls' \ calls :
              d.op \in Completions => TakenOn(d.run, d.token),
           \A v \in Workers :
              \/ worker'[v] = worker[v]
              \/ worker'[v].pc \notin {"post", "store"}
              \/ /\ worker'[v].pc = worker[v].pc
                 /\ worker'[v].run = worker[v].run
                 /\ worker'[v].token = worker[v].token
              \/ /\ worker'[v].pc = "post"
                 /\ worker'[v].run \in RunIds
                 /\ Submitted(worker[v].run, worker[v].token)'
    PROVE  ReachInv'
<1>1. \A r \in RunIds, n \in 1 .. MaxAttempts :
        Submitted(r, n) => Submitted(r, n)'
  BY SubmittedStays
<1>2. \A r, n : TakenOn(r, n)' <=> TakenOn(r, n)
  BY DEF TakenOn
<1>3. ASSUME NEW v \in Workers, Executing(v)'
      PROVE  Submitted(worker[v].run, worker[v].token)'
  <2>1. CASE worker'[v] = worker[v]
    BY <1>1, <1>3, <2>1 DEF ReachInv, Executing, CallInv, BusyOnRun
  <2>2. CASE /\ worker'[v].pc = worker[v].pc
             /\ worker'[v].run = worker[v].run
             /\ worker'[v].token = worker[v].token
    BY <1>1, <1>3, <2>2 DEF ReachInv, Executing, CallInv, BusyOnRun
  <2>3. QED
    BY <1>3, <2>1, <2>2 DEF Executing
<1>4. ASSUME NEW v \in Workers, worker'[v].pc = "store"
      PROVE  TakenOn(worker[v].run, worker[v].token)'
  BY <1>2, <1>4 DEF ReachInv, TakenOn
<1>5. QED
  BY <1>1, <1>2, <1>3, <1>4 DEF ReachInv

LEMMA ReachedByWorker ==
    ASSUME TypeInv, UntouchedBeforeClaim, CallInv, ReachInv, [Next]_vars,
           NEW w \in Workers, WorkerStep(w)
    PROVE  ReachInv'
<1>1. CASE Claim(w)
  <2>1. UNCHANGED <<taken, calls>>
    BY <1>1 DEF Claim
  <2>2. ASSUME NEW v \in Workers, worker'[v] # worker[v]
        PROVE  worker'[v].pc = "prepare"
    <3>1. worker[v] \in Doing
      BY DEF CallInv
    <3>2. PICK r : worker' = [worker EXCEPT ![w].pc = "prepare", ![w].run = r,
                                          ![w].token = attempt'[r].number]
      BY <1>1, <2>2 DEF Claim
    <3>3. \A n : [worker[v] EXCEPT !.pc = "prepare", !.run = r,
                                   !.token = n].pc = "prepare"
      BY <3>1 DEF Doing
    <3>4. v = w /\ worker'[v] = [worker[v] EXCEPT !.pc = "prepare", !.run = r,
                                        !.token = attempt'[r].number]
      BY <2>2, <3>2 DEF CallInv
    <3>5. QED
      BY <3>3, <3>4
  <2>3. QED
    BY <2>1, <2>2, ReachKept
<1>2. CASE Prepare(w)
  <2>1. \/ Send("mark-submitted", w, "none", "submitting")
        \/ \E outcome \in Outcomes : Send("fail", w, outcome, "failing")
    BY <1>2 DEF Prepare, Fail, Outcomes
  <2>2. /\ \A v \in Workers \ {w} : worker'[v] = worker[v]
        /\ worker'[w].pc \notin {"post", "store"}
        /\ \A d \in calls' \ calls : d.op \notin Completions
    BY <2>1, SendFacts DEF OnlyMoves, Completions
  <2>3. QED
    BY <1>2, <2>2, ReachKept DEF Prepare
<1>3. CASE Renew(w)
  <2>1. CASE UNCHANGED <<worker, calls>>
    BY <1>3, <2>1, ReachKept DEF Renew
  <2>2. CASE /\ worker' = [worker EXCEPT ![w].lost = TRUE]
             /\ calls' = calls \cup {Call("renew", w, "none")}
    <3>1. worker[w] \in Doing
      BY DEF CallInv
    <3>2. LET d == [worker[w] EXCEPT !.lost = TRUE]
          IN  /\ d.pc = worker[w].pc
              /\ d.run = worker[w].run
              /\ d.token = worker[w].token
      BY <3>1 DEF Doing
    <3>3. OnlyMoves(w, {worker[w].pc})
      BY <2>2, <3>2 DEF OnlyMoves, CallInv
    <3>4. \A d \in calls' \ calls : d.op \notin Completions
      BY <2>2 DEF Call, Completions
    <3>5. QED
      BY <1>3, <3>3, <3>4, ReachKept DEF Renew, OnlyMoves
  <2>3. QED
    BY <1>3, <2>1, <2>2 DEF Renew
<1>4. CASE PostProvider(w)
  <2>1. PICK r \in RunIds, n \in 1 .. MaxAttempts :
          /\ r = worker[w].run
          /\ n = worker[w].token
    BY <1>4 DEF PostProvider, CallInv, BusyOnRun
  <2>2. /\ worker[w] \in Doing
        /\ worker[w].pc = "post"
        /\ Submitted(r, n)
        /\ UNCHANGED vars
    BY <1>4, <2>1 DEF PostProvider, CallInv, ReachInv, Executing
  <2>3. \/ TookOn(w)
        \/ UNCHANGED taken
    BY <1>4 DEF PostProvider
  <2>5. /\ taken' \in [RunIds -> [1 .. MaxAttempts -> Nat]]
        /\ \A p \in RunIds, k \in 1 .. MaxAttempts :
              /\ TakenOn(p, k) => TakenOn(p, k)'
              /\ TakenOn(p, k)' => TakenOn(p, k) \/ (p = r /\ k = n)
        /\ TookOn(w) => TakenOn(r, n)'
    <3>1. CASE TookOn(w)
      BY <2>1, <3>1, OneMoreTaken DEF TakenOn
    <3>2. CASE UNCHANGED taken /\ ~TookOn(w)
      BY <3>2 DEF TakenOn, ReachInv
    <3>3. QED
      BY <2>3, <3>1, <3>2 DEF TakenOn, TookOn
  <2>6. \A p \in RunIds, k \in 1 .. MaxAttempts :
          Submitted(p, k) => Submitted(p, k)'
    BY SubmittedStays
  <2>7. /\ OnlyMoves(w, {"post", "store", "completing", "failing"})
        /\ worker'[w].pc = "store" => TookOn(w)
        /\ \A d \in calls' \ calls :
              d.op \in Completions => TookOn(w) /\ d.run = r /\ d.token = n
    <3>1. CASE /\ TookOn(w)
               /\ worker' = [worker EXCEPT ![w].pc = "store"]
               /\ UNCHANGED calls
      <4>1. worker' = [worker EXCEPT ![w] = [worker[w] EXCEPT !.pc = "store"]]
        BY <3>1
      <4>2. LET d == [worker[w] EXCEPT !.pc = "store"]
            IN  d.pc = "store" /\ d.run = r /\ d.token = n
        BY <2>1, <2>2 DEF Doing
      <4>3. QED
        BY <3>1, <4>1, <4>2 DEF OnlyMoves, CallInv
    <3>2. CASE TookOn(w) /\ Report(w, "result")
      BY <2>1, <3>2, ReportFacts DEF OnlyMoves, Completions
    <3>3. CASE \E verdict \in {"failed", "provider_unknown"} :
                  Report(w, verdict)
      BY <3>3, ReportFacts DEF OnlyMoves, Completions
    <3>4. CASE TryAgain(w, "failed") \/ TryAgain(w, "provider_unknown")
      BY <2>1, <2>2, <3>4, TryFacts DEF OnlyMoves, Completions
    <3>5. QED
      BY <1>4, <3>1, <3>2, <3>3, <3>4 DEF PostProvider
  <2>8. \A v \in Workers : Executing(v)' => Executing(v)
    BY <2>1, <2>2, <2>7 DEF OnlyMoves, Executing
  <2>9. \A v \in Workers :
          Executing(v)' => Submitted(worker[v].run, worker[v].token)'
    <3>1. ASSUME NEW v \in Workers, Executing(v)
          PROVE  /\ Submitted(worker[v].run, worker[v].token)
                 /\ worker[v].run \in RunIds
                 /\ worker[v].token \in 1 .. MaxAttempts
      BY <3>1 DEF ReachInv, CallInv, BusyOnRun, Executing
    <3>2. ASSUME NEW v \in Workers
          PROVE  worker'[v].run = worker[v].run /\ worker'[v].token = worker[v].token
      BY <2>7 DEF OnlyMoves
    <3>3. QED
      BY <2>6, <2>8, <3>1, <3>2 DEF Submitted
  <2>10. \A p \in RunIds, k \in 1 .. MaxAttempts :
           TakenOn(p, k)' => Submitted(p, k)'
    BY <2>1, <2>2, <2>5, <2>6 DEF ReachInv
  <2>11. \A v \in Workers :
           worker'[v].pc = "store" => TakenOn(worker[v].run, worker[v].token)'
    BY <2>1, <2>2, <2>5, <2>7 DEF OnlyMoves, ReachInv, CallInv, BusyOnRun, TakenOn
  <2>12. \A d \in calls' : d.op \in Completions => TakenOn(d.run, d.token)'
    BY <2>1, <2>2, <2>5, <2>7 DEF ReachInv, CallInv, CallsName
  <2>13. QED
    BY <2>5, <2>9, <2>10, <2>11, <2>12 DEF ReachInv
<1>5. CASE StoreObject(w)
  <2>1. PICK verdict : Report(w, verdict)
    BY <1>5 DEF StoreObject
  <2>2. /\ \A v \in Workers \ {w} : worker'[v] = worker[v]
        /\ worker'[w].pc \notin {"post", "store"}
        /\ \A d \in calls' \ calls : d.op \in Completions =>
              d.run = worker[w].run /\ d.token = worker[w].token
    BY <2>1, ReportFacts DEF OnlyMoves, Completions
  <2>3. TakenOn(worker[w].run, worker[w].token)
    BY <1>5 DEF StoreObject, ReachInv
  <2>4. QED
    BY <1>5, <2>2, <2>3, ReachKept DEF StoreObject
<1>6. CASE TimeOut(w) /\ worker[w].pc = "completing"
  <2>1. Send("fail", w, "provider_unknown", "failing")
    BY <1>6 DEF TimeOut, Fail
  <2>2. /\ \A v \in Workers \ {w} : worker'[v] = worker[v]
        /\ worker'[w].pc \notin {"post", "store"}
        /\ \A d \in calls' \ calls : d.op \notin Completions
    BY <2>1, SendFacts DEF OnlyMoves, Completions
  <2>3. QED
    BY <1>6, <2>2, ReachKept DEF TimeOut
<1>7. CASE /\ worker' = [worker EXCEPT ![w] = Idle]
           /\ UNCHANGED <<taken, calls>>
  <2>1. \A v \in Workers : worker'[v] = worker[v] \/ worker'[v].pc = "idle"
    BY <1>7 DEF CallInv, Idle
  <2>2. QED
    BY <1>7, <2>1, ReachKept
<1>8. QED
  BY <1>1, <1>2, <1>3, <1>4, <1>5, <1>6, <1>7
     DEF WorkerStep, TimeOut, Crash

LEMMA ReachStep ==
    ASSUME TypeInv, UntouchedBeforeClaim, CallInv, ReachInv, [WorkNext]_allVars
    PROVE  ReachInv'
<1>1. [Next]_vars
  BY StepOfStore
<1>2. CASE UserStep \/ CleanerStep \/ UNCHANGED allVars
  <2>1. UNCHANGED <<worker, calls, taken>>
    BY <1>2 DEF UserStep, CleanerStep, ListGivenUp, DeleteObject,
                GiveUpCleaning, MarkCleaned, workVars, allVars
  <2>2. QED
    BY <1>1, <2>1, ReachKept
<1>3. CASE \E w \in Workers : WorkerStep(w)
  BY <1>1, <1>3, ReachedByWorker
<1>4. ASSUME NEW c \in calls, NEW ok \in BOOLEAN, Answer(c, ok),
             c.op \in Ops, UNCHANGED taken,
             c.op = "mark-submitted" /\ ok => Submitted(c.run, c.token)'
      PROVE  ReachInv'
  <2>1. c.run \in RunIds
    BY DEF CallInv, CallsName
  <2>2. QED
    BY <1>1, <1>4, <2>1, AnswerFacts, ReachKept
       DEF Completions, Submitted
<1>5. ASSUME NEW c \in calls, CheckResult(c)
      PROVE  ReachInv'
  <2>1. CASE Answer(c, FALSE)
    BY <1>4, <1>5, <2>1 DEF CheckResult, Ops, Completions
  <2>2. CASE ~Answer(c, FALSE)
    <3>1. PICK verdict \in {"reject", "commit"} :
            calls' = (calls \ {c}) \cup {[c EXCEPT !.op = verdict]}
      BY <1>5, <2>2 DEF CheckResult
    <3>2. TakenOn(c.run, c.token)
      BY <1>5 DEF CheckResult, ReachInv, Completions
    <3>3. /\ [c EXCEPT !.op = verdict].run = c.run
          /\ [c EXCEPT !.op = verdict].token = c.token
      OBVIOUS
    <3>4. \A d \in calls' \ calls : TakenOn(d.run, d.token)
      BY <3>1, <3>2, <3>3
    <3>5. UNCHANGED <<worker, taken>>
      BY <1>5, <2>2 DEF CheckResult
    <3>6. QED
      BY <1>1, <3>4, <3>5, ReachKept
  <2>3. QED
    BY <2>1, <2>2
<1>6. ASSUME NEW c \in calls, ServeMarkSubmitted(c)
      PROVE  ReachInv'
  <2> DEFINE ok == Current(c.run, c.token)
  <2>1. ok \in BOOLEAN /\ c.run \in RunIds
    BY DEF Current, CallInv, CallsName
  <2>2. Answer(c, ok) /\ c.op = "mark-submitted" /\ UNCHANGED taken
    BY <1>6 DEF ServeMarkSubmitted, Serve
  <2>3. ASSUME ok
        PROVE  Submitted(c.run, c.token)'
    <3>1. attempt' = [attempt EXCEPT ![c.run].submitted = TRUE]
      BY <1>6, <2>3 DEF ServeMarkSubmitted, Serve, MarkSubmitted
    <3>2. attempt[c.run].number = c.token
      BY <2>3 DEF Current
    <3>3. QED
      BY <2>1, <3>1, <3>2 DEF Submitted, TypeInv, TypeOK, Attempt
  <2>4. QED
    BY <1>4, <2>1, <2>2, <2>3 DEF Ops
<1>7. ASSUME NEW c \in calls,
             \/ ServeRenew(c)
             \/ ServeFail(c)
             \/ ServeCommit(c)
      PROVE  ReachInv'
  <2>1. /\ Answer(c, Current(c.run, c.token))
        /\ UNCHANGED taken
        /\ c.op \in Ops /\ c.op # "mark-submitted"
    BY <1>7 DEF ServeRenew, ServeFail, ServeCommit, Serve, Ops, Completions
  <2>2. Current(c.run, c.token) \in BOOLEAN
    BY DEF Current
  <2>3. QED
    BY <1>4, <2>1, <2>2
<1>8. ASSUME NEW c \in calls, ServeReject(c)
      PROVE  ReachInv'
  BY <1>4, <1>8 DEF ServeReject, Ops, Completions
<1>9. QED
  BY <1>2, <1>3, <1>5, <1>6, <1>7, <1>8 DEF WorkNext, ServerStep

-----------------------------------------------------------------------------
(***************************************************************************)
(* How often a provider takes an attempt on: as often as the one worker    *)
(* that holds the attempt has posted, which its limit of posts bounds.     *)
(***************************************************************************)
Held(w) == worker[w].pc # "idle"
SameAttempt(v, w) == /\ worker[v].run = worker[w].run
                     /\ worker[v].token = worker[w].token
TimesTaken(w) == taken[worker[w].run][worker[w].token]

CountInv ==
    /\ \A v, w \in Workers : v # w /\ Held(v) /\ Held(w) => ~SameAttempt(v, w)
    /\ \A w \in Workers :
          Held(w) => worker[w].token <= attempt[worker[w].run].number
    /\ \A w \in Workers :
          worker[w].pc \in {"prepare", "submitting"} => TimesTaken(w) = 0
    /\ \A w \in Workers :
          worker[w].pc = "post" => TimesTaken(w) <= worker[w].posts
    /\ \A r \in RunIds, n \in 1 .. MaxAttempts : taken[r][n] <= MaxPosts

LEMMA CountInit == WorkInit => CountInv
<1> SUFFICES ASSUME WorkInit PROVE CountInv
  OBVIOUS
<1>1. \A w \in Workers : worker[w].pc = "idle"
  BY DEF WorkInit, Idle
<1>2. \A r \in RunIds, n \in 1 .. MaxAttempts : taken[r][n] = 0
  BY DEF WorkInit
<1>3. QED
  BY <1>1, <1>2, WorkersAssumption DEF CountInv, Held

LEMMA NumbersGrow ==
    ASSUME TypeInv, [Next]_vars, NEW r \in RunIds
    PROVE  /\ attempt[r].number \in Nat
           /\ attempt'[r].number \in {attempt[r].number, attempt[r].number + 1}
<1>1. attempt[r].number \in Nat
  BY DEF TypeInv, TypeOK, Attempt
<1>2. ASSUME NEW t \in RunIds \cup {NoRun}, NEW c \in RunIds \cup {NoRun},
             ClaimPending(t, c)
      PROVE  attempt'[r].number \in {attempt[r].number, attempt[r].number + 1}
  BY <1>2 DEF ClaimPending, TypeInv, TypeOK, Attempt
<1>3. QED
  BY <1>1, <1>2, NumberKept

\* Worker v goes on with its attempt, without a new request to a provider.
GoesOn(v) ==
    /\ Held(v)
    /\ worker'[v].run = worker[v].run
    /\ worker'[v].token = worker[v].token
    /\ \/ worker'[v].pc \notin {"prepare", "submitting", "post"}
       \/ worker'[v].pc = "submitting" /\ worker[v].pc = "prepare"
       \/ worker'[v].pc = "post" /\ worker[v].pc = "submitting"
       \/ /\ worker'[v].pc = worker[v].pc
          /\ worker'[v].posts = worker[v].posts

LEMMA CountKept ==
    ASSUME TypeInv, CallInv, CallInv', ReachInv, CountInv, [Next]_vars,
           UNCHANGED taken,
           \A v \in Workers : worker'[v] = worker[v] \/ ~Held(v)' \/ GoesOn(v)
    PROVE  CountInv'
<1>1. ASSUME NEW v \in Workers, Held(v)'
      PROVE  /\ Held(v)
             /\ worker'[v].run = worker[v].run
             /\ worker'[v].token = worker[v].token
             /\ worker[v].run \in RunIds
             /\ worker[v].token \in 1 .. MaxAttempts
             /\ worker'[v].posts \in Nat
  <2>1. Held(v) /\ worker'[v].run = worker[v].run /\ worker'[v].token = worker[v].token
    BY <1>1 DEF GoesOn, Held
  <2>2. worker'[v] \in Doing
    BY DEF CallInv
  <2>3. worker'[v].posts \in 0 .. MaxPosts - 1
    BY <2>2 DEF Doing
  <2>4. QED
    BY <2>1, <2>3 DEF CallInv, BusyOnRun, Held
<1>2. \A v, w \in Workers : v # w /\ Held(v)' /\ Held(w)' => ~SameAttempt(v, w)'
  BY <1>1 DEF CountInv, SameAttempt
<1>3. ASSUME NEW v \in Workers, Held(v)'
      PROVE  worker'[v].token <= attempt'[worker'[v].run].number
  <2>1. worker[v].token <= attempt[worker[v].run].number
    BY <1>1, <1>3 DEF CountInv
  <2>2. QED
    BY <1>1, <1>3, <2>1, NumbersGrow
<1>4. ASSUME NEW v \in Workers, Held(v)'
      PROVE  TimesTaken(v)' = TimesTaken(v)
  BY <1>1, <1>4 DEF TimesTaken
<1>5. ASSUME NEW v \in Workers, worker'[v].pc \in {"prepare", "submitting"}
      PROVE  TimesTaken(v)' = 0
  <2>1. Held(v)' /\ worker[v].pc \in {"prepare", "submitting"}
    BY <1>5 DEF GoesOn, Held
  <2>2. QED
    BY <1>4, <2>1 DEF CountInv
<1>6. ASSUME NEW v \in Workers, worker'[v].pc = "post"
      PROVE  TimesTaken(v)' <= worker'[v].posts
  <2>1. Held(v)'
    BY <1>6 DEF Held
  <2>2. CASE worker[v].pc = "submitting"
    BY <1>1, <1>4, <2>1, <2>2 DEF CountInv
  <2>3. CASE worker[v].pc = "post" /\ worker'[v].posts = worker[v].posts
    BY <1>4, <2>1, <2>3 DEF CountInv
  <2>4. QED
    BY <1>6, <2>1, <2>2, <2>3 DEF GoesOn
<1>7. \A r \in RunIds, n \in 1 .. MaxAttempts : taken'[r][n] <= MaxPosts
  BY DEF CountInv
<1>8. QED
  BY <1>2, <1>3, <1>5, <1>6, <1>7 DEF CountInv

LEMMA AnswerMoves ==
    ASSUME CallInv, NEW c \in calls, c.op \in Ops, NEW ok, Answer(c, ok)
    PROVE  \A v \in Workers : worker'[v] = worker[v] \/ ~Held(v)' \/ GoesOn(v)
<1> SUFFICES ASSUME NEW v \in Workers
             PROVE  worker'[v] = worker[v] \/ ~Held(v)' \/ GoesOn(v)
  OBVIOUS
<1>1. worker[v] \in Doing
  BY DEF CallInv
<1>2. CASE v \notin Waiting(c)
  BY <1>2 DEF Answer
<1>3. CASE v \in Waiting(c)
  <2>1. Held(v) /\ (c.op = "mark-submitted" => worker[v].pc = "submitting")
    BY <1>3 DEF Waiting, WaitsAt, Ops, Completions, Held
  <2>2. CASE worker'[v] = Idle
    BY <2>2 DEF Idle, Held
  <2>3. CASE worker'[v] = [worker[v] EXCEPT !.pc = "failing"]
    BY <1>1, <2>1, <2>3 DEF Doing, GoesOn
  <2>4. CASE /\ c.op = "mark-submitted"
             /\ worker'[v] = [worker[v] EXCEPT !.pc = "post"]
    BY <1>1, <2>1, <2>4 DEF Doing, GoesOn
  <2>5. QED
    BY <1>3, <2>2, <2>3, <2>4 DEF Answer
<1>4. QED
  BY <1>2, <1>3

\* A claim hands out an attempt nobody holds, that no provider has seen.
LEMMA CountClaim ==
    ASSUME TypeInv, CallInv, ReachInv, CountInv, [Next]_vars,
           NEW w \in Workers, NEW r \in RunIds, NEW s \in RunIds \cup {NoRun},
           ClaimPending(s, r), UNCHANGED taken,
           worker[w] = Idle,
           worker' = [worker EXCEPT ![w].pc = "prepare", ![w].run = r,
                                    ![w].token = attempt'[r].number]
    PROVE  CountInv'
<1>1. PICK n \in 1 .. MaxAttempts : n = attempt'[r].number
  BY NewAttempt
<1>2. attempt[r].number \in Nat /\ n = attempt[r].number + 1
  <2>1. r # NoRun /\ Claimable(r)
    BY DEF ClaimPending, RunIds, NoRun
  <2>2. s # r
    BY <2>1 DEF ClaimPending, Claimable, Abandoned, Expired
  <2>3. attempt'[r].number = attempt[r].number + 1
    BY <2>2 DEF ClaimPending
  <2>4. QED
    BY <1>1, <2>3, NumbersGrow
<1>3. /\ worker'[w].pc = "prepare" /\ worker'[w].run = r /\ worker'[w].token = n
      /\ \A v \in Workers \ {w} : worker'[v] = worker[v]
  <2>1. worker[w] \in Doing
    BY DEF CallInv
  <2>2. worker' = [worker EXCEPT ![w] = [worker[w] EXCEPT
                     !.pc = "prepare", !.run = r, !.token = n]]
    BY <1>1
  <2>3. LET d == [worker[w] EXCEPT !.pc = "prepare", !.run = r, !.token = n]
        IN  d.pc = "prepare" /\ d.run = r /\ d.token = n
    BY <2>1 DEF Doing
  <2>4. QED
    BY <2>2, <2>3 DEF CallInv
<1>4. ASSUME NEW v \in Workers \ {w}, Held(v)
      PROVE  /\ worker[v].run \in RunIds /\ worker[v].token \in 1 .. MaxAttempts
             /\ worker[v].token <= attempt[worker[v].run].number
             /\ worker[v].token <= attempt'[worker[v].run].number
             /\ ~(worker[v].run = r /\ worker[v].token = n)
  <2>1. worker[v].run \in RunIds /\ worker[v].token \in 1 .. MaxAttempts
    BY <1>4 DEF CallInv, BusyOnRun, Held
  <2>2. worker[v].token <= attempt[worker[v].run].number
    BY <1>4 DEF CountInv
  <2>3. /\ attempt[worker[v].run].number \in Nat
        /\ \/ attempt'[worker[v].run].number = attempt[worker[v].run].number
           \/ attempt'[worker[v].run].number = attempt[worker[v].run].number + 1
    BY <2>1, NumbersGrow
  <2>4. QED
    BY <1>2, <2>1, <2>2, <2>3
<1>5. \A v, x \in Workers : v # x /\ Held(v)' /\ Held(x)' => ~SameAttempt(v, x)'
  <2> SUFFICES ASSUME NEW v \in Workers, NEW x \in Workers,
                      v # x, Held(v)', Held(x)'
               PROVE  ~SameAttempt(v, x)'
    OBVIOUS
  <2>1. CASE v = w
    <3>1. worker'[x] = worker[x] /\ Held(x) /\ x \in Workers \ {w}
      BY <1>3, <2>1 DEF Held
    <3>2. ~(worker[x].run = r /\ worker[x].token = n)
      BY <1>4, <3>1
    <3>3. QED
      BY <1>3, <2>1, <3>1, <3>2 DEF SameAttempt
  <2>2. CASE x = w
    <3>1. worker'[v] = worker[v] /\ Held(v) /\ v \in Workers \ {w}
      BY <1>3, <2>2 DEF Held
    <3>2. ~(worker[v].run = r /\ worker[v].token = n)
      BY <1>4, <3>1
    <3>3. QED
      BY <1>3, <2>2, <3>1, <3>2 DEF SameAttempt
  <2>3. CASE v # w /\ x # w
    <3>1. worker'[v] = worker[v] /\ worker'[x] = worker[x]
      BY <1>3, <2>3
    <3>2. Held(v) /\ Held(x)
      BY <3>1 DEF Held
    <3>3. ~SameAttempt(v, x)
      BY <3>2 DEF CountInv
    <3>4. QED
      BY <3>1, <3>3 DEF SameAttempt
  <2>4. QED
    BY <2>1, <2>2, <2>3
<1>6. \A v \in Workers :
        Held(v)' => worker'[v].token <= attempt'[worker'[v].run].number
  <2> SUFFICES ASSUME NEW v \in Workers, Held(v)'
               PROVE  worker'[v].token <= attempt'[worker'[v].run].number
    OBVIOUS
  <2>1. CASE v = w
    BY <1>1, <1>3, <2>1
  <2>2. CASE v # w
    <3>1. worker'[v] = worker[v] /\ Held(v) /\ v \in Workers \ {w}
      BY <1>3, <2>2 DEF Held
    <3>2. worker[v].token <= attempt'[worker[v].run].number
      BY <1>4, <3>1
    <3>3. QED
      BY <3>1, <3>2
  <2>3. QED
    BY <2>1, <2>2
<1>7. taken'[r][n] = 0
  <2>1. ~TakenOn(r, n)
    BY <1>2 DEF ReachInv, Submitted
  <2>2. taken[r][n] \in Nat
    BY DEF ReachInv
  <2>3. QED
    BY <2>1, <2>2 DEF TakenOn
<1>8. \A v \in Workers :
        /\ worker'[v].pc \in {"prepare", "submitting"} => TimesTaken(v)' = 0
        /\ worker'[v].pc = "post" => TimesTaken(v)' <= worker'[v].posts
  BY <1>3, <1>7 DEF CountInv, TimesTaken
<1>9. QED
  BY <1>5, <1>6, <1>8 DEF CountInv

\* A post that the provider takes on counts against the posts of its worker,
\* and nobody else's.
LEMMA CountPost ==
    ASSUME TypeInv, CallInv, CallInv', ReachInv, CountInv, [Next]_vars,
           UNCHANGED vars, NEW w \in Workers, worker[w].pc = "post",
           OnlyMoves(w, {"post", "store", "completing", "failing"}),
           TookOn(w) \/ UNCHANGED taken,
           worker'[w].pc = "post" => worker'[w].posts = worker[w].posts + 1
    PROVE  CountInv'
<1>1. PICK r \in RunIds, n \in 1 .. MaxAttempts :
        r = worker[w].run /\ n = worker[w].token
  BY DEF CallInv, BusyOnRun
<1>2. \A p \in RunIds, k \in 1 .. MaxAttempts :
        /\ taken[p][k] \in Nat
        /\ taken'[p][k] = taken[p][k]
             \/ (p = r /\ k = n /\ taken'[p][k] = taken[p][k] + 1)
  <2>1. CASE TookOn(w)
    BY <1>1, <2>1, OneMoreTaken
  <2>2. CASE UNCHANGED taken
    BY <2>2 DEF ReachInv
  <2>3. QED
    BY <2>1, <2>2
<1>3. /\ worker[w].posts \in Nat /\ worker[w].posts + 1 <= MaxPosts
      /\ MaxPosts \in Nat
  <2>1. worker[w] \in Doing
    BY DEF CallInv
  <2>2. worker[w].posts \in 0 .. MaxPosts - 1
    BY <2>1 DEF Doing
  <2>3. QED
    BY <2>2, WorkersAssumption
<1>4. taken[r][n] <= worker[w].posts
  BY <1>1 DEF CountInv, TimesTaken
<1>5. /\ \A v \in Workers \ {w} : worker'[v] = worker[v]
      /\ worker'[w].run = r /\ worker'[w].token = n
      /\ worker'[w].pc \in {"post", "store", "completing", "failing"}
      /\ Held(w)
  BY <1>1 DEF OnlyMoves, Held
<1>6. \A v, x \in Workers : v # x /\ Held(v)' /\ Held(x)' => ~SameAttempt(v, x)'
  BY <1>1, <1>5 DEF CountInv, SameAttempt, Held
<1>7. \A v \in Workers :
        Held(v)' => worker'[v].token <= attempt'[worker'[v].run].number
  BY <1>1, <1>5 DEF CountInv, Held, vars
<1>8. ASSUME NEW v \in Workers \ {w}, Held(v)
      PROVE  TimesTaken(v)' = TimesTaken(v)
  <2>1. ~(worker[v].run = r /\ worker[v].token = n)
    BY <1>1, <1>5, <1>8 DEF CountInv, SameAttempt
  <2>2. worker[v].run \in RunIds /\ worker[v].token \in 1 .. MaxAttempts
    BY <1>8 DEF CallInv, BusyOnRun, Held
  <2>3. QED
    BY <1>2, <1>5, <2>1, <2>2 DEF TimesTaken
<1>9. taken'[r][n] <= worker[w].posts + 1
  BY <1>2, <1>3, <1>4
<1>10. \A v \in Workers :
         /\ worker'[v].pc \in {"prepare", "submitting"} => TimesTaken(v)' = 0
         /\ worker'[v].pc = "post" => TimesTaken(v)' <= worker'[v].posts
  BY <1>5, <1>8, <1>9 DEF CountInv, TimesTaken, Held
<1>11. \A p \in RunIds, k \in 1 .. MaxAttempts : taken'[p][k] <= MaxPosts
  BY <1>2, <1>3, <1>9 DEF CountInv
<1>12. QED
  BY <1>6, <1>7, <1>10, <1>11 DEF CountInv

\* After a post its worker tries again, with one post more, or has reported.
LEMMA PostMoves ==
    ASSUME CallInv, NEW w \in Workers, PostProvider(w)
    PROVE  /\ OnlyMoves(w, {"post", "store", "completing", "failing"})
           /\ worker'[w].pc = "post" => worker'[w].posts = worker[w].posts + 1
<1>1. worker[w] \in Doing /\ worker[w].pc = "post"
  BY DEF CallInv, PostProvider
<1>2. CASE worker' = [worker EXCEPT ![w].pc = "store"]
  <2>1. worker' = [worker EXCEPT ![w] = [worker[w] EXCEPT !.pc = "store"]]
    BY <1>2
  <2>2. LET d == [worker[w] EXCEPT !.pc = "store"]
        IN  d.pc = "store" /\ d.run = worker[w].run /\ d.token = worker[w].token
    BY <1>1 DEF Doing
  <2>3. QED
    BY <2>1, <2>2 DEF OnlyMoves, CallInv
<1>3. ASSUME NEW verdict, Report(w, verdict)
      PROVE  OnlyMoves(w, {"completing", "failing"})
  BY <1>3, ReportFacts
<1>4. ASSUME NEW verdict, TryAgain(w, verdict), worker[w].posts + 1 < MaxPosts
      PROVE  /\ OnlyMoves(w, {"post"})
             /\ worker'[w].posts = worker[w].posts + 1
  <2>1. worker' = [worker EXCEPT ![w] = [worker[w] EXCEPT !.posts = @ + 1]]
    BY <1>4 DEF TryAgain
  <2>2. LET d == [worker[w] EXCEPT !.posts = @ + 1]
        IN  /\ d.pc = "post" /\ d.posts = worker[w].posts + 1
            /\ d.run = worker[w].run /\ d.token = worker[w].token
    BY <1>1 DEF Doing
  <2>3. QED
    BY <2>1, <2>2 DEF OnlyMoves, CallInv
<1>5. \/ worker' = [worker EXCEPT ![w].pc = "store"]
      \/ \E verdict : Report(w, verdict)
      \/ \E verdict : TryAgain(w, verdict) /\ worker[w].posts + 1 < MaxPosts
  BY DEF PostProvider, TryAgain
<1>6. QED
  BY <1>2, <1>3, <1>4, <1>5 DEF OnlyMoves

LEMMA CountedByWorker ==
    ASSUME TypeInv, CallInv, CallInv', ReachInv, CountInv, [Next]_vars,
           NEW w \in Workers, WorkerStep(w)
    PROVE  CountInv'
<1>1. CASE Claim(w)
  <2>1. UNCHANGED taken /\ worker[w] = Idle
    BY <1>1 DEF Claim
  <2>2. CASE UNCHANGED worker
    BY <2>1, <2>2, CountKept
  <2>3. CASE worker' # worker
    <3>1. PICK s \in RunIds \cup {NoRun}, r \in RunIds \cup {NoRun} :
            /\ ClaimPending(s, r)
            /\ r # NoRun
            /\ worker' = [worker EXCEPT ![w].pc = "prepare", ![w].run = r,
                                       ![w].token = attempt'[r].number]
      BY <1>1, <2>3 DEF Claim
    <3>2. QED
      BY <2>1, <3>1, CountClaim
  <2>4. QED
    BY <2>2, <2>3
<1>2. CASE Prepare(w)
  <2>1. /\ worker[w].pc = "prepare" /\ UNCHANGED taken
        /\ \/ Send("mark-submitted", w, "none", "submitting")
           \/ \E outcome \in Outcomes : Send("fail", w, outcome, "failing")
    BY <1>2 DEF Prepare, Fail, Outcomes
  <2>2. OnlyMoves(w, {"submitting", "failing"})
    BY <2>1, SendFacts DEF OnlyMoves
  <2>3. \A v \in Workers : worker'[v] = worker[v] \/ GoesOn(v)
    BY <2>1, <2>2 DEF OnlyMoves, GoesOn, Held
  <2>4. QED
    BY <2>1, <2>3, CountKept
<1>3. CASE Renew(w)
  <2>1. worker[w].pc # "idle" /\ UNCHANGED taken /\ worker[w] \in Doing
    BY <1>3 DEF Renew, Executing, CallInv
  <2>2. CASE UNCHANGED worker
    BY <2>1, <2>2, CountKept
  <2>3. CASE worker' = [worker EXCEPT ![w].lost = TRUE]
    <3>1. LET d == [worker[w] EXCEPT !.lost = TRUE]
          IN  /\ d.pc = worker[w].pc /\ d.posts = worker[w].posts
              /\ d.run = worker[w].run /\ d.token = worker[w].token
      BY <2>1 DEF Doing
    <3>2. GoesOn(w) /\ \A v \in Workers \ {w} : worker'[v] = worker[v]
      BY <2>1, <2>3, <3>1 DEF GoesOn, Held, CallInv
    <3>3. QED
      BY <2>1, <3>2, CountKept
  <2>4. QED
    BY <1>3, <2>2, <2>3 DEF Renew
<1>4. CASE PostProvider(w)
  <2>1. /\ UNCHANGED vars /\ worker[w].pc = "post"
        /\ TookOn(w) \/ UNCHANGED taken
    BY <1>4 DEF PostProvider
  <2>2. QED
    BY <1>4, <2>1, PostMoves, CountPost
<1>5. CASE StoreObject(w)
  <2>1. worker[w].pc = "store" /\ UNCHANGED taken /\ \E verdict : Report(w, verdict)
    BY <1>5 DEF StoreObject
  <2>2. OnlyMoves(w, {"completing", "failing"})
    BY <2>1, ReportFacts
  <2>3. \A v \in Workers : worker'[v] = worker[v] \/ GoesOn(v)
    BY <2>1, <2>2 DEF OnlyMoves, GoesOn, Held
  <2>4. QED
    BY <2>1, <2>3, CountKept
<1>6. CASE TimeOut(w) /\ worker[w].pc = "completing"
  <2>1. /\ worker[w].pc = "completing" /\ UNCHANGED taken
        /\ Send("fail", w, "provider_unknown", "failing")
    BY <1>6 DEF TimeOut, Fail
  <2>2. OnlyMoves(w, {"failing"})
    BY <2>1, SendFacts
  <2>3. \A v \in Workers : worker'[v] = worker[v] \/ GoesOn(v)
    BY <2>1, <2>2 DEF OnlyMoves, GoesOn, Held
  <2>4. QED
    BY <2>1, <2>3, CountKept
<1>7. CASE worker' = [worker EXCEPT ![w] = Idle] /\ UNCHANGED taken
  <2>1. \A v \in Workers : worker'[v] = worker[v] \/ ~Held(v)'
    BY <1>7 DEF CallInv, Held, Idle
  <2>2. QED
    BY <1>7, <2>1, CountKept
<1>8. QED
  BY <1>1, <1>2, <1>3, <1>4, <1>5, <1>6, <1>7 DEF WorkerStep, TimeOut, Crash

LEMMA CountStep ==
    ASSUME TypeInv, CallInv, CallInv', ReachInv, CountInv, [WorkNext]_allVars
    PROVE  CountInv'
<1>1. [Next]_vars
  BY StepOfStore
<1>2. CASE UserStep \/ CleanerStep \/ UNCHANGED allVars
  <2>1. UNCHANGED <<worker, taken>>
    BY <1>2 DEF UserStep, CleanerStep, ListGivenUp, DeleteObject,
                GiveUpCleaning, MarkCleaned, workVars, allVars
  <2>2. QED
    BY <1>1, <2>1, CountKept
<1>3. CASE \E w \in Workers : WorkerStep(w)
  BY <1>1, <1>3, CountedByWorker
<1>4. ASSUME NEW c \in calls,
             \/ ServeRenew(c)
             \/ ServeMarkSubmitted(c)
             \/ ServeFail(c)
             \/ CheckResult(c)
             \/ ServeCommit(c)
             \/ ServeReject(c)
      PROVE  CountInv'
  <2>1. UNCHANGED taken /\ c.op \in Ops
    BY <1>4 DEF ServeRenew, ServeMarkSubmitted, ServeFail, CheckResult,
                ServeCommit, ServeReject, Serve, Ops, Completions
  <2>2. UNCHANGED worker \/ \E ok : Answer(c, ok)
    BY <1>4 DEF ServeRenew, ServeMarkSubmitted, ServeFail, CheckResult,
                ServeCommit, ServeReject, Serve
  <2>3. \A v \in Workers : worker'[v] = worker[v] \/ ~Held(v)' \/ GoesOn(v)
    BY <2>1, <2>2, AnswerMoves
  <2>4. QED
    BY <1>1, <2>1, <2>3, CountKept
<1>5. QED
  BY <1>2, <1>3, <1>4 DEF WorkNext, ServerStep

-----------------------------------------------------------------------------
(***************************************************************************)
(* What is charged for, and what can be read.                              *)
(***************************************************************************)
\* Only a served completion captures, and only it makes an artifact.
LEMMA OnlyCommitCaptures ==
    ASSUME TypeInv, [WorkNext]_allVars, NEW p \in RunIds
    PROVE  \/ /\ Captured(p)' => Captured(p)
              /\ artifact'[p] = "available" => artifact[p] = "available"
           \/ \E c \in calls : ServeCommit(c) /\ CompleteRun(c.run, c.token)
<1> DEFINE Quiet == /\ Captured(p)' => Captured(p)
                    /\ artifact'[p] = "available" => artifact[p] = "available"
<1>1. ASSUME UNCHANGED <<ledger, artifact>>
      PROVE  Quiet
  BY <1>1 DEF Captured
<1>2. ASSUME NEW r, NEW n, NEW outcome, FailRun(r, n, outcome)
      PROVE  Quiet
  BY <1>2, SettleCaptures DEF FailRun
<1>3. CASE UserStep \/ UNCHANGED allVars
  <2>1. CASE \E u \in Users, c \in Correlations, q \in GrantSizes :
                GrantCredits(u, c, q)
    BY <2>1, PostCaptures DEF GrantCredits
  <2>2. CASE \E r \in RunIds, q \in Request : CreateRun(r, q)
    BY <2>2, PostCaptures DEF CreateRun
  <2>3. ASSUME NEW r \in RunIds, DeleteRun(r)
        PROVE  Quiet
    <3>1. Captured(p)' => Captured(p)
      <4>1. CASE state[r] = "pending"
        BY <2>3, <4>1, SettleCaptures DEF DeleteRun
      <4>2. CASE state[r] # "pending"
        BY <2>3, <4>2 DEF DeleteRun, credits, Captured
      <4>3. QED
        BY <4>1, <4>2
    <3>2. artifact'[p] = "available" => artifact[p] = "available"
      BY <2>3 DEF DeleteRun, TypeInv, TypeOK
    <3>3. QED
      BY <3>1, <3>2
  <2>4. CASE \/ \E u \in Users, x \in Uploads : CreateUpload(u, x)
             \/ \E x \in Uploads : MarkUploadDeletionPending(x)
             \/ ListUploadsPendingDeletion
             \/ \E x \in Uploads : MarkUploadDeleted(x)
             \/ Tick
             \/ UNCHANGED allVars
    BY <1>1, <2>4 DEF CreateUpload, MarkUploadDeletionPending, credits, vars,
         ListUploadsPendingDeletion, MarkUploadDeleted, Tick, allVars
  <2>5. QED
    BY <1>3, <2>1, <2>2, <2>3, <2>4 DEF UserStep
<1>4. ASSUME NEW w \in Workers, WorkerStep(w)
      PROVE  Quiet
  <2>1. CASE Claim(w)
    <3>1. PICK s \in RunIds \cup {NoRun}, r \in RunIds \cup {NoRun} :
            ClaimPending(s, r)
      BY <2>1 DEF Claim
    <3>2. UNCHANGED artifact
      BY <3>1 DEF ClaimPending
    <3>3. CASE s = NoRun
      BY <1>1, <3>1, <3>2, <3>3 DEF ClaimPending, credits
    <3>4. CASE s # NoRun
      BY <3>1, <3>2, <3>4, SettleCaptures DEF ClaimPending
    <3>5. QED
      BY <3>3, <3>4
  <2>2. CASE ~Claim(w)
    BY <1>1, <1>4, <2>2 DEF WorkerStep, Prepare, Renew, RenewLease, credits,
         PostProvider, StoreObject, TimeOut, Crash, vars
  <2>3. QED
    BY <2>1, <2>2
<1>5. ASSUME NEW c \in calls,
             \/ ServeRenew(c)
             \/ ServeMarkSubmitted(c)
             \/ ServeFail(c)
             \/ CheckResult(c)
             \/ ServeReject(c)
      PROVE  Quiet
  <2>1. \/ UNCHANGED vars
        \/ RenewLease(c.run, c.token)
        \/ MarkSubmitted(c.run, c.token)
        \/ \E outcome : FailRun(c.run, c.token, outcome)
    BY <1>5 DEF ServeRenew, ServeMarkSubmitted, ServeFail, CheckResult,
                ServeReject, Serve
  <2>2. QED
    BY <1>1, <1>2, <2>1 DEF RenewLease, MarkSubmitted, vars, credits
<1>6. ASSUME NEW c \in calls, ServeCommit(c)
      PROVE  CompleteRun(c.run, c.token) \/ Quiet
  BY <1>1, <1>6 DEF ServeCommit, Serve, vars
<1>7. CASE CleanerStep
  <2>1. CASE MarkCleaned
    BY <2>1 DEF MarkCleaned, MarkReservationDeleted, MarkArtifactDeleted,
                credits, Captured, TypeInv, TypeOK
  <2>2. CASE ~MarkCleaned
    BY <1>1, <1>7, <2>2 DEF CleanerStep, ListGivenUp, DeleteObject,
                            GiveUpCleaning, vars
  <2>3. QED
    BY <2>1, <2>2
<1>8. QED
  BY <1>3, <1>4, <1>5, <1>6, <1>7 DEF WorkNext, ServerStep

\* The runs whose completion is being decided are charged for work done.
LEMMA ChargeStep ==
    ASSUME TypeInv, CallInv, ReachInv, ReachInv', ChargedOnlyAfterProvider,
           [WorkNext]_allVars
    PROVE  ChargedOnlyAfterProvider'
<1> SUFFICES ASSUME NEW p \in RunIds, Captured(p)'
             PROVE  \E n \in 1 .. MaxAttempts : TakenOn(p, n)'
  BY DEF ChargedOnlyAfterProvider, TakenOn
<1>1. CASE Captured(p)
  <2>1. PICK n \in 1 .. MaxAttempts : TakenOn(p, n)
    BY <1>1 DEF ChargedOnlyAfterProvider, TakenOn
  <2>2. TakenOn(p, n)'
    BY <2>1, TakenStays
  <2>3. QED
    BY <2>2
<1>2. CASE ~Captured(p)
  <2>1. PICK c \in calls : ServeCommit(c) /\ CompleteRun(c.run, c.token)
    BY <1>2, OnlyCommitCaptures
  <2>2. c.run = p
    BY <1>2, <2>1, SettleCaptures DEF CompleteRun
  <2>3. TakenOn(c.run, c.token) /\ UNCHANGED taken
    BY <2>1 DEF ServeCommit, Serve, ReachInv, Completions
  <2>4. QED
    BY <2>2, <2>3 DEF CallInv, CallsName, TakenOn
<1>3. QED
  BY <1>1, <1>2

\* What clean-up has been told to remove is never wanted again.
GivenUp(p) == reservation[p] \in {"pending", "deleted"}
Removed(p) == artifact[p] \in {"pending", "deleted"}
Placed(p) == reservation[p] \in {"pending", "deleted", "committed"}

LEMMA GivenUpStays ==
    ASSUME TypeInv, UntouchedBeforeClaim, PlaceKeptForArtifact, [Next]_vars,
           NEW p \in RunIds
    PROVE  /\ GivenUp(p) => GivenUp(p)'
           /\ Placed(p) => Placed(p)'
           /\ Removed(p) => Removed(p)'
<1> USE DEF GivenUp, Placed, Removed, TypeInv, TypeOK
<1>1. CASE UNCHANGED <<reservation, artifact>>
  BY <1>1
<1>2. ASSUME NEW r \in RunIds, DeleteRun(r)
      PROVE  /\ GivenUp(p) => GivenUp(p)'
             /\ Placed(p) => Placed(p)'
             /\ Removed(p) => Removed(p)'
  BY <1>2 DEF DeleteRun, ReleaseReservation
<1>3. ASSUME NEW s \in RunIds \cup {NoRun}, NEW r \in RunIds \cup {NoRun},
             ClaimPending(s, r)
      PROVE  /\ GivenUp(p) => GivenUp(p)'
             /\ Placed(p) => Placed(p)'
             /\ Removed(p) => Removed(p)'
  <2>1. UNCHANGED artifact
    BY <1>3 DEF ClaimPending
  <2>2. reservation'[p] = reservation[p] \/ reservation'[p] = "pending"
            \/ (reservation[p] = "none" /\ reservation'[p] = "reserved")
    BY <1>3 DEF ClaimPending, ReleaseReservation
  <2>3. reservation[p] = "committed" => reservation'[p] = "committed"
    BY <1>3 DEF ClaimPending, ReleaseReservation
  <2>4. QED
    BY <2>1, <2>2, <2>3
<1>4. ASSUME NEW r \in RunIds, NEW n \in 1 .. MaxAttempts, CompleteRun(r, n)
      PROVE  /\ GivenUp(p) => GivenUp(p)'
             /\ Placed(p) => Placed(p)'
             /\ Removed(p) => Removed(p)'
  BY <1>4 DEF CompleteRun, PlaceKeptForArtifact
<1>5. ASSUME NEW r \in RunIds, NEW n \in 1 .. MaxAttempts,
             NEW outcome \in Outcomes, FailRun(r, n, outcome)
      PROVE  /\ GivenUp(p) => GivenUp(p)'
             /\ Placed(p) => Placed(p)'
             /\ Removed(p) => Removed(p)'
  BY <1>5 DEF FailRun, ReleaseReservation
<1>6. CASE \E r \in RunIds : MarkReservationDeleted(r) \/ MarkArtifactDeleted(r)
  BY <1>6 DEF MarkReservationDeleted, MarkArtifactDeleted
<1>7. QED
  BY <1>1, <1>2, <1>3, <1>4, <1>5, <1>6
     DEF Next, GrantCredits, CreateUpload, MarkUploadDeletionPending,
         ListUploadsPendingDeletion, MarkUploadDeleted, CreateRun, RenewLease,
         MarkSubmitted, Tick, vars, Outcomes

ObjectInv ==
    /\ object \in [RunIds -> BOOLEAN]
    /\ cleaner # Resting =>
          IF cleaner.kind = "place" THEN GivenUp(cleaner.run)
                                    ELSE Removed(cleaner.run)
    /\ \A c \in calls :
          c.op = "commit" /\ request[c.run].tool \in ImageTools =>
              object[c.run] \/ Placed(c.run)
    /\ SucceededImageIsReadable

LEMMA ObjectInit == WorkInit => ObjectInv
BY DEF WorkInit, Init, ObjectInv, SucceededImageIsReadable

\* A run somebody reports on exists, so it keeps its request.
LEMMA CallOfRun ==
    ASSUME TypeInv, UntouchedBeforeClaim, CallInv, ReachInv, [Next]_vars,
           NEW c \in calls, c.op \in Completions
    PROVE  /\ c.run \in RunIds
           /\ request'[c.run] = request[c.run]
<1>1. c.run \in RunIds /\ c.token \in 1 .. MaxAttempts
  BY DEF CallInv, CallsName
<1>2. attempt[c.run].number = c.token
  BY <1>1 DEF ReachInv, Submitted
<1>3. Created(c.run)
  BY <1>1, <1>2 DEF UntouchedBeforeClaim, Created
<1>4. request'[c.run] = request[c.run]
  BY <1>1, <1>3, MoneySteps
     DEF QuietStep, GrantStep, OpenStep, EndStep, Same
<1>5. QED
  BY <1>1, <1>4

\* No object disappears but the one clean-up removes.
LEMMA ObjectKept ==
    ASSUME ObjectInv, [WorkNext]_allVars, NEW p \in RunIds
    PROVE  /\ object' \in [RunIds -> BOOLEAN]
           /\ object[p] => object'[p]
                  \/ (DeleteObject /\ p = cleaner.run)
<1>1. CASE UNCHANGED object
  BY <1>1 DEF ObjectInv
<1>2. CASE \E w \in Workers : StoreObject(w)
  BY <1>2 DEF StoreObject, ObjectInv
<1>3. CASE DeleteObject
  BY <1>3 DEF DeleteObject, ObjectInv
<1>4. QED
  BY <1>1, <1>2, <1>3
     DEF WorkNext, UserStep, workVars, allVars, WorkerStep, Claim, Prepare,
         Renew, PostProvider, TimeOut, Crash, ServerStep, ServeRenew,
         ServeMarkSubmitted, ServeFail, CheckResult, ServeCommit,
         ServeReject, Serve, CleanerStep, ListGivenUp, GiveUpCleaning,
         MarkCleaned

\* A decision to commit is taken by nobody but CheckResult.
LEMMA CommitIsChecked ==
    ASSUME CallInv, [WorkNext]_allVars, NEW c \in calls' \ calls,
           c.op = "commit"
    PROVE  \E d \in calls : /\ CheckResult(d)
                            /\ Readable(d.run)
                            /\ c.run = d.run
<1>1. CASE UserStep \/ CleanerStep \/ UNCHANGED allVars
  BY <1>1 DEF UserStep, CleanerStep, ListGivenUp, DeleteObject,
              GiveUpCleaning, MarkCleaned, workVars, allVars
<1>2. ASSUME NEW w \in Workers, WorkerStep(w)
      PROVE  FALSE
  <2>1. CASE UNCHANGED calls
    BY <2>1
  <2>2. CASE \E op \in {"renew", "mark-submitted", "fail", "complete"} : \E outcome :
                calls' = calls \cup {Call(op, w, outcome)}
    BY <2>2 DEF Call
  <2>3. QED
    BY <1>2, <2>1, <2>2 DEF WorkerStep, Claim, Prepare, Renew, PostProvider,
         StoreObject, TimeOut, Crash, Report, TryAgain, Fail, Send
<1>3. ASSUME NEW d \in calls, NEW ok, Answer(d, ok)
      PROVE  FALSE
  BY <1>3 DEF Answer, Call
<1>4. ASSUME NEW d \in calls, CheckResult(d)
      PROVE  Readable(d.run) /\ c.run = d.run
  <2>1. PICK verdict \in {"reject"} \cup (IF Readable(d.run) THEN {"commit"}
                                                          ELSE {}) :
          calls' = (calls \ {d}) \cup {[d EXCEPT !.op = verdict]}
    BY <1>3, <1>4 DEF CheckResult
  <2>2. c = [d EXCEPT !.op = verdict]
    BY <2>1
  <2>3. c.run = d.run
    BY <2>2
  <2>4. verdict = "commit"
    <3>1. ASSUME verdict = "reject"
          PROVE  FALSE
      <4>1. d.op = "complete"
        BY <1>4 DEF CheckResult
      <4>2. QED
        BY <2>2, <3>1, <4>1
    <3>2. QED
      BY <2>1, <3>1
  <2>5. QED
    BY <2>1, <2>3, <2>4
<1>5. ASSUME NEW d \in calls,
             \/ ServeRenew(d)
             \/ ServeMarkSubmitted(d)
             \/ ServeFail(d)
             \/ ServeCommit(d)
             \/ ServeReject(d)
      PROVE  FALSE
  <2>1. Answer(d, FALSE) \/ Answer(d, Current(d.run, d.token))
    BY <1>5 DEF ServeRenew, ServeMarkSubmitted, ServeFail, ServeCommit,
                ServeReject, Serve
  <2>2. QED
    BY <1>3, <2>1
<1>6. QED
  BY <1>1, <1>2, <1>4, <1>5 DEF WorkNext, ServerStep

LEMMA ObjectStep ==
    ASSUME TypeInv, UntouchedBeforeClaim, PlaceKeptForArtifact, CallInv,
           ReachInv, ObjectInv, [WorkNext]_allVars
    PROVE  ObjectInv'
<1>0. [Next]_vars
  BY StepOfStore
<1>1. object' \in [RunIds -> BOOLEAN]
  BY ObjectKept, BoundsAssumption DEF RunIds
<1>2. ASSUME cleaner' # Resting
      PROVE  IF cleaner'.kind = "place" THEN GivenUp(cleaner.run)'
                                        ELSE Removed(cleaner.run)'
  <2>1. CASE UNCHANGED cleaner \/ DeleteObject
    <3>1. /\ cleaner # Resting
          /\ cleaner'.kind = cleaner.kind
          /\ cleaner'.run = cleaner.run
      <4>1. CASE UNCHANGED cleaner
        BY <1>2, <4>1
      <4>2. CASE DeleteObject
        <5>1. /\ [cleaner EXCEPT !.removed = TRUE].kind = cleaner.kind
              /\ [cleaner EXCEPT !.removed = TRUE].run = cleaner.run
          OBVIOUS
        <5>2. QED
          BY <4>2, <5>1 DEF DeleteObject
      <4>3. QED
        BY <2>1, <4>1, <4>2
    <3>2. cleaner.run \in RunIds
      BY <3>1 DEF CallInv, CleanerNames
    <3>3. QED
      BY <1>0, <3>1, <3>2, GivenUpStays DEF ObjectInv, GivenUp, Removed
  <2>2. ASSUME NEW kind \in {"place", "artifact"}, NEW r \in RunIds,
               ListGivenUp(kind, r)
        PROVE  IF cleaner'.kind = "place" THEN GivenUp(cleaner.run)'
                                          ELSE Removed(cleaner.run)'
    BY <2>2 DEF ListGivenUp, GivenUp, Removed, vars
  <2>3. UNCHANGED cleaner \/ CleanerStep
    BY DEF WorkNext, UserStep, workVars, allVars, WorkerStep, Claim, Prepare,
         Renew, PostProvider, StoreObject, TimeOut, Crash, ServerStep,
         ServeRenew, ServeMarkSubmitted, ServeFail, CheckResult, ServeCommit,
         ServeReject, Serve
  <2>4. QED
    BY <1>2, <2>1, <2>2, <2>3 DEF CleanerStep, GiveUpCleaning, MarkCleaned
\* An object that clean-up may remove has a place, but is wanted by no one.
<1>3. ASSUME DeleteObject
      PROVE  /\ Placed(cleaner.run)
             /\ artifact[cleaner.run] # "available"
             /\ UNCHANGED <<vars, calls>>
  <2>1. cleaner # Resting /\ cleaner.run \in RunIds
    BY <1>3 DEF DeleteObject, CallInv, CleanerNames
  <2>2. QED
    BY <1>3, <2>1 DEF DeleteObject, ObjectInv, GivenUp, Removed, Placed,
                      PlaceKeptForArtifact
<1>4. ASSUME NEW c \in calls', c.op = "commit",
             request'[c.run].tool \in ImageTools
      PROVE  object'[c.run] \/ Placed(c.run)'
  <2>1. CASE c \in calls
    <3>1. c.run \in RunIds /\ request'[c.run] = request[c.run]
      BY <1>0, <1>4, <2>1, CallOfRun DEF Completions
    <3>2. object[c.run] \/ Placed(c.run)
      BY <1>4, <2>1, <3>1 DEF ObjectInv
    <3>3. CASE Placed(c.run)
      BY <1>0, <3>1, <3>3, GivenUpStays
    <3>4. CASE object[c.run]
      <4>1. CASE DeleteObject /\ c.run = cleaner.run
        BY <1>3, <4>1 DEF Placed, vars
      <4>2. CASE ~(DeleteObject /\ c.run = cleaner.run)
        BY <3>1, <3>4, <4>2, ObjectKept
      <4>3. QED
        BY <4>1, <4>2
    <3>5. QED
      BY <3>2, <3>3, <3>4
  <2>2. CASE c \notin calls
    <3>1. PICK d \in calls : /\ CheckResult(d)
                             /\ Readable(d.run)
                             /\ c.run = d.run
      BY <1>4, <2>2, CommitIsChecked
    <3>2. UNCHANGED <<vars, object>>
      BY <3>1 DEF CheckResult
    <3>3. object[c.run]
      BY <1>4, <3>1, <3>2 DEF Readable, vars
    <3>4. QED
      BY <3>2, <3>3
  <2>3. QED
    BY <2>1, <2>2
<1>5. ASSUME NEW p \in RunIds, artifact'[p] = "available"
      PROVE  object'[p]
  <2>1. CASE artifact[p] = "available"
    <3>1. object[p]
      BY <2>1 DEF ObjectInv, SucceededImageIsReadable
    <3>2. QED
      BY <1>3, <2>1, <3>1, ObjectKept
  <2>2. CASE artifact[p] # "available"
    <3>1. PICK c \in calls : ServeCommit(c) /\ CompleteRun(c.run, c.token)
      BY <1>5, <2>2, OnlyCommitCaptures
    <3>2. c.run \in RunIds
      BY DEF CallInv, CallsName
    <3>3. c.run = p /\ request[c.run].tool \in ImageTools
               /\ reservation[c.run] = "reserved"
      BY <1>5, <2>2, <3>1, <3>2 DEF CompleteRun, TypeInv, TypeOK
    <3>4. object[c.run]
      BY <3>1, <3>3 DEF ObjectInv, ServeCommit, Placed
    <3>5. UNCHANGED object
      BY <3>1 DEF ServeCommit, Serve
    <3>6. QED
      BY <3>3, <3>4, <3>5
  <2>3. QED
    BY <2>1, <2>2
<1>6. QED
  BY <1>1, <1>2, <1>4, <1>5 DEF ObjectInv, SucceededImageIsReadable

\* What the theorems below rest on, all of it inductive.
WorkInv ==
    /\ TypeInv
    /\ UntouchedBeforeClaim
    /\ PlaceKeptForArtifact
    /\ CallInv
    /\ ReachInv
    /\ CountInv
    /\ ChargedOnlyAfterProvider
    /\ ObjectInv

LEMMA WorkInvCorrect == WorkSpec => []WorkInv
<1>1. WorkInit => WorkInv
  <2> SUFFICES ASSUME WorkInit
               PROVE  WorkInv
    OBVIOUS
  <2>1. ChargedOnlyAfterProvider
    BY DEF WorkInit, Init, ChargedOnlyAfterProvider, Captured
  <2>2. Init
    BY DEF WorkInit
  <2>3. QED
    BY <2>1, <2>2, TypeInit, UntouchedInit, PlaceInit, CallInit, ReachInit,
       CountInit, ObjectInit DEF WorkInv
<1>2. WorkInv /\ [WorkNext]_allVars => WorkInv'
  <2> SUFFICES ASSUME WorkInv, [WorkNext]_allVars
               PROVE  WorkInv'
    OBVIOUS
  <2>1. [Next]_vars
    BY StepOfStore DEF WorkInv
  <2>2. TypeInv' /\ UntouchedBeforeClaim' /\ PlaceKeptForArtifact'
    BY <2>1, TypeStep, UntouchedStep, PlaceStep DEF WorkInv
  <2>3. CallInv' /\ ReachInv'
    BY CallStep, ReachStep DEF WorkInv
  <2>4. CountInv' /\ ChargedOnlyAfterProvider' /\ ObjectInv'
    BY <2>3, CountStep, ChargeStep, ObjectStep DEF WorkInv
  <2>5. QED
    BY <2>2, <2>3, <2>4 DEF WorkInv
<1>3. QED
  BY <1>1, <1>2, PTL DEF WorkSpec

(***************************************************************************)
(* Whatever is lost, late or dies, one attempt at most reaches a provider  *)
(* (ai.py: mark-submitted is answered before provider.execute begins).     *)
(***************************************************************************)
THEOREM ProviderSeesOneAttempt == WorkSpec => []OneAttemptReachesProvider
<1>1. WorkInv => OneAttemptReachesProvider
  BY DEF WorkInv, ReachInv, OneAttemptReachesProvider, TakenOn, Submitted
<1>2. QED
  BY <1>1, WorkInvCorrect, PTL

(***************************************************************************)
(* A worker at the provider holds the last attempt, and the store knows it *)
(* was submitted (ai.py, run_one_ai_job; storage.py, mark_submitted).      *)
(***************************************************************************)
THEOREM SubmissionIsRecorded == WorkSpec => []ExecutingIsSubmitted
<1>1. WorkInv => ExecutingIsSubmitted
  BY DEF WorkInv, ReachInv, ExecutingIsSubmitted, Submitted
<1>2. QED
  BY <1>1, WorkInvCorrect, PTL

(***************************************************************************)
(* Nobody is charged for a run that no provider took on (service.py,       *)
(* complete_run: the charge follows an answer the worker had got).         *)
(***************************************************************************)
THEOREM ChargesFollowWork == WorkSpec => []ChargedOnlyAfterProvider
<1>1. WorkInv => ChargedOnlyAfterProvider
  BY DEF WorkInv
<1>2. QED
  BY <1>1, WorkInvCorrect, PTL

(***************************************************************************)
(* The image of a run that succeeded stays readable until its user deletes *)
(* the run (service.py, complete_run and cleanup_artifacts).               *)
(***************************************************************************)
THEOREM ImagesStayReadable == WorkSpec => []SucceededImageIsReadable
<1>1. WorkInv => SucceededImageIsReadable
  BY DEF WorkInv, ObjectInv
<1>2. QED
  BY <1>1, WorkInvCorrect, PTL

(***************************************************************************)
(* What workers, calls in flight, the provider's count of requests, the    *)
(* objects and the clean-up may look like, whatever is lost, late or dies; *)
(* no attempt is taken on more than _MAX_ATTEMPTS times, since only one    *)
(* worker ever holds it (vercel_gateway_provider.py, _post_bounded).       *)
(***************************************************************************)
THEOREM WorkIsTyped == WorkSpec => []WorkTypeOK
<1>1. WorkInv => WorkTypeOK
  <2> SUFFICES ASSUME WorkInv PROVE WorkTypeOK
    OBVIOUS
  <2>1. taken \in [RunIds -> [1 .. MaxAttempts -> 0 .. MaxPosts]]
    <3>1. taken \in [RunIds -> [1 .. MaxAttempts -> Nat]]
      BY DEF WorkInv, ReachInv
    <3>2. ASSUME NEW r \in RunIds
          PROVE  taken[r] \in [1 .. MaxAttempts -> 0 .. MaxPosts]
      <4>1. taken[r] \in [1 .. MaxAttempts -> Nat]
        BY <3>1
      <4>2. \A n \in 1 .. MaxAttempts : taken[r][n] \in 0 .. MaxPosts
        <5> SUFFICES ASSUME NEW n \in 1 .. MaxAttempts
                     PROVE  taken[r][n] \in 0 .. MaxPosts
          OBVIOUS
        <5>1. taken[r][n] \in Nat
          BY <4>1
        <5>2. taken[r][n] <= MaxPosts
          BY <3>2 DEF WorkInv, CountInv
        <5>3. MaxPosts \in Nat
          BY WorkersAssumption
        <5>4. QED
          BY <5>1, <5>2, <5>3
      <4>3. QED
        BY <4>1, <4>2
    <3>3. QED
      BY <3>1, <3>2
  <2>2. QED
    BY <2>1 DEF WorkInv, CallInv, IdleIsAtRest, ObjectInv, WorkTypeOK
<1>2. QED
  BY <1>1, WorkInvCorrect, PTL
=============================================================================
