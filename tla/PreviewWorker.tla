---------------------------- MODULE PreviewWorker ----------------------------
(***************************************************************************)
(* The two tools that compute in a Web Worker under a time limit: the      *)
(* regex lab (query-code-workbench-tools.tsx) and the preview of cron runs *)
(* (developer-inspection-workbench-tools.tsx), in src/apps/web/src/        *)
(* features/tools/, with their workers in src/apps/web/public/workers/.    *)
(*                                                                         *)
(* Workers are numbered in the order they are made.  A terminated worker   *)
(* sends nothing more; one that computes may never end by itself.          *)
(***************************************************************************)
EXTENDS Naturals

CONSTANT MaxPreviews   \* bound of the model: workers ever made

ASSUME PreviewAssumption == MaxPreviews \in Nat

VARIABLES
    lab,          \* the tool on the screen: "none", "regex" or "cron"
    running,      \* the run button is busy
    workerRef,    \* the worker the tool holds, 0 for none
    timerRef,     \* the timer it holds: "none", "start" or "run"
    workers,      \* workers that were made and not terminated
    computing,    \* those that were handed their request
    made,         \* how many were ever made
    requestId,    \* requestIdRef of the cron tool, as the worker made for it
    parsed,       \* the run whose expression is explained, 0 for none
    occurrences   \* the run whose result is shown, 0 for none

previewVars == <<lab, running, workerRef, timerRef, workers, computing, made,
                 requestId, parsed, occurrences>>

PreviewInit ==
    /\ lab = "none"
    /\ running = FALSE
    /\ workerRef = 0
    /\ timerRef = "none"
    /\ workers = {} /\ computing = {}
    /\ made = 0 /\ requestId = 0
    /\ parsed = 0 /\ occurrences = 0

\* Mutant: the worker is let go and not terminated.
ForgetWorker == UNCHANGED <<workers, computing>>

\* worker.terminate()
Terminate ==
    /\ workers' = workers \ {workerRef}
    /\ computing' = computing \ {workerRef}

\* cleanupWorker
Cleanup ==
    /\ Terminate
    /\ workerRef' = 0
    /\ timerRef' = "none"

OpenLab ==
    /\ lab = "none"
    /\ lab' \in {"regex", "cron"}
    /\ running' = FALSE
    /\ parsed' = 0 /\ occurrences' = 0 /\ requestId' = 0
    /\ UNCHANGED <<workerRef, timerRef, workers, computing, made>>

\* Unmount: the effect's clean-up.
CloseLab ==
    /\ lab # "none"
    /\ lab' = "none"
    /\ Cleanup
    /\ running' = FALSE
    /\ parsed' = 0 /\ occurrences' = 0 /\ requestId' = 0
    /\ UNCHANGED made

-----------------------------------------------------------------------------
(***************************************************************************)
(* run, runPreview: the input is well formed.  The button is disabled      *)
(* while a run goes on; an earlier worker is ended all the same.           *)
(***************************************************************************)
Run ==
    /\ lab # "none"
    /\ ~running
    /\ made < MaxPreviews
    /\ workers' = (workers \ {workerRef}) \cup {made + 1}
    /\ computing' = computing \ {workerRef}
    /\ made' = made + 1
    /\ workerRef' = made + 1
    /\ timerRef' = "start"
    /\ running' = TRUE
    /\ requestId' = made + 1
    /\ parsed' = made + 1
    /\ occurrences' = 0
    /\ UNCHANGED lab

\* The input is refused: the catch of run and inspect.
RunRefused ==
    /\ lab # "none"
    /\ ~running
    /\ Cleanup
    /\ parsed' = 0 /\ occurrences' = 0
    /\ UNCHANGED <<lab, running, made, requestId>>

\* reset, which only the cron tool has; it is not disabled by a run.
Reset ==
    /\ lab = "cron"
    /\ Cleanup
    /\ running' = FALSE
    /\ parsed' = 0 /\ occurrences' = 0
    /\ UNCHANGED <<lab, made, requestId>>

\* onmessage, "ready": the limit of the run replaces that of the start, and
\* the worker gets its request.
WorkerReady(w) ==
    /\ w \in workers \ computing
    /\ computing' = computing \cup {w}
    /\ timerRef' = "run"
    /\ UNCHANGED <<lab, running, workerRef, workers, made, requestId, parsed,
                   occurrences>>

\* The request a worker's result names is the one it was made for; the regex
\* lab does not look at it.
TakesResult(w) == lab = "regex" \/ w = requestId

\* onmessage, the result: shown, unless it is an error.
WorkerResult(w) ==
    /\ w \in computing
    /\ IF TakesResult(w)
       THEN /\ occurrences' \in {w, 0}
            /\ running' = FALSE
            /\ Cleanup
       ELSE UNCHANGED <<occurrences, running, workerRef, timerRef, workers, computing>>
    /\ UNCHANGED <<lab, made, requestId, parsed>>

\* onerror
WorkerError(w) ==
    /\ w \in workers
    /\ running' = FALSE
    /\ Cleanup
    /\ UNCHANGED <<lab, made, requestId, parsed, occurrences>>

\* Either timer: the run is stopped with an error.
TimerEnds ==
    /\ timerRef # "none"
    /\ running' = FALSE
    /\ Cleanup
    /\ UNCHANGED <<lab, made, requestId, parsed, occurrences>>

PreviewNext ==
    \/ OpenLab \/ CloseLab
    \/ Run \/ RunRefused \/ Reset
    \/ \E w \in workers : WorkerReady(w) \/ WorkerResult(w) \/ WorkerError(w)
    \/ TimerEnds

\* The browser's timers end.  A worker does not have to do anything.
PreviewFairness == WF_previewVars(TimerEnds)

PreviewSpec == PreviewInit /\ [][PreviewNext]_previewVars /\ PreviewFairness

-----------------------------------------------------------------------------
PreviewTypeOK ==
    /\ lab \in {"none", "regex", "cron"}
    /\ running \in BOOLEAN
    /\ workerRef \in 0 .. MaxPreviews
    /\ timerRef \in {"none", "start", "run"}
    /\ workers \subseteq 1 .. MaxPreviews
    /\ computing \subseteq workers
    /\ made \in 0 .. MaxPreviews
    /\ requestId \in 0 .. MaxPreviews
    /\ parsed \in 0 .. MaxPreviews
    /\ occurrences \in 0 .. MaxPreviews

\* There is a worker just while a run is shown as going on, it is the one the
\* tool can terminate, and a timer is set that will: whatever the worker does,
\* and whenever the user resets or leaves, none is left computing.  A result
\* on the screen is that of the expression explained next to it.
NoOrphanWorker ==
    /\ workers = IF running THEN {workerRef} ELSE {}
    /\ running <=> workerRef # 0
    /\ running <=> timerRef # "none"
    /\ occurrences # 0 => occurrences = parsed
=============================================================================
