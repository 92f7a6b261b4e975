------------------------------- MODULE AIPanel -------------------------------
(***************************************************************************)
(* The panel that starts an AI run and follows it: the form of a text tool *)
(* (account-ai-text-tool-runner.tsx) and the fix plan of a saved audit     *)
(* (account-ai-audit-copilot.tsx), in src/apps/web/src/features/account/,  *)
(* with the proxy between the browser and the API (account-ai-proxy.ts).   *)
(*                                                                         *)
(* A state update, the render it causes and the effects of that render are *)
(* one step.  A run is named by the idempotency key it was asked for with. *)
(***************************************************************************)
EXTENDS Naturals

CONSTANTS
    Inputs,      \* what can be typed into the form
    MaxPolls,    \* MAX_POLL_ATTEMPTS
    MaxSubmits   \* bound of the model: requests for a run ever made

ASSUME PanelAssumption ==
    /\ MaxPolls \in Nat \ {0} /\ MaxSubmits \in Nat
    /\ "nothing" \notin Inputs   \* the mark of a key that was not used yet

VARIABLES
    panel,     \* "closed", or which of the two panels is open
    shown,     \* run: the key of the run on the screen, 0 for none
    state,     \* the state shown with it
    attempt,   \* how often it was asked for since the submit
    phase,     \* what the panel waits for
    answer,    \* what the API has answered to that, and not yet arrived
    error,     \* an error is on the screen
    asked,     \* asked[k]: what was asked for with the k-th key
    onTheWay,  \* keys of requests the API has yet to handle
    lost,      \* keys of requests that ended without an answer of the API
    store      \* store[k]: the state of the run the API made for key k

panelVars == <<panel, shown, state, attempt, phase, answer, error>>
aiVars == <<panelVars, asked, onTheWay, lost, store>>

Terminal == {"succeeded", "failed", "provider_unknown", "deleted"}
RunStates == {"pending", "running"} \cup Terminal

Keys == 1 .. MaxSubmits
Submitted == {k \in Keys : asked[k] # "nothing"}
LastKey == CHOOSE k \in 0 .. MaxSubmits : \A j \in Keys : j <= k <=> j \in Submitted

Fresh(kind) ==
    /\ panel' = kind
    /\ shown' = 0
    /\ state' = "none"
    /\ attempt' = 0
    /\ phase' = "rest"
    /\ answer' = "none"
    /\ error' = FALSE
    /\ UNCHANGED <<asked, onTheWay, lost, store>>

PanelInit ==
    /\ panel = "closed"
    /\ shown = 0
    /\ state = "none"
    /\ attempt = 0
    /\ phase = "rest"
    /\ answer = "none"
    /\ error = FALSE
    /\ asked = [k \in Keys |-> "nothing"]
    /\ onTheWay = {}
    /\ lost = {}
    /\ store = [k \in Keys |-> "none"]

OpenPanel == panel = "closed" /\ \E kind \in {"runner", "copilot"} : Fresh(kind)

\* Unmount: the timer is cleared and a late answer to a poll is not used.
ClosePanel == panel # "closed" /\ Fresh("closed")

-----------------------------------------------------------------------------
\* Mutant: one poll too many.
ShouldPollOnceMore(s, n) == s \notin Terminal /\ n <= MaxPolls

\* shouldPollAIRun
ShouldPoll(s, n) == s \notin Terminal /\ n < MaxPolls

\* The effect that follows the shown run: it sets the timer of the next poll.
Follow(k, s, n) ==
    phase' = IF k # 0 /\ ShouldPoll(s, n) THEN "timer" ELSE "rest"

Show(k, s, n) ==
    /\ shown' = k
    /\ state' = s
    /\ attempt' = n
    /\ answer' = "none"
    /\ Follow(k, s, n)

\* The button is disabled while a request for a run is under way and while
\* the shown run has not come to an end.
MaySubmit == phase = "rest" /\ (shown = 0 \/ state \in Terminal)

(***************************************************************************)
(* submit, startRun: a new key, and for the text tools a blank panel.      *)
(***************************************************************************)
Submit(input) ==
    /\ panel # "closed"
    /\ MaySubmit
    /\ LastKey < MaxSubmits
    /\ asked' = [asked EXCEPT ![LastKey + 1] = input]
    /\ onTheWay' = onTheWay \cup {LastKey + 1}
    /\ IF panel = "runner" THEN shown' = 0 /\ state' = "none"
                           ELSE UNCHANGED <<shown, state>>
    /\ attempt' = 0
    /\ phase' = "creating"
    /\ answer' = "none"
    /\ error' = FALSE
    /\ UNCHANGED <<panel, lost, store>>

(***************************************************************************)
(* The run, or the refusal, comes back.                                    *)
(***************************************************************************)
CreateAnswered ==
    /\ phase = "creating"
    /\ answer # "none"
    /\ IF answer = "refused"
       THEN /\ error' = TRUE
            /\ phase' = "rest"
            /\ answer' = "none"
            /\ UNCHANGED <<shown, state, attempt>>
       ELSE /\ Show(LastKey, answer, attempt)
            /\ UNCHANGED error
    /\ UNCHANGED <<panel, asked, onTheWay, lost, store>>

(***************************************************************************)
(* The proxy gives up after REQUEST_TIMEOUT_MS, cannot reach the API or    *)
(* cannot read its answer.  The API may have made the run, or still do so. *)
(***************************************************************************)
CreateLost ==
    /\ phase = "creating"
    /\ lost' = lost \cup {LastKey}
    /\ error' = TRUE
    /\ phase' = "rest"
    /\ answer' = "none"
    /\ UNCHANGED <<panel, shown, state, attempt, asked, onTheWay, store>>

(***************************************************************************)
(* aiPollDelayMs has passed.                                               *)
(***************************************************************************)
TimerFires ==
    /\ phase = "timer"
    /\ phase' = "polling"
    /\ UNCHANGED <<panel, shown, state, attempt, answer, error,
                   asked, onTheWay, lost, store>>

PollAnswered ==
    /\ phase = "polling"
    /\ answer # "none"
    /\ Show(shown, answer, attempt + 1)
    /\ UNCHANGED <<panel, error, asked, onTheWay, lost, store>>

\* Mutant: a poll that fails is not counted, so the effect does not run again.
PollGivenUp(n) == phase' = "rest" /\ attempt' = n

\* The catch of a poll: the attempt counts, which runs the effect again.
PollCounted(n) == Follow(shown, state, n + 1) /\ attempt' = n + 1

PollLost ==
    /\ phase = "polling"
    /\ error' = TRUE
    /\ answer' = "none"
    /\ PollCounted(attempt)
    /\ UNCHANGED <<panel, shown, state, asked, onTheWay, lost, store>>

-----------------------------------------------------------------------------
\* create_run of the API: one run for a key, or a refusal.
ApiCreate(k) ==
    /\ k \in onTheWay
    /\ onTheWay' = onTheWay \ {k}
    /\ \E made \in BOOLEAN :
        /\ store' = IF made THEN [store EXCEPT ![k] = "pending"] ELSE store
        /\ answer' = IF phase = "creating" /\ k = LastKey
                     THEN IF made THEN "pending" ELSE "refused"
                     ELSE answer
    /\ UNCHANGED <<panel, shown, state, attempt, phase, error, asked, lost>>

\* get_run of the API.
ApiGet ==
    /\ phase = "polling"
    /\ answer = "none"
    /\ answer' = store[shown]
    /\ UNCHANGED <<panel, shown, state, attempt, phase, error,
                   asked, onTheWay, lost, store>>

\* The worker takes a run on and ends it; its owner deletes it elsewhere.
RunGoesOn(k) ==
    /\ \/ /\ store[k] = "pending"
          /\ \E s \in {"running", "failed", "deleted"} :
                store' = [store EXCEPT ![k] = s]
       \/ /\ store[k] = "running"
          /\ \E s \in Terminal \ {"deleted"} : store' = [store EXCEPT ![k] = s]
    /\ UNCHANGED <<panelVars, asked, onTheWay, lost>>

PanelNext ==
    \/ OpenPanel
    \/ ClosePanel
    \/ \E input \in Inputs : Submit(input)
    \/ CreateAnswered
    \/ CreateLost
    \/ TimerFires
    \/ PollAnswered
    \/ PollLost
    \/ ApiGet
    \/ \E k \in Keys : ApiCreate(k) \/ RunGoesOn(k)

(***************************************************************************)
(* Timers fire, and a request ends in an answer or in the time-out of the  *)
(* proxy.  Nobody has to submit, and no run has to end.                    *)
(***************************************************************************)
PanelFairness ==
    /\ WF_aiVars(TimerFires)
    /\ WF_aiVars(CreateAnswered \/ CreateLost)
    /\ WF_aiVars(PollAnswered \/ PollLost)

PanelSpec == PanelInit /\ [][PanelNext]_aiVars /\ PanelFairness

-----------------------------------------------------------------------------
PanelTypeOK ==
    /\ panel \in {"closed", "runner", "copilot"}
    /\ shown \in 0 .. MaxSubmits
    /\ state \in RunStates \cup {"none"}
    /\ attempt \in 0 .. MaxPolls
    /\ phase \in {"rest", "creating", "timer", "polling"}
    /\ answer \in RunStates \cup {"none", "refused"}
    /\ error \in BOOLEAN
    /\ asked \in [Keys -> Inputs \cup {"nothing"}]
    /\ onTheWay \subseteq Submitted
    /\ lost \subseteq Submitted
    /\ store \in [Keys -> RunStates \cup {"none"}]

\* A run on the screen that has not ended is followed until it has, or until
\* the polls are used up, however many polls fail on the way.
RunSettles ==
    shown # 0 /\ state \notin Terminal
        ~> shown = 0 \/ state \in Terminal \/ attempt = MaxPolls

\* One run for one intent: asking again, with the same input, after a request
\* that ended without an answer does not make a second run.
OneRunPerIntent ==
    \A k \in lost :
        k < LastKey /\ asked[k + 1] = asked[k]
            => store[k] = "none" \/ store[k + 1] = "none"
=============================================================================
