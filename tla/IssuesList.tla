----------------------------- MODULE IssuesList ------------------------------
(***************************************************************************)
(* The list of an audit's issues under the filters a user picks:           *)
(* account-issues-list.tsx in src/apps/web/src/features/account/.  The     *)
(* request of a render is sent by its effect; what the answer sets is one  *)
(* object that carries the key of the filters it was asked for.            *)
(***************************************************************************)
EXTENDS Naturals

CONSTANTS
    Filters,      \* choices of category, priority, sort and order
    MaxChoices    \* bound of the model: how often filters are picked

ASSUME IssuesAssumption == Filters # {} /\ MaxChoices \in Nat \ {0}

VARIABLES
    listOpen,     \* the page is mounted
    filters,      \* the filters picked
    requestKey,   \* requestState.key: what the shown result was asked for
    issuesError,  \* requestState.error is set
    requests,     \* requests[n]: the filters of the n-th request
    current,      \* the number of the request whose effect is still active
    unanswered    \* numbers of requests under way

issuesVars == <<listOpen, filters, requestKey, issuesError, requests, current,
                unanswered>>

NoKey == "none"

IssuesInit ==
    /\ listOpen = FALSE
    /\ filters \in Filters
    /\ requestKey = NoKey
    /\ issuesError = FALSE
    /\ requests = [n \in 1 .. MaxChoices |-> NoKey]
    /\ current = 0
    /\ unanswered = {}

Request(f) ==
    /\ current < MaxChoices
    /\ requests' = [requests EXCEPT ![current + 1] = f]
    /\ current' = current + 1
    /\ unanswered' = unanswered \cup {current + 1}

OpenIssues ==
    /\ ~listOpen
    /\ listOpen' = TRUE
    /\ Request(filters)
    /\ UNCHANGED <<filters, requestKey, issuesError>>

\* setFilters, from a select or the reset button.
PickFilters(f) ==
    /\ listOpen
    /\ f # filters
    /\ filters' = f
    /\ Request(f)
    /\ UNCHANGED <<listOpen, requestKey, issuesError>>

\* Mutant: every answer is taken, in the order they come.
ActiveForEver(n) == TRUE

\* The effect's flag: its clean-up runs when the filters change.
StillActive(n) == n = current

(***************************************************************************)
(* listAccountIssues answers, well or with an error.                       *)
(***************************************************************************)
IssuesAnswered(n, failed) ==
    /\ n \in unanswered
    /\ unanswered' = unanswered \ {n}
    /\ IF StillActive(n)
       THEN requestKey' = requests[n] /\ issuesError' = failed
       ELSE UNCHANGED <<requestKey, issuesError>>
    /\ UNCHANGED <<listOpen, filters, requests, current>>

IssuesNext ==
    \/ OpenIssues
    \/ \E f \in Filters : PickFilters(f)
    \/ \E n \in 1 .. MaxChoices, failed \in BOOLEAN : IssuesAnswered(n, failed)

\* The proxy answers every request, with an error at its time-out.
IssuesFairness ==
    \A n \in 1 .. MaxChoices :
        WF_issuesVars(\E failed \in BOOLEAN : IssuesAnswered(n, failed))

IssuesSpec == IssuesInit /\ [][IssuesNext]_issuesVars /\ IssuesFairness

-----------------------------------------------------------------------------
Loading == listOpen /\ requestKey # filters

IssuesTypeOK ==
    /\ listOpen \in BOOLEAN
    /\ filters \in Filters
    /\ requestKey \in Filters \cup {NoKey}
    /\ issuesError \in BOOLEAN
    /\ requests \in [1 .. MaxChoices -> Filters \cup {NoKey}]
    /\ current \in 0 .. MaxChoices
    /\ unanswered \subseteq 1 .. current

\* The page does not stay loading, in whatever order the answers to older and
\* newer choices of filters come: what it shows in the end was asked for with
\* the filters picked last.
FiltersAreAnswered == Loading ~> ~Loading
=============================================================================
