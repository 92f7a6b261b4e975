---------------------------- MODULE AccountShell -----------------------------
(***************************************************************************)
(* The frame of the signed-in pages and the dashboard in it:               *)
(* account-workspace-shell.tsx and account-dashboard.tsx in src/apps/web/  *)
(* src/features/account/.  Left out: the drawer, renaming, the form fields *)
(* and signing out, which leaves the page.                                 *)
(*                                                                         *)
(* Loads are numbered by reloadToken.  The dashboard is mounted anew when  *)
(* a load ends, so loadedToken names its instance; a request of an         *)
(* instance that is gone still calls back into the shell.                  *)
(***************************************************************************)
EXTENDS Naturals

CONSTANTS
    AccountProjects,   \* projects the account may come to have
    MaxLoads           \* bound of the model: loads of the shell

ASSUME ShellAssumption == MaxLoads \in Nat \ {0}

VARIABLES
    reloadToken,     \* the number of the load the shell asked for last
    loadedToken,     \* the number of the load it shows, 0 for none
    loadState,       \* "none", "ready", "unauthenticated" or "unavailable"
    projects,        \* the projects shown
    overviewFailed,  \* overviewError, with its retry button
    loads,           \* loads under way: [token, session, listed, list]
    creates,         \* projects asked for: [project, dash, made]
    restores,        \* restores asked for: [project, dash, made]
    restored,        \* projects whose restore was answered, and still live
    signedIn,        \* the API knows the session
    live,            \* the projects of the account, by the API
    archive          \* its archived ones

shellVars == <<reloadToken, loadedToken, loadState, projects, overviewFailed,
               loads, creates, restores, restored, signedIn, live, archive>>
apiVars == <<signedIn, live, archive>>
shownVars == <<reloadToken, loadedToken, loadState, projects, overviewFailed>>

ShellLoading == loadedToken # reloadToken

\* The dashboard is on the screen.
Mounted == ~ShellLoading /\ loadState = "ready"

ShellInit ==
    /\ reloadToken = 0
    /\ loadedToken = 0
    /\ loadState = "none"
    /\ projects = {}
    /\ overviewFailed = FALSE
    /\ loads = {} /\ creates = {} /\ restores = {} /\ restored = {}
    /\ signedIn \in BOOLEAN
    /\ live \in SUBSET AccountProjects
    /\ archive \in SUBSET (AccountProjects \ live)

\* The load effect of a new token.
Load ==
    /\ reloadToken < MaxLoads
    /\ reloadToken' = reloadToken + 1
    /\ loads' = loads \cup
         {[token |-> reloadToken + 1, session |-> "unread", listed |-> "unread", list |-> {}]}
    /\ UNCHANGED <<loadedToken, loadState, projects, overviewFailed>>

OpenShell ==
    /\ reloadToken = 0
    /\ Load
    /\ UNCHANGED <<creates, restores, restored, apiVars>>

\* The retry buttons: of the page that could not load, and of the overview.
Retry ==
    /\ ~ShellLoading
    /\ \/ loadState = "unavailable"
       \/ loadState = "ready" /\ overviewFailed
    /\ Load
    /\ UNCHANGED <<creates, restores, restored, apiVars>>

\* getAccountSession and listAccountProjects of a load reach the API.
ApiSession(l) ==
    /\ l.session = "unread"
    /\ loads' = (loads \ {l}) \cup
         {[l EXCEPT !.session = IF signedIn THEN "known" ELSE "refused"]}
    /\ UNCHANGED <<shownVars, creates, restores, restored, apiVars>>

ApiList(l) ==
    /\ l.listed = "unread"
    /\ loads' = (loads \ {l}) \cup
         {IF signedIn THEN [l EXCEPT !.listed = "known", !.list = live]
                      ELSE [l EXCEPT !.listed = "refused"]}
    /\ UNCHANGED <<shownVars, creates, restores, restored, apiVars>>

ShowNothing(why) ==
    /\ loadState' = why
    /\ projects' = {}
    /\ overviewFailed' = FALSE

\* Mutant: the answer of every load is shown.
TakesAnyLoad(l) == TRUE

\* The effect's flag: a newer token ends it.
TakesLoad(l) == l.token = reloadToken

(***************************************************************************)
(* The three requests of a load are settled.  The session and the list are *)
(* needed, the overview is not; each may have failed on the way.           *)
(***************************************************************************)
LoadSettled(l) ==
    /\ loads' = loads \ {l}
    /\ IF ~TakesLoad(l) THEN UNCHANGED shownVars
       ELSE /\ loadedToken' = l.token
            /\ \/ /\ l.session = "known" /\ l.listed = "known"
                  /\ loadState' = "ready"
                  /\ projects' = l.list
                  /\ overviewFailed' \in BOOLEAN
               \/ "refused" \in {l.session, l.listed} /\ ShowNothing("unauthenticated")
               \/ ShowNothing("unavailable")
            /\ UNCHANGED reloadToken
    /\ UNCHANGED <<creates, restores, restored, apiVars>>

-----------------------------------------------------------------------------
\* handleUnauthenticated
SignedOut ==
    /\ ShowNothing("unauthenticated")
    /\ UNCHANGED <<reloadToken, loadedToken, loads>>

Pending(requests) == \E r \in requests : r.dash = loadedToken
Ask(p) == [project |-> p, dash |-> loadedToken, made |-> FALSE]

CreateProject(p) ==
    /\ Mounted
    /\ ~Pending(creates)
    /\ p \notin live \cup archive
    /\ creates' = creates \cup {Ask(p)}
    /\ UNCHANGED <<shownVars, loads, restores, restored, apiVars>>

ApiCreateProject(r) ==
    /\ ~r.made
    /\ signedIn
    /\ r.project \notin live \cup archive
    /\ live' = live \cup {r.project}
    /\ creates' = (creates \ {r}) \cup {[r EXCEPT !.made = TRUE]}
    /\ UNCHANGED <<shownVars, loads, restores, restored, signedIn, archive>>

\* onProjectCreated: addProject
ProjectCreated(r) ==
    /\ r.made
    /\ creates' = creates \ {r}
    /\ projects' = projects \cup {r.project}
    /\ UNCHANGED <<reloadToken, loadedToken, loadState, overviewFailed,
                   loads, restores, restored, apiVars>>

\* The button of an archived project; the page knows it from the archive list.
RestoreArchived(p) ==
    /\ Mounted
    /\ ~Pending(restores)
    /\ p \in archive
    /\ restores' = restores \cup {Ask(p)}
    /\ UNCHANGED <<shownVars, loads, creates, restored, apiVars>>

ApiRestore(r) ==
    /\ ~r.made
    /\ signedIn
    /\ r.project \in archive
    /\ archive' = archive \ {r.project}
    /\ live' = live \cup {r.project}
    /\ restores' = (restores \ {r}) \cup {[r EXCEPT !.made = TRUE]}
    /\ UNCHANGED <<shownVars, loads, creates, restored, signedIn>>

\* Mutant: the project is only taken off the archive list.
NoReload == UNCHANGED <<shownVars, loads>>

\* onProjectRestored
ReloadAfterRestore == Load

ProjectRestored(r) ==
    /\ r.made
    /\ restores' = restores \ {r}
    /\ restored' = restored \cup ({r.project} \cap live)
    /\ ReloadAfterRestore
    /\ UNCHANGED <<creates, apiVars>>

\* A request ends without success; 401 is announced to the shell.
DashboardRequestFailed ==
    /\ \/ \E r \in creates : creates' = creates \ {r} /\ UNCHANGED restores
       \/ \E r \in restores : restores' = restores \ {r} /\ UNCHANGED creates
    /\ IF signedIn THEN UNCHANGED <<shownVars, loads>>
       ELSE SignedOut \/ UNCHANGED <<shownVars, loads>>
    /\ UNCHANGED <<restored, apiVars>>

\* On another page or device: the session is ended, a project is archived.
ShellElsewhere ==
    /\ \/ /\ signedIn
          /\ signedIn' = FALSE
          /\ UNCHANGED <<live, archive, restored>>
       \/ \E p \in live :
           /\ live' = live \ {p}
           /\ archive' = archive \cup {p}
           /\ restored' = restored \ {p}
           /\ UNCHANGED signedIn
    /\ UNCHANGED <<shownVars, loads, creates, restores>>

ShellNext ==
    \/ OpenShell \/ Retry
    \/ \E l \in loads : ApiSession(l) \/ ApiList(l) \/ LoadSettled(l)
    \/ \E p \in AccountProjects : CreateProject(p) \/ RestoreArchived(p)
    \/ \E r \in creates : ApiCreateProject(r) \/ ProjectCreated(r)
    \/ \E r \in restores : ApiRestore(r) \/ ProjectRestored(r)
    \/ DashboardRequestFailed
    \/ ShellElsewhere

\* Every request is settled, by the time-out of the proxy at the latest.
ShellFairness ==
    \A n \in 1 .. MaxLoads :
        WF_shellVars(\E l \in loads : l.token = n /\ LoadSettled(l))

ShellSpec == ShellInit /\ [][ShellNext]_shellVars /\ ShellFairness

-----------------------------------------------------------------------------
Requests == [project : AccountProjects, dash : 0 .. MaxLoads, made : BOOLEAN]

ShellTypeOK ==
    /\ reloadToken \in 0 .. MaxLoads
    /\ loadedToken \in 0 .. MaxLoads
    /\ loadState \in {"none", "ready", "unauthenticated", "unavailable"}
    /\ projects \subseteq AccountProjects
    /\ overviewFailed \in BOOLEAN
    /\ loads \subseteq [token : 1 .. MaxLoads, session : {"unread", "known", "refused"},
                        listed : {"unread", "known", "refused"},
                        list : SUBSET AccountProjects]
    /\ creates \subseteq Requests
    /\ restores \subseteq Requests
    /\ signedIn \in BOOLEAN
    /\ live \cap archive = {}

\* A project that was restored is on the screen as soon as the shell shows a
\* list again, whatever loads, retries and other requests were under way.
RestoredIsShown == Mounted => restored \subseteq projects

\* The shell does not stay loading: of loads that overlap, the one it waits
\* for is shown, and an older one that comes late does not hide it.
ShellComesUp == ShellLoading ~> ~ShellLoading
=============================================================================
