------------------------------- MODULE WebPages -------------------------------
(***************************************************************************)
(* The pages of the web application of src/apps/web that keep state, put   *)
(* together: a behaviour is a visit to one of them.  Pages share nothing   *)
(* in the browser, so the others rest while one is visited, and start from *)
(* one fixed state.  All of them rest while a tool of Workbench is used;   *)
(* WebApp adds those.                                                      *)
(***************************************************************************)
EXTENDS AIPanel, ProjectPage, IssuesList, AccountShell, PreviewWorker,
        ToolRequests, ImageTools

VARIABLE page  \* the page that is visited

pagesVars == <<page, aiVars, projectVars, issuesVars, shellVars, previewVars,
               toolVars, imageVars>>

Pages == {"ai", "project", "issues", "shell", "preview", "tool", "image", "workbench"}

PagesInit ==
    /\ page \in Pages
    /\ PanelInit
    /\ ProjectInit /\ (page = "project" \/ (audits = 0 /\ Made = {}))
    /\ IssuesInit /\ (page = "issues" \/ filters = CHOOSE f \in Filters : TRUE)
    /\ ShellInit /\ (page = "shell" \/ (signedIn /\ live \cup archive = {}))
    /\ PreviewInit
    /\ ToolInit /\ (page = "tool" \/ tool = CHOOSE t \in Tools : TRUE)
    /\ ImageInit /\ (page = "image" \/ imageTool = Raster)

VisitAIPanel ==
    /\ page = "ai"
    /\ PanelNext
    /\ UNCHANGED <<page, projectVars, issuesVars, shellVars, previewVars,
                   toolVars, imageVars>>

VisitProject ==
    /\ page = "project"
    /\ ProjectNext
    /\ UNCHANGED <<page, aiVars, issuesVars, shellVars, previewVars,
                   toolVars, imageVars>>

VisitIssues ==
    /\ page = "issues"
    /\ IssuesNext
    /\ UNCHANGED <<page, aiVars, projectVars, shellVars, previewVars,
                   toolVars, imageVars>>

VisitShell ==
    /\ page = "shell"
    /\ ShellNext
    /\ UNCHANGED <<page, aiVars, projectVars, issuesVars, previewVars,
                   toolVars, imageVars>>

VisitPreview ==
    /\ page = "preview"
    /\ PreviewNext
    /\ UNCHANGED <<page, aiVars, projectVars, issuesVars, shellVars,
                   toolVars, imageVars>>

VisitTool ==
    /\ page = "tool"
    /\ ToolNext
    /\ UNCHANGED <<page, aiVars, projectVars, issuesVars, shellVars,
                   previewVars, imageVars>>

VisitImageTool ==
    /\ page = "image"
    /\ ImageNext
    /\ UNCHANGED <<page, aiVars, projectVars, issuesVars, shellVars,
                   previewVars, toolVars>>

PagesNext ==
    \/ VisitAIPanel \/ VisitProject \/ VisitIssues \/ VisitShell
    \/ VisitPreview \/ VisitTool \/ VisitImageTool

PagesFairness ==
    /\ PanelFairness
    /\ ProjectFairness
    /\ IssuesFairness
    /\ ShellFairness
    /\ PreviewFairness
    /\ ToolFairness
    /\ ImageFairness

PagesSpec == PagesInit /\ [][PagesNext]_pagesVars /\ PagesFairness

\* The type invariants of the pages.
WebTypeOK ==
    /\ page \in Pages
    /\ PanelTypeOK
    /\ ProjectTypeOK
    /\ IssuesTypeOK
    /\ ShellTypeOK
    /\ PreviewTypeOK
    /\ ToolTypeOK
    /\ ImageTypeOK
=============================================================================
