---------------------------- MODULE ToolRequests -----------------------------
(***************************************************************************)
(* The tools that ask the API: their forms, in src/apps/web/src/features/  *)
(* (tools/*-tool.tsx, tools/*-tools.tsx, home/home-url-check-form.tsx),    *)
(* and the route each of them posts to, in src/apps/web/app/api/.          *)
(*                                                                         *)
(* The forms differ in what they send and in when they take the result of  *)
(* an earlier submit off the screen; ToolRoutes has what the routes do.    *)
(***************************************************************************)
EXTENDS Naturals, ToolRoutes

CONSTANTS
    Latencies,    \* seconds the API may take over a request
    MaxRequests   \* bound of the model: requests of one visit

ASSUME ToolAssumption == Latencies \subseteq Nat /\ MaxRequests \in Nat

VARIABLES
    tool,     \* the tool on the screen: its form, what it sends, its route
    pending,  \* the number of the request under way, 0 for none
    reply,    \* what the route has replied to it, NoReply before that
    result,   \* the request whose result is shown, 0 for none
    failed,   \* an error is on the screen
    sent,     \* how many requests were sent
    last      \* what came of the last submit

toolVars == <<tool, pending, reply, result, failed, sent, last>>

-----------------------------------------------------------------------------
(***************************************************************************)
(* Forms: what takes an earlier result off the screen.  A refusal is input *)
(* the form does not send; some forms start over when the input is edited. *)
(* Several forms keep the error of a refusal in a part of their own; it is *)
(* on the screen like the other, and a submit takes both off.              *)
(***************************************************************************)
Form(blanks) == [onRefusal |-> "refusal" \in blanks, onSubmit |-> "submit" \in blanks,
                 onFailure |-> "failure" \in blanks, onEdit |-> "edit" \in blanks]

BulkStatusForm      == Form({"refusal", "failure"})
CanonicalForm       == Form({"refusal", "failure"})
RedirectChainForm   == Form({"refusal", "failure"})
RobotsTxtForm       == Form({"refusal", "failure"})
SecurityHeadersForm == Form({"refusal", "failure"})
SitemapForm         == Form({"refusal", "failure"})
TechnicalSeoForm    == Form({"refusal", "failure"})
PerformanceForm     == Form({"refusal", "failure"})
ImageAuditForm      == Form({"refusal", "failure"})
ContentForm         == Form({"refusal", "failure"})
LinkHealthForm      == Form({"refusal", "failure"})
SinglePageAuditForm == Form({"refusal", "submit"})
RedirectMapForm     == Form({"refusal", "submit"})
AccessibilityForm   == Form({"failure"})
ClientDeliveryForm  == Form({"failure"})
NetworkDnsForm      == Form({"failure"})
ProtocolForm        == Form({"failure"})
AssetDeliveryForm   == Form({"submit"})
IntelligenceForm    == Form({"submit"})
MetadataForm        == Form({})
MarkupForm          == Form({})
HomeForm            == Form({"refusal", "submit", "edit"})

On(form, sends, paths) == {[form |-> form, sends |-> sends, path |-> p] : p \in paths}

(***************************************************************************)
(* What the request function of each form (runTool and its like) posts and *)
(* where to.  A list of URLs has some that grow beyond the limit of a URL  *)
(* when the form normalises them, or none.                                 *)
(***************************************************************************)
BulkStatusTools ==
    On(BulkStatusForm, {"urls"}, {"bulk-http-status"}) \cup
    On(BulkStatusForm, {"long_urls"}, {"bulk-http-status"})
CanonicalTools       == On(CanonicalForm, {"url"}, {"canonical"})
RedirectChainTools   == On(RedirectChainForm, {"url"}, {"redirect-chain"})
RobotsTxtTools       == On(RobotsTxtForm, {"url", "user_agent"}, {"robots-txt"})
SecurityHeadersTools == On(SecurityHeadersForm, {"url"}, {"security-headers"})
SitemapTools ==
    On(SitemapForm, {"url"}, {"sitemap"}) \cup
    On(SitemapForm, {"url", "target_url"}, {"sitemap"})
TechnicalSeoTools ==
    On(TechnicalSeoForm, {"url"}, {"hreflang", "indexability", "technology-detector"})
PerformanceTools ==
    On(PerformanceForm, {"url"}, {"cache-policy", "page-weight"}) \cup
    On(PerformanceForm, {"url", "strategy"}, {"core-web-vitals", "lighthouse-network"}) \cup
    On(PerformanceForm, {"url", "odd_strategy"}, {"core-web-vitals"})
ImageAuditTools ==
    On(ImageAuditForm, {"url"}, {"favicon", "image-performance", "image-seo"})
ContentTools ==
    On(ContentForm, {"url"}, {"heading-structure", "keyword-density", "readability"})
LinkHealthTools ==
    On(LinkHealthForm, {"url"}, {"broken-images", "broken-links", "link-analyzer"})
AuditTools ==
    On(SinglePageAuditForm, {"url"}, {"audits"}) \cup On(HomeForm, {"url"}, {"audits"})
RedirectMapTools     == On(RedirectMapForm, {"entries"}, {"redirect-map"})
AccessibilityTools ==
    On(AccessibilityForm, {"url"},
       {"landmark-structure", "form-accessibility", "interactive-accessible-names"})
ClientDeliveryTools ==
    On(ClientDeliveryForm, {"url"}, {"csp", "third-party-scripts", "resource-hints"})
NetworkDnsTools ==
    On(NetworkDnsForm, {"domain"}, {"dns-lookup", "mx-records", "spf", "dmarc", "dnssec"}) \cup
    On(NetworkDnsForm, {"domain", "selector"}, {"dkim"})
ProtocolTools ==
    On(ProtocolForm, {"hostname", "port"}, {"ssl-certificate", "tls-configuration"}) \cup
    On(ProtocolForm, {"url", "origin"}, {"cors"}) \cup
    On(ProtocolForm, {"url"}, {"cookie-policy", "http-compression", "http-headers",
                               "http-protocol", "mixed-content", "server-timing"})
AssetDeliveryTools ==
    On(AssetDeliveryForm, {"url"},
       {"javascript-bundle-surface", "css-delivery", "font-loading"})
IntelligenceTools ==
    On(IntelligenceForm, {"domain"}, {"domain-rdap"}) \cup
    On(IntelligenceForm, {"ip"}, {"ip-rdap"}) \cup
    On(IntelligenceForm, {"domain", "record_type"}, {"dns-resolver-comparison"})
MetadataTools ==
    On(MetadataForm, {"url"}, {"meta-tags", "serp-preview", "social-preview"})
MarkupTools          == On(MarkupForm, {"url"}, {"html-validator", "structured-data"})

\* tool-renderer.tsx
Tools ==
    UNION {BulkStatusTools, CanonicalTools, RedirectChainTools, RobotsTxtTools,
           SecurityHeadersTools, SitemapTools, TechnicalSeoTools, PerformanceTools,
           ImageAuditTools, ContentTools, LinkHealthTools, AuditTools,
           RedirectMapTools, AccessibilityTools, ClientDeliveryTools,
           NetworkDnsTools, ProtocolTools, AssetDeliveryTools, IntelligenceTools,
           MetadataTools, MarkupTools}

\* The endpoint whose contract the form holds a result to, by the tool's path.
Contract(path) ==
    CASE path = "redirect-chain"   -> "http-status"
      [] path = "bulk-http-status" -> "http-status/bulk"
      [] OTHER                     -> path

-----------------------------------------------------------------------------
ToolInit ==
    /\ tool \in Tools
    /\ pending = 0 /\ reply = NoReply
    /\ result = 0 /\ failed = FALSE
    /\ sent = 0 /\ last = "nothing"

Unless(clears) == IF clears THEN result' = 0 ELSE UNCHANGED result

\* onSubmit: the input cannot be parsed.
RefuseInput ==
    /\ pending = 0
    /\ failed' = TRUE
    /\ Unless(tool.form.onRefusal)
    /\ last' = "failed"
    /\ UNCHANGED <<tool, pending, reply, sent>>

\* onSubmit: the button is disabled while a request is under way.
SubmitTool ==
    /\ pending = 0
    /\ sent < MaxRequests
    /\ pending' = sent + 1
    /\ sent' = sent + 1
    /\ failed' = FALSE
    /\ Unless(tool.form.onSubmit)
    /\ UNCHANGED <<tool, reply, last>>

EditInput ==
    /\ pending = 0
    /\ tool.form.onEdit
    /\ failed \/ result # 0
    /\ failed' = FALSE
    /\ result' = 0
    /\ last' = "nothing"
    /\ UNCHANGED <<tool, pending, reply, sent>>

(***************************************************************************)
(* The API: what its endpoint promises, an error payload, no JSON or       *)
(* anything else, with or without an error status, or no answer at all.    *)
(* A tool with a deadline of its own, the bulk check, keeps it.            *)
(***************************************************************************)
Upstreams(path) ==
    [after : Latencies, status : {"ok", "error", "down"},
     says : {"noise", "error payload", "other", Contract(path)}]

\* _BULK_DEADLINE_SECONDS: the API reports what is not done by then as such.
BulkDeadline == 15
Deadline(path) == IF path = "bulk-http-status" THEN BulkDeadline ELSE 0
Keeps(path, seconds) == Deadline(path) = 0 \/ seconds <= Deadline(path)

\* The body the form's fetch sends, and the replies it may have: the route's,
\* or none, when the connection to the site is lost.
Body(t) == [object |-> TRUE, fields |-> t.sends]
RepliesOf ==
    [t \in Tools |->
        {Posted(t.path, Body(t), upstream) :
            upstream \in {u \in Upstreams(t.path) : Keeps(t.path, u.after)}}
        \cup {Failure("lost")}]

RouteReplies ==
    /\ pending # 0
    /\ reply = NoReply
    /\ reply' \in RepliesOf[tool]
    /\ UNCHANGED <<tool, pending, result, failed, sent, last>>

\* Mutant: the catch leaves the earlier result as it is and says nothing.
Unnoticed == UNCHANGED <<failed, result>>

\* The catch of onSubmit.
Noticed == failed' = TRUE /\ Unless(tool.form.onFailure)

ShowReply ==
    /\ reply # NoReply
    /\ pending' = 0
    /\ reply' = NoReply
    /\ IF reply.code = "result" /\ reply.of = Contract(tool.path)
       THEN result' = pending /\ last' = "answered" /\ UNCHANGED failed
       ELSE Noticed /\ last' = "failed"
    /\ UNCHANGED <<tool, sent>>

ToolNext == RefuseInput \/ SubmitTool \/ EditInput \/ RouteReplies \/ ShowReply

\* The route replies, at its limit at the latest, and the form shows it.
ToolFairness == WF_toolVars(RouteReplies) /\ WF_toolVars(ShowReply)

ToolSpec == ToolInit /\ [][ToolNext]_toolVars /\ ToolFairness

-----------------------------------------------------------------------------
ToolTypeOK ==
    /\ tool \in Tools
    /\ pending \in 0 .. MaxRequests
    /\ reply = NoReply \/ reply \in RepliesOf[tool]
    /\ result \in 0 .. sent
    /\ failed \in BOOLEAN
    /\ sent \in 0 .. MaxRequests
    /\ last \in {"nothing", "answered", "failed"}

(***************************************************************************)
(* What a form shows once no request is under way is what came of the last *)
(* submit: the result of that very request, or its error; a result beside  *)
(* the error is never that of the request that failed.  A result meets the *)
(* contract of the very tool and is about all that the form sent: routes   *)
(* drop nothing of it.  Routes refuse no body for its shape, but a list of *)
(* URLs that grew.  And the bulk check, which keeps a deadline in the API, *)
(* is never answered with its route's own timeout: what it has by then     *)
(* arrives.  This is about onSubmit of every form together with the route  *)
(* it posts to.                                                            *)
(***************************************************************************)
FormShowsLastOutcome ==
    /\ pending = 0 =>
         CASE last = "answered" -> result = sent /\ ~failed
           [] last = "failed"   -> failed
           [] OTHER             -> result = 0 /\ ~failed
    /\ pending # 0 => result # pending
    /\ reply.code = "result" =>
         reply.of = Contract(tool.path) /\ reply.about = tool.sends
    /\ reply.code \in {"tool_bad_request", "audit_bad_request"} =>
         tool.sends = {"long_urls"}
    /\ reply.code = "tool_api_timeout" => tool.path # "bulk-http-status"
=============================================================================
