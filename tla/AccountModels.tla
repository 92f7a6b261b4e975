----------------------------- MODULE AccountModels -----------------------------
(*****************************************************************************)
(* What the API answers to the account pages and the audit form of the site: *)
(* the response models with the values their types and bounds allow, and, of *)
(* the fields that the API computes, what determines them.                   *)
(*****************************************************************************)
EXTENDS ContractTypes

Uuids   == {<<"format", "UUID">>}
Origins == {<<"format", "origin">>}
Codes   == {<<"format", "error code">>}

Ascii(m, n) == {"text"} \X {m, n}

-------------------------------------------------------------------------------
\* accounts/models.py

AccountUser ==
    Fields({"id", "email", "display_name"}, Texts) @@ Fields({"created_at"}, Timestamps)

AccountSessionResponse ==
    Contract("webdiag.account.session.v1")
    @@ Fields({"authenticated"}, {<<"boolean", TRUE>>})
    @@ Part("user", AccountUser)

AccountLogoutResponse ==
    Contract("webdiag.account.logout.v1")
    @@ Fields({"authenticated"}, {<<"boolean", FALSE>>})

AccountSessionSummaryResponse ==
    Contract("webdiag.account.sessions.v1")
    @@ Fields({"active_session_count"}, Ints(1, 20))

AccountSessionsRevokedResponse ==
    Contract("webdiag.account.sessions_revoked.v1")
    @@ Fields({"active_session_count"}, Ints(1, 1))
    @@ Fields({"revoked_session_count"}, Ints(0, 19))

-------------------------------------------------------------------------------
\* accounts/monitoring_models.py

MonitorStatus == Words({"pending", "running", "passed", "changed", "failed"})

MonitorChange ==
    Contract("webdiag.account.monitor_change.v1")
    @@ Fields({"kind"}, Words({"baseline", "unchanged", "changed", "failed"}))
    @@ Fields({"previous_score", "current_score"}, Nullable(Ints(0, 100)))
    @@ Fields({"score_delta"}, Nullable(Ints(-100, 100)))
    @@ Fields({"previous_issue_count", "current_issue_count"}, Nullable(Counts))
    @@ ListsOf({"added_issue_ids", "resolved_issue_ids"}, Texts)

AccountMonitor ==
    Contract("webdiag.account.monitor.v1")
    @@ Fields({"id", "project_id", "timezone"}, Texts)
    @@ Fields({"cadence"}, Words({"hourly", "six_hours", "twelve_hours", "daily",
                                  "weekly"}))
    @@ Fields({"enabled"}, Booleans)
    @@ Fields({"status"}, MonitorStatus)
    @@ Fields({"next_run_at", "last_run_at"}, Nullable(Timestamps))
    @@ Fields({"consecutive_failures"}, Counts)
    @@ Fields({"created_at", "updated_at"}, Timestamps)

MonitorRun ==
    Fields({"id", "monitor_id", "project_id"}, Texts)
    @@ Fields({"status"}, MonitorStatus)
    @@ Fields({"score"}, Nullable(Ints(0, 100)))
    @@ Fields({"issue_count"}, Counts)
    @@ Fields({"started_at", "completed_at"}, Timestamps)
    @@ Part("change", MonitorChange)
    @@ Fields({"error_code"}, Nullable(Texts))

MonitorRunResponse ==
    Contract("webdiag.account.monitor_run.v1") @@ Part("run", MonitorRun)

\* list_monitor_runs reads the runs of the monitor.
MonitorHistoryResponse ==
    Contract("webdiag.account.monitor_history.v1")
    @@ Part("monitor", AccountMonitor)
    @@ ListOf("runs", Fields({"monitor_id"}, {SameAs("monitor.id")})
                      @@ Fields({"project_id"}, {SameAs("monitor.project_id")})
                      @@ MonitorRun)

-------------------------------------------------------------------------------
\* accounts/workspace_models.py

AccountProject ==
    Fields({"id", "name", "origin"}, Texts)
    @@ Fields({"created_at", "updated_at"}, Timestamps)

AccountProjectListResponse ==
    Contract("webdiag.account.project_list.v1") @@ ListOf("projects", AccountProject)

ArchivedAccountProject ==
    Contract("webdiag.account.archived_project.v1")
    @@ Fields({"archived_at"}, Timestamps)
    @@ AccountProject

ArchivedAccountProjectListResponse ==
    Contract("webdiag.account.archived_project_list.v1")
    @@ ListOf("projects", ArchivedAccountProject)

SavedAuditSummary ==
    Fields({"id", "project_id"}, Texts)
    @@ Fields({"status"}, Words({"succeeded"}))
    @@ Fields({"score"}, Nullable(Ints(0, 100)))
    @@ Fields({"check_count", "issue_count"}, Counts)
    @@ Fields({"completed_at", "created_at"}, Timestamps)

AccountProjectDetailResponse ==
    Contract("webdiag.account.project_detail.v1")
    @@ Part("project", AccountProject)
    @@ ListOf("saved_audits", SavedAuditSummary)

SavedAuditCheck == Fields({"check_id", "name", "category", "status"}, Texts)

SavedAuditPageSpeedMetric ==
    Fields({"id"}, Chars(1, 80))
    @@ Fields({"title"}, Chars(1, 160))
    @@ Fields({"value"}, Nullable(Floats(-Many, Many)))
    @@ Fields({"unit", "source", "status"}, Chars(1, 40))
    @@ Fields({"display_value"}, Nullable(Chars(0, 160)))

SavedAuditPageSpeed ==
    Fields({"strategy"}, Words({"mobile"}))
    @@ Fields({"available", "field_data_available"}, Booleans)
    @@ Fields({"performance_score"}, Nullable(Ints(0, 100)))
    @@ Fields({"field_overall_category", "lighthouse_version", "analysis_fetch_time"},
              Nullable(Chars(0, 80)))
    @@ MappingsOf({"category_scores"}, Nullable(Ints(-Many, Many)))
    @@ ListOf("metrics", SavedAuditPageSpeedMetric)
    @@ ListsOf({"opportunities"}, Texts)

SavedAuditRecommendation ==
    Fields({"summary"}, Texts)
    @@ ListsOf({"steps"}, Texts)
    @@ Fields({"expected_impact"}, Nullable(Texts))

SavedAuditIssue ==
    Fields({"issue_id", "category", "severity", "priority", "title", "description"}, Texts)
    @@ Fields({"check_id"}, Nullable(Texts))
    @@ ListsOf({"affected_urls"}, Texts)
    @@ Part("recommendation", SavedAuditRecommendation)

SavedAuditPayload ==
    Contract("webdiag.account.saved_audit_payload.v1")
    @@ Fields({"target_origin"}, Texts)
    @@ Fields({"status"}, Words({"succeeded"}))
    @@ Fields({"score"}, Nullable(Ints(0, 100)))
    @@ NullablePart("pagespeed", SavedAuditPageSpeed)
    @@ ListOf("checks", SavedAuditCheck)
    @@ ListOf("issues", SavedAuditIssue)
    @@ Fields({"completed_at"}, Timestamps)

\* The store gives out no payload that does not agree with its summary.
SavedAuditDetailResponse ==
    Contract("webdiag.account.saved_audit_detail.v1")
    @@ Part("project", AccountProject)
    @@ Part("audit", Fields({"project_id"}, {SameAs("project.id")})
                     @@ Fields({"check_count"}, {SizeOf("payload.checks")})
                     @@ Fields({"issue_count"}, {SizeOf("payload.issues")})
                     @@ Fields({"score"}, {SameAs("payload.score")})
                     @@ SavedAuditSummary)
    @@ Part("payload", SavedAuditPayload)

-------------------------------------------------------------------------------
\* crawl/models.py

CrawlPage ==
    Fields({"url"}, Chars(1, 2048))
    @@ Fields({"status_code"}, HttpStatuses)
    @@ Fields({"title"}, Nullable(Chars(0, 300)))
    @@ Fields({"meta_description"}, Nullable(Chars(0, 500)))
    @@ SizedLists({"internal_links"}, Sizes(0, 100), Texts)

CrawlPageFailure ==
    Fields({"url"}, Chars(1, 2048))
    @@ Fields({"code"}, Words({"fetch_failed", "not_html", "robots_disallowed"}))

CrawlDuplicateGroup ==
    Fields({"value"}, Chars(1, 500)) @@ SizedLists({"urls"}, Sizes(2, 500), Texts)

CrawlResult ==
    Contract("webdiag.crawl.result.v1")
    @@ Fields({"origin"}, Chars(1, 2048))
    @@ SizedList("pages", Sizes(0, 500), CrawlPage)
    @@ SizedList("page_failures", Sizes(0, 500), CrawlPageFailure)
    @@ Fields({"page_limit"}, Ints(1, 500))
    @@ Fields({"page_budget_exhausted"}, Booleans)
    @@ Fields({"sitemap_url"}, Nullable(Chars(0, 2048)))
    @@ Fields({"sitemap_url_count"}, Ints(0, 10000))
    @@ SizedList("duplicate_titles", Sizes(0, 25), CrawlDuplicateGroup)
    @@ SizedList("duplicate_descriptions", Sizes(0, 25), CrawlDuplicateGroup)
    @@ SizedLists({"orphan_urls"}, Sizes(0, 100), Texts)
    @@ Fields({"completed_at"}, Timestamps)

AccountCrawlJob ==
    Fields({"id", "project_id"}, Uuids)
    @@ Fields({"origin"}, Chars(1, 2048))
    @@ Fields({"state"}, Words({"queued", "running", "succeeded", "failed"}))
    @@ Fields({"error_code"}, Nullable(Chars(0, 120)))
    @@ Fields({"created_at", "updated_at"}, Timestamps)

\* complete_job refuses a result of another origin.
AccountCrawlDetail ==
    Contract("webdiag.account.crawl_detail.v1")
    @@ Part("job", AccountCrawlJob)
    @@ NullablePart("result", Fields({"origin"}, {SameAs("job.origin")}) @@ CrawlResult)

AccountCrawlList ==
    Contract("webdiag.account.crawl_list.v1")
    @@ SizedList("jobs", Sizes(0, 20), AccountCrawlJob)

-------------------------------------------------------------------------------
\* accounts/overview_models.py

\* The audit and the monitor are looked up by the project, and a shared report is a
\* report.
AccountOverviewProject ==
    LET ofItsProject == Fields({"project_id"}, {SameAs("project.id")})
    IN  Part("project", AccountProject)
        @@ NullablePart("latest_audit", ofItsProject @@ SavedAuditSummary)
        @@ NullablePart("monitor", ofItsProject @@ AccountMonitor)
        @@ Fields({"report_count"}, {NoLessThan("shared_report_count")})
        @@ Fields({"shared_report_count"}, Counts)
        @@ Fields({"latest_report_created_at"}, Nullable(Timestamps))

AccountOverviewResponse ==
    Contract("webdiag.account.overview.v1") @@ ListOf("projects", AccountOverviewProject)

-------------------------------------------------------------------------------
\* accounts/workspace_issues.py

\* Checks name the issues; they are made of letters, digits, dots and underscores.
AccountIssue ==
    Fields({"issue_id"}, {<<"format", "issue id">>})
    @@ Fields({"check_id"}, Nullable(Chars(1, 120)))
    @@ Fields({"category"}, Words({"seo", "performance", "accessibility", "security",
                                   "content", "technical"}))
    @@ Fields({"source_category"}, Chars(1, 80))
    @@ Fields({"severity"}, Chars(1, 32))
    @@ Fields({"priority"}, Words({"p0", "p1", "p2", "p3"}))
    @@ Fields({"fix_order"}, Positives)
    @@ Fields({"title"}, Chars(1, 180))
    @@ Fields({"description"}, Chars(1, 1000))
    @@ ListsOf({"affected_urls"}, Texts)
    @@ Part("recommendation", SavedAuditRecommendation)

AuditOfProject ==
    Part("project", AccountProject)
    @@ Part("audit", Fields({"project_id"}, {SameAs("project.id")}) @@ SavedAuditSummary)

AccountIssueListResponse ==
    Contract("webdiag.account.issue_list.v1")
    @@ AuditOfProject
    @@ Fields({"total"}, {SizeOf("items")})
    @@ ListOf("items", AccountIssue)

AccountIssueDetailResponse ==
    Contract("webdiag.account.issue_detail.v1")
    @@ AuditOfProject
    @@ Part("issue", AccountIssue)

-------------------------------------------------------------------------------
\* accounts/report_models.py

ReportLocale == Words({"ru", "en"})

ReportSnapshot ==
    Contract("webdiag.account.report_snapshot.v1")
    @@ Fields({"title", "project_name"}, Texts)
    @@ Fields({"locale"}, ReportLocale)
    @@ Fields({"target_origin"}, Origins)
    @@ Fields({"audit_completed_at", "generated_at"}, Timestamps)
    @@ Fields({"score"}, Nullable(Ints(0, 100)))
    @@ NullablePart("pagespeed", SavedAuditPageSpeed)
    @@ ListOf("checks", SavedAuditCheck)
    @@ ListOf("issues", SavedAuditIssue)

\* A report is shared while it has a share, which has an end.
AccountReportSummary(shared) ==
    Fields({"id", "project_id", "audit_id"}, Uuids)
    @@ Fields({"title"}, Texts)
    @@ Fields({"locale"}, ReportLocale)
    @@ Fields({"status"}, Words({"ready"}))
    @@ Fields({"created_at", "updated_at"}, Timestamps)
    @@ Fields({"shared"}, {<<"boolean", shared>>})
    @@ Fields({"share_expires_at"}, IF shared THEN Timestamps ELSE {Null})

AccountReportListItem(shared) ==
    AccountReportSummary(shared)
    @@ Fields({"project_name"}, Texts)
    @@ Fields({"target_origin"}, Origins)
    @@ Fields({"audit_completed_at"}, Timestamps)

AccountReportListResponse(shared) ==
    Contract("webdiag.account.report_list.v2")
    @@ ListOf("reports", AccountReportListItem(shared))

ofItsSnapshot ==
    Fields({"title"}, {SameAs("snapshot.title")})
    @@ Fields({"locale"}, {SameAs("snapshot.locale")})

AccountReportDetailResponse(shared) ==
    Contract("webdiag.account.report_detail.v1")
    @@ Part("report", ofItsSnapshot @@ AccountReportSummary(shared))
    @@ Part("snapshot", ReportSnapshot)

AccountReportShareResponse ==
    Contract("webdiag.account.report_share.v1")
    @@ Fields({"report_id"}, Uuids)
    @@ Fields({"share_token"}, {<<"format", "share token">>})
    @@ Fields({"share_path"}, {PathTo("share_token")})
    @@ Fields({"expires_at"}, Timestamps)

PublicReportResponse ==
    Contract("webdiag.public.report.v1")
    @@ Part("report", ofItsSnapshot @@ Fields({"created_at", "expires_at"}, Timestamps))
    @@ Part("snapshot", ReportSnapshot)

-------------------------------------------------------------------------------
\* ai/tool_contracts.py: what the API keeps of an answer of the provider.

Warnings == SizedLists({"warnings"}, Sizes(0, 20), Chars(1, 1000))

\* An action may name an issue twice; its addresses are among those of its issues.
AuditActionPlanOutput ==
    Fields({"summary"}, Chars(1, 4000))
    @@ SizedList("actions", Sizes(1, 50),
         SizedLists({"issue_ids"}, Sizes(1, 20) \cup {<<"list with repeats", 2>>},
                    Chars(1, 200))
         @@ Fields({"title"}, Chars(1, 300))
         @@ Fields({"rationale", "verification"}, Chars(1, 2000))
         @@ SizedLists({"steps"}, Sizes(1, 12), Chars(1, 2000))
         @@ SizedLists({"affected_urls"}, Sizes(0, 100), {<<"format", "page URL">>}))

ContentBriefOutput ==
    LET coverage == Fields({"source_fact_index"}, Ints(0, 49))
                    @@ Fields({"excerpt"}, Chars(1, 1000))
        section == Fields({"heading"}, Chars(1, 300))
                   @@ Fields({"purpose"}, Chars(1, 1000))
                   @@ SizedList("coverage", Sizes(1, 10), coverage)
    IN  Fields({"suggested_title"}, Chars(1, 300))
        @@ SizedList("sections", Sizes(1, 20), section)
        @@ Warnings

\* The kept facts are numbered as those of the input are, of which there are up to 30.
ContentOptimizerOutput ==
    LET change == Fields({"kind"}, Words({"clarity", "structure", "relevance", "style"}))
                  @@ Fields({"before_excerpt", "after_excerpt"}, Chars(1, 2000))
                  @@ Fields({"rationale"}, Chars(1, 1000))
    IN  Fields({"revised_content"}, Chars(20, 50000))
        @@ SizedList("changes", Sizes(0, 30), change)
        @@ SizedLists({"preserved_fact_indexes"}, Sizes(0, 30), Ints(0, 29))
        @@ Warnings

SearchIntentPageFitOutput ==
    Fields({"inferred_intent"}, Words({"informational", "commercial", "transactional",
                                       "navigational", "local", "unknown"}))
    @@ Fields({"confidence"}, Words({"low", "medium", "high"}))
    @@ Fields({"fit"}, Words({"aligned", "partial", "misaligned", "insufficient_evidence"}))
    @@ SizedLists({"evidence"}, Sizes(0, 10), Chars(1, 1000))
    @@ SizedLists({"gaps", "recommendations"}, Sizes(0, 20), Chars(1, 1000))
    @@ Warnings

CompetitorGapOutput ==
    LET evidence == Fields({"page_index"}, Ints(0, 2)) @@ Fields({"excerpt"}, Chars(1, 1000))
        gap == Fields({"topic"}, Chars(1, 300))
               @@ SizedLists({"own_evidence"}, Sizes(0, 10), Chars(1, 1000))
               @@ SizedList("competitor_evidence", Sizes(1, 10), evidence)
               @@ Fields({"recommendation"}, Chars(1, 2000))
    IN  Fields({"summary"}, Chars(1, 4000))
        @@ SizedList("gaps", Sizes(1, 30), gap)
        @@ Warnings

\* No proposal links a page to itself.
InternalLinkingOutput ==
    LET proposal == Fields({"source_page_index"}, Ints(0, 49))
                    @@ Fields({"target_page_index"}, {OtherThan("source_page_index")})
                    @@ Fields({"suggested_anchor"}, Chars(1, 200))
                    @@ Fields({"source_evidence", "target_evidence", "rationale"},
                              Chars(1, 1000))
    IN  Fields({"summary"}, Chars(1, 4000))
        @@ SizedList("proposals", Sizes(0, 100), proposal)
        @@ Warnings

Output(id) ==
    CASE id = "ai_audit_action_plan"        -> AuditActionPlanOutput
      [] id = "ai_content_brief"            -> ContentBriefOutput
      [] id = "ai_content_optimizer"        -> ContentOptimizerOutput
      [] id = "ai_search_intent_page_fit"   -> SearchIntentPageFitOutput
      [] id = "ai_competitor_gap_report"    -> CompetitorGapOutput
      [] id = "ai_internal_linking_planner" -> InternalLinkingOutput

-------------------------------------------------------------------------------
\* ai/models.py

SELECTED_TEXT_AI_TOOL_IDS ==
    {"ai_audit_action_plan", "ai_competitor_gap_report", "ai_content_brief",
     "ai_content_optimizer", "ai_search_intent_page_fit", "ai_internal_linking_planner"}

AICatalogResponse ==
    Contract("webdiag.ai.catalog.v1")
    @@ SizedList("tools", Sizes(0, 6), Fields({"id"}, Words(SELECTED_TEXT_AI_TOOL_IDS))
                                       @@ Fields({"contract_version"}, Ascii(1, 32))
                                       @@ Fields({"credit_price"}, Positives))

CreditBalanceResponse ==
    Contract("webdiag.credits.balance.v1")
    @@ Part("account", Fields({"available", "reserved"}, Counts))

\* Only a run that succeeded has an output, which deleting it takes away; only one that
\* failed, or may have, has an error.
AIRunResponse(id, stage) ==
    Fields({"id"}, Uuids)
    @@ Fields({"tool_id"}, Words({id}))
    @@ Fields({"contract_version"}, Ascii(1, 32))
    @@ Fields({"credit_price"}, Positives)
    @@ Fields({"state"}, Words({stage}))
    @@ (IF stage = "succeeded" THEN Part("output", Output(id))
        ELSE Fields({"output"}, {Null}))
    @@ Fields({"error_code"},
              IF stage \in {"failed", "provider_unknown"} THEN Codes ELSE {Null})
    @@ Fields({"created_at", "updated_at"}, Timestamps)

AIRunDetailResponse(id, stage) ==
    Contract("webdiag.ai.run.v1") @@ Part("run", AIRunResponse(id, stage))

AIRunListResponse(id, stage) ==
    Contract("webdiag.ai.run_list.v1")
    @@ SizedList("runs", Sizes(0, 50), AIRunResponse(id, stage))
    @@ Fields({"next_cursor"}, Nullable(Ascii(1, 256)))

-------------------------------------------------------------------------------
\* audit/models.py and audit/api.py

AuditJobStatus == Words({"queued", "running", "succeeded", "failed", "cancelled"})
IssueCategory ==
    Words({"http", "redirects", "metadata", "indexability", "crawlability", "content",
           "structured_data", "security", "performance", "accessibility", "media", "url"})
Severity == Words({"info", "low", "medium", "high", "critical"})
Priority == Words({"p0", "p1", "p2", "p3"})
HttpUrls == {<<"format", "URL">>}

AuditTarget ==
    Fields({"original_url"}, Chars(1, 2048))
    @@ Fields({"normalized_url"}, HttpUrls)
    @@ Fields({"hostname"}, Chars(1, 253))
    @@ Fields({"scope"}, Words({"single_url", "sitemap"}))

AuditCheck ==
    Fields({"check_id"}, Chars(1, 120))
    @@ Fields({"name"}, Chars(1, 160))
    @@ Fields({"category"}, IssueCategory)
    @@ Fields({"status"}, Words({"pending", "running", "passed", "warning", "failed",
                                 "skipped", "error"}))

AuditIssue ==
    Fields({"issue_id"}, Chars(1, 120))
    @@ Fields({"check_id"}, Nullable(Chars(1, 120)))
    @@ Fields({"category"}, IssueCategory)
    @@ Fields({"severity"}, Severity)
    @@ Fields({"priority"}, Priority)
    @@ Fields({"title"}, Chars(1, 180))
    @@ Fields({"description"}, Chars(1, 1000))
    @@ ListOf("affected_urls", Fields({"url"}, HttpUrls)
                               @@ Fields({"normalized_url"}, Chars(1, 2048))
                               @@ Fields({"status_code"}, Nullable(HttpStatuses))
                               @@ Fields({"final_url"}, Nullable(HttpUrls)))
    @@ Part("recommendation", Fields({"summary"}, Chars(1, 240))
                              @@ ListsOf({"steps"}, Texts)
                              @@ Fields({"expected_impact"}, Nullable(Chars(0, 500))))

AuditRunSummary ==
    Fields({"status"}, AuditJobStatus)
    @@ Fields({"score"}, Nullable(Ints(0, 100)))
    @@ Fields({"check_count", "issue_count"}, Counts)
    @@ MappingsOf({"checks_by_status", "issues_by_severity", "issues_by_priority"}, Counts)
    @@ Fields({"highest_severity"}, Nullable(Severity))
    @@ Fields({"top_priority"}, Nullable(Priority))

AuditRun ==
    Fields({"run_id"}, Uuids)
    @@ Fields({"status"}, AuditJobStatus)
    @@ Fields({"score"}, Nullable(Ints(0, 100)))
    @@ ListOf("checks", AuditCheck)
    @@ ListOf("issues", AuditIssue)

AuditSnapshotResponse ==
    LET job == Fields({"job_id"}, Uuids) @@ Fields({"status"}, AuditJobStatus)
    IN  Contract("webdiag.audit.snapshot.v1")
        @@ Fields({"generated_at"}, Timestamps)
        @@ Part("summary", job @@ NullablePart("run", AuditRunSummary))
        @@ Part("job", job @@ Part("target", AuditTarget))
        @@ NullablePart("run", AuditRun)
===============================================================================
