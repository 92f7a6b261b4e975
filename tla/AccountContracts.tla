--------------------------- MODULE AccountContracts ---------------------------
(*****************************************************************************)
(* What the account pages and the audit form of the site take the answers of *)
(* the API to be: the interfaces, as they are declared, and the guards       *)
(* (is...) that an answer has to pass.  A guard of the account pages allows  *)
(* no other fields, and compares fields that must agree.                     *)
(*****************************************************************************)
EXTENDS ContractTypes

-------------------------------------------------------------------------------
\* features/account/account-contract.ts

AccountUser == Fields({"id", "email", "display_name", "created_at"}, Text)

AccountSessionResponse ==
    Contract("webdiag.account.session.v1")
    @@ Fields({"authenticated"}, {<<"boolean", TRUE>>})
    @@ Part("user", AccountUser)

isAccountSessionResponse ==
    Exactly(Part("user", Exactly(AccountUser)) @@ AccountSessionResponse)

AccountLogoutResponse ==
    Contract("webdiag.account.logout.v1")
    @@ Fields({"authenticated"}, {<<"boolean", FALSE>>})

isAccountLogoutResponse == Exactly(AccountLogoutResponse)

-------------------------------------------------------------------------------
\* features/account/account-settings-contract.ts

AccountSessionsResponse ==
    Contract("webdiag.account.sessions.v1")
    @@ Fields({"active_session_count"}, Number)

\* Mutant: the upper bound is not reached.
boundedBelow(m, n) == {"number"} \X (m .. n - 1)

boundedInteger(m, n) == {"number"} \X (m .. n)

isAccountSessionsResponse ==
    Exactly(Fields({"active_session_count"}, boundedInteger(1, 20))
            @@ AccountSessionsResponse)

AccountSessionsRevokedResponse ==
    Contract("webdiag.account.sessions_revoked.v1")
    @@ Fields({"active_session_count"}, {<<"number", 1>>})
    @@ Fields({"revoked_session_count"}, Number)

isAccountSessionsRevokedResponse ==
    Exactly(Fields({"revoked_session_count"}, boundedInteger(0, 19))
            @@ AccountSessionsRevokedResponse)

-------------------------------------------------------------------------------
\* features/account/account-monitoring-contract.ts

MonitorStatus == Words({"pending", "running", "passed", "changed", "failed"})

AccountMonitor ==
    Contract("webdiag.account.monitor.v1")
    @@ Fields({"id", "project_id", "timezone", "created_at", "updated_at"}, Text)
    @@ Fields({"cadence"}, Words({"hourly", "six_hours", "twelve_hours", "daily",
                                  "weekly"}))
    @@ Fields({"enabled"}, Boolean)
    @@ Fields({"status"}, MonitorStatus)
    @@ Fields({"next_run_at", "last_run_at"}, Nullable(Text))
    @@ Fields({"consecutive_failures"}, Number)

isAccountMonitor ==
    Exactly(Fields({"consecutive_failures"}, Count) @@ AccountMonitor)

MonitorChange ==
    Contract("webdiag.account.monitor_change.v1")
    @@ Fields({"kind"}, Words({"baseline", "unchanged", "changed", "failed"}))
    @@ Fields({"previous_score", "current_score", "score_delta", "previous_issue_count",
               "current_issue_count"}, Nullable(Number))
    @@ ListsOf({"added_issue_ids", "resolved_issue_ids"}, Text)

isChange == Exactly(MonitorChange)

MonitorRun ==
    Fields({"id", "monitor_id", "project_id", "started_at", "completed_at"}, Text)
    @@ Fields({"status"}, MonitorStatus)
    @@ Fields({"score"}, Nullable(Number))
    @@ Fields({"issue_count"}, Number)
    @@ Part("change", MonitorChange)
    @@ Fields({"error_code"}, Nullable(Text))

isRun ==
    Exactly(Fields({"issue_count"}, Count) @@ Part("change", isChange) @@ MonitorRun)

MonitorRunResponse ==
    Contract("webdiag.account.monitor_run.v1") @@ Part("run", MonitorRun)

isMonitorRunResponse == Exactly(Part("run", isRun) @@ MonitorRunResponse)

MonitorHistoryResponse ==
    Contract("webdiag.account.monitor_history.v1")
    @@ Part("monitor", AccountMonitor)
    @@ ListOf("runs", MonitorRun)

isMonitorHistoryResponse ==
    Exactly(Part("monitor", isAccountMonitor)
            @@ ListOf("runs", Fields({"monitor_id"}, {SameAs("monitor.id")})
                              @@ Fields({"project_id"}, {SameAs("monitor.project_id")})
                              @@ isRun)
            @@ MonitorHistoryResponse)

-------------------------------------------------------------------------------
\* features/account/account-workspace-contract.ts

AccountProject == Fields({"id", "name", "origin", "created_at", "updated_at"}, Text)

isAccountProject ==
    Exactly(Fields({"created_at", "updated_at"}, Timestamp) @@ AccountProject)

SavedAuditSummary ==
    Fields({"id", "project_id", "completed_at", "created_at"}, Text)
    @@ Fields({"status"}, Words({"succeeded"}))
    @@ Fields({"score"}, Nullable(Number))
    @@ Fields({"check_count", "issue_count"}, Number)

isSavedAuditSummary ==
    Exactly(Fields({"check_count", "issue_count"}, Integer) @@ SavedAuditSummary)

AccountProjectListResponse ==
    Contract("webdiag.account.project_list.v1") @@ ListOf("projects", AccountProject)

isAccountProjectListResponse ==
    Exactly(ListOf("projects", isAccountProject) @@ AccountProjectListResponse)

AccountProjectDetailResponse ==
    Contract("webdiag.account.project_detail.v1")
    @@ Part("project", AccountProject)
    @@ ListOf("saved_audits", SavedAuditSummary)

isAccountProjectDetailResponse ==
    Exactly(Part("project", isAccountProject)
            @@ ListOf("saved_audits", isSavedAuditSummary)
            @@ AccountProjectDetailResponse)

ArchivedAccountProject ==
    Contract("webdiag.account.archived_project.v1")
    @@ Fields({"archived_at"}, Text)
    @@ AccountProject

isArchivedAccountProject ==
    Exactly(Fields({"created_at", "updated_at", "archived_at"}, Timestamp)
            @@ ArchivedAccountProject)

ArchivedAccountProjectListResponse ==
    Contract("webdiag.account.archived_project_list.v1")
    @@ ListOf("projects", ArchivedAccountProject)

isArchivedAccountProjectListResponse ==
    Exactly(ListOf("projects", isArchivedAccountProject)
            @@ ArchivedAccountProjectListResponse)

SavedAuditCheck == Fields({"check_id", "name", "category", "status"}, Text)
isCheck         == Exactly(SavedAuditCheck)

SavedAuditPageSpeedMetric ==
    Fields({"id", "title", "unit", "source", "status"}, Text)
    @@ Fields({"value"}, Nullable(Number))
    @@ Fields({"display_value"}, Nullable(Text))

isPageSpeedMetric == Exactly(SavedAuditPageSpeedMetric)

SavedAuditPageSpeed ==
    Fields({"strategy"}, Words({"mobile"}))
    @@ Fields({"available", "field_data_available"}, Boolean)
    @@ Fields({"performance_score"}, Nullable(Number))
    @@ Fields({"field_overall_category", "lighthouse_version", "analysis_fetch_time"},
              Nullable(Text))
    @@ MappingsOf({"category_scores"}, Nullable(Number))
    @@ ListOf("metrics", SavedAuditPageSpeedMetric)
    @@ ListsOf({"opportunities"}, Text)

isSavedAuditPageSpeed ==
    Exactly(ListOf("metrics", isPageSpeedMetric) @@ SavedAuditPageSpeed)

SavedAuditRecommendation ==
    Fields({"summary"}, Text)
    @@ ListsOf({"steps"}, Text)
    @@ Fields({"expected_impact"}, Nullable(Text))

isRecommendation == Exactly(SavedAuditRecommendation)

SavedAuditIssue ==
    Fields({"issue_id", "category", "severity", "priority", "title", "description"}, Text)
    @@ Fields({"check_id"}, Nullable(Text))
    @@ ListsOf({"affected_urls"}, Text)
    @@ Part("recommendation", SavedAuditRecommendation)

isIssue == Exactly(Part("recommendation", isRecommendation) @@ SavedAuditIssue)

SavedAuditPayload ==
    Contract("webdiag.account.saved_audit_payload.v1")
    @@ Fields({"target_origin", "completed_at"}, Text)
    @@ Fields({"status"}, Words({"succeeded"}))
    @@ Fields({"score"}, Nullable(Number))
    @@ OptionalPart("pagespeed", SavedAuditPageSpeed)
    @@ ListOf("checks", SavedAuditCheck)
    @@ ListOf("issues", SavedAuditIssue)

isPayload ==
    Exactly(OptionalPart("pagespeed", isSavedAuditPageSpeed)
            @@ ListOf("checks", isCheck)
            @@ ListOf("issues", isIssue)
            @@ SavedAuditPayload)

SavedAuditDetailResponse ==
    Contract("webdiag.account.saved_audit_detail.v1")
    @@ Part("project", AccountProject)
    @@ Part("audit", SavedAuditSummary)
    @@ Part("payload", SavedAuditPayload)

isSavedAuditDetailResponse ==
    Exactly(Part("project", isAccountProject)
            @@ Part("audit", Fields({"project_id"}, {SameAs("project.id")})
                             @@ Fields({"check_count"}, {SizeOf("payload.checks")})
                             @@ Fields({"issue_count"}, {SizeOf("payload.issues")})
                             @@ Fields({"score"}, {SameAs("payload.score")})
                             @@ isSavedAuditSummary)
            @@ Part("payload", isPayload)
            @@ SavedAuditDetailResponse)

AccountCrawlJob ==
    Fields({"id", "project_id", "origin", "created_at", "updated_at"}, Text)
    @@ Fields({"state"}, Words({"queued", "running", "succeeded", "failed"}))
    @@ Fields({"error_code"}, Nullable(Text))

isCrawlJob ==
    Exactly(Fields({"created_at", "updated_at"}, Timestamp) @@ AccountCrawlJob)

CrawlPage ==
    Fields({"url"}, Text)
    @@ Fields({"status_code"}, Number)
    @@ Fields({"title", "meta_description"}, Nullable(Text))
    @@ ListsOf({"internal_links"}, Text)

isCrawlPage == Exactly(Fields({"status_code"}, Integer) @@ CrawlPage)

CrawlPageFailure ==
    Fields({"url"}, Text)
    @@ Fields({"code"}, Words({"fetch_failed", "not_html", "robots_disallowed"}))

CrawlDuplicateGroup == Fields({"value"}, Text) @@ ListsOf({"urls"}, Text)

isDuplicateGroup ==
    Exactly(Fields({"urls"}, {"list", "list with repeats"} \X (Nat \ {0, 1}))
            @@ CrawlDuplicateGroup)

CrawlResult ==
    Contract("webdiag.crawl.result.v1")
    @@ Fields({"origin", "completed_at"}, Text)
    @@ ListOf("pages", CrawlPage)
    @@ ListOf("page_failures", CrawlPageFailure)
    @@ Fields({"page_limit", "sitemap_url_count"}, Number)
    @@ Fields({"page_budget_exhausted"}, Boolean)
    @@ Fields({"sitemap_url"}, Nullable(Text))
    @@ ListOf("duplicate_titles", CrawlDuplicateGroup)
    @@ ListOf("duplicate_descriptions", CrawlDuplicateGroup)
    @@ ListsOf({"orphan_urls"}, Text)

isCrawlResult ==
    Exactly(ListOf("pages", isCrawlPage)
            @@ ListOf("page_failures", Exactly(CrawlPageFailure))
            @@ Fields({"page_limit", "sitemap_url_count"}, Integer)
            @@ ListOf("duplicate_titles", isDuplicateGroup)
            @@ ListOf("duplicate_descriptions", isDuplicateGroup)
            @@ Fields({"completed_at"}, Timestamp)
            @@ CrawlResult)

AccountCrawlDetail ==
    Contract("webdiag.account.crawl_detail.v1")
    @@ Part("job", AccountCrawlJob)
    @@ NullablePart("result", CrawlResult)

isAccountCrawlDetail ==
    Exactly(Part("job", isCrawlJob)
            @@ NullablePart("result", Fields({"origin"}, {SameAs("job.origin")})
                                      @@ isCrawlResult)
            @@ AccountCrawlDetail)

AccountCrawlList ==
    Contract("webdiag.account.crawl_list.v1") @@ ListOf("jobs", AccountCrawlJob)

isAccountCrawlList == Exactly(ListOf("jobs", isCrawlJob) @@ AccountCrawlList)

-------------------------------------------------------------------------------
\* features/account/account-overview-contract.ts

AccountOverviewProject ==
    Part("project", AccountProject)
    @@ NullablePart("latest_audit", SavedAuditSummary)
    @@ NullablePart("monitor", AccountMonitor)
    @@ Fields({"report_count", "shared_report_count"}, Number)
    @@ Fields({"latest_report_created_at"}, Nullable(Text))

ofItsProject == Fields({"project_id"}, {SameAs("project.id")})

isOverviewProject ==
    Exactly(Part("project", isAccountProject)
            @@ NullablePart("latest_audit", ofItsProject @@ isSavedAuditSummary)
            @@ NullablePart("monitor", ofItsProject @@ isAccountMonitor)
            @@ Fields({"report_count"}, {NoLessThan("shared_report_count")})
            @@ Fields({"shared_report_count"}, Count)
            @@ AccountOverviewProject)

AccountOverviewResponse ==
    Contract("webdiag.account.overview.v1") @@ ListOf("projects", AccountOverviewProject)

isAccountOverviewResponse ==
    Exactly(ListOf("projects", isOverviewProject) @@ AccountOverviewResponse)

-------------------------------------------------------------------------------
\* features/account/account-issues-contract.ts

CATEGORIES == Words({"seo", "performance", "accessibility", "security", "content",
                     "technical"})
PRIORITIES == Words({"p0", "p1", "p2", "p3"})

AccountIssue ==
    Fields({"source_category"}, Text)
    @@ Fields({"category"}, CATEGORIES)
    @@ Fields({"priority"}, PRIORITIES)
    @@ Fields({"fix_order"}, Number)
    @@ SavedAuditIssue

isAccountIssue ==
    Exactly(Fields({"issue_id"}, {<<"format", "issue id">>})
            @@ Fields({"fix_order"}, Positive)
            @@ Part("recommendation", isRecommendation)
            @@ AccountIssue)

AccountIssueListResponse ==
    Contract("webdiag.account.issue_list.v1")
    @@ Part("project", AccountProject)
    @@ Part("audit", SavedAuditSummary)
    @@ Fields({"total"}, Number)
    @@ ListOf("items", AccountIssue)

isAccountIssueListResponse ==
    Exactly(Part("project", isAccountProject)
            @@ Part("audit", ofItsProject @@ isSavedAuditSummary)
            @@ Fields({"total"}, {SizeOf("items")})
            @@ ListOf("items", isAccountIssue)
            @@ AccountIssueListResponse)

AccountIssueDetailResponse ==
    Contract("webdiag.account.issue_detail.v1")
    @@ Part("project", AccountProject)
    @@ Part("audit", SavedAuditSummary)
    @@ Part("issue", AccountIssue)

isAccountIssueDetailResponse ==
    Exactly(Part("project", isAccountProject)
            @@ Part("audit", ofItsProject @@ isSavedAuditSummary)
            @@ Part("issue", isAccountIssue)
            @@ AccountIssueDetailResponse)

-------------------------------------------------------------------------------
\* features/account/account-report-contract.ts

\* One of the two, which may be written as that of the snapshot.
ReportLocale == Words({"ru", "en"}) \cup {SameAs("snapshot.locale")}

ReportSnapshot ==
    Contract("webdiag.account.report_snapshot.v1")
    @@ Fields({"title", "project_name", "target_origin", "audit_completed_at",
               "generated_at"}, Text)
    @@ Fields({"locale"}, ReportLocale)
    @@ Fields({"score"}, Nullable(Number))
    @@ OptionalPart("pagespeed", SavedAuditPageSpeed)
    @@ ListOf("checks", SavedAuditCheck)
    @@ ListOf("issues", SavedAuditIssue)

isReportSnapshot ==
    Exactly(Fields({"target_origin"}, Origin)
            @@ Fields({"audit_completed_at", "generated_at"}, Timestamp)
            @@ Fields({"score"}, Nullable(boundedInteger(0, 100)))
            @@ OptionalPart("pagespeed", isSavedAuditPageSpeed)
            @@ ListOf("checks", isCheck)
            @@ ListOf("issues", isIssue)
            @@ ReportSnapshot)

AccountReportSummary ==
    Fields({"id", "project_id", "audit_id", "title", "created_at", "updated_at"}, Text)
    @@ Fields({"locale"}, ReportLocale)
    @@ Fields({"status"}, Words({"ready"}))
    @@ Fields({"shared"}, Boolean)
    @@ Fields({"share_expires_at"}, Nullable(Text))

\* Of a report that is shared, or of one that is not.
isReportSummary(shared) ==
    Exactly(Fields({"id", "project_id", "audit_id"}, Uuid)
            @@ Fields({"created_at", "updated_at"}, Timestamp)
            @@ Fields({"shared"}, {<<"boolean", shared>>})
            @@ Fields({"share_expires_at"}, IF shared THEN Timestamp ELSE {Null})
            @@ AccountReportSummary)

AccountReportListItem ==
    Fields({"project_name", "target_origin", "audit_completed_at"}, Text)
    @@ AccountReportSummary

isReportListItem(shared) ==
    Exactly(Fields({"project_name"}, Text)
            @@ Fields({"target_origin"}, Origin)
            @@ Fields({"audit_completed_at"}, Timestamp)
            @@ isReportSummary(shared))

AccountReportListResponse ==
    Contract("webdiag.account.report_list.v2") @@ ListOf("reports", AccountReportListItem)

isAccountReportListResponse(shared) ==
    Exactly(ListOf("reports", isReportListItem(shared)) @@ AccountReportListResponse)

AccountReportDetailResponse ==
    Contract("webdiag.account.report_detail.v1")
    @@ Part("report", AccountReportSummary)
    @@ Part("snapshot", ReportSnapshot)

ofItsSnapshot ==
    Fields({"title"}, {SameAs("snapshot.title")})
    @@ Fields({"locale"}, {SameAs("snapshot.locale")})

isAccountReportDetailResponse(shared) ==
    Exactly(Part("report", ofItsSnapshot @@ isReportSummary(shared))
            @@ Part("snapshot", isReportSnapshot)
            @@ AccountReportDetailResponse)

AccountReportShareResponse ==
    Contract("webdiag.account.report_share.v1")
    @@ Fields({"report_id", "share_token", "share_path", "expires_at"}, Text)

isAccountReportShareResponse ==
    Exactly(Fields({"report_id"}, Uuid)
            @@ Fields({"share_token"}, {<<"format", "share token">>})
            @@ Fields({"share_path"}, {PathTo("share_token")})
            @@ Fields({"expires_at"}, Timestamp)
            @@ AccountReportShareResponse)

PublicReport ==
    Fields({"title", "created_at", "expires_at"}, Text)
    @@ Fields({"locale"}, ReportLocale)

PublicReportResponse ==
    Contract("webdiag.public.report.v1")
    @@ Part("report", PublicReport)
    @@ Part("snapshot", ReportSnapshot)

isPublicReportResponse ==
    Exactly(Part("report", Exactly(Fields({"created_at", "expires_at"}, Timestamp)
                                   @@ ofItsSnapshot
                                   @@ PublicReport))
            @@ Part("snapshot", isReportSnapshot)
            @@ PublicReportResponse)

-------------------------------------------------------------------------------
\* features/account/account-ai-contract.ts

AI_TOOL_IDS ==
    {"ai_audit_action_plan", "ai_competitor_gap_report", "ai_content_brief",
     "ai_content_optimizer", "ai_search_intent_page_fit", "ai_internal_linking_planner"}

AIRunState ==
    {"pending", "running", "succeeded", "failed", "provider_unknown", "deleted"}

AIToolSummary ==
    Fields({"id"}, Words(AI_TOOL_IDS))
    @@ Fields({"contract_version"}, Text)
    @@ Fields({"credit_price"}, Number)

isAIToolSummary ==
    Exactly(Fields({"contract_version"}, boundedString(1, 32))
            @@ Fields({"credit_price"}, Positive)
            @@ AIToolSummary)

AICatalogResponse == Contract("webdiag.ai.catalog.v1") @@ ListOf("tools", AIToolSummary)

\* No tool twice.
isAICatalogResponse ==
    Exactly(SizedList("tools", {"list"} \X (0 .. 6), isAIToolSummary)
            @@ AICatalogResponse)

AICreditBalanceResponse ==
    Contract("webdiag.credits.balance.v1")
    @@ Part("account", Fields({"available", "reserved"}, Number))

isAICreditBalanceResponse ==
    Exactly(Part("account", Exactly(Fields({"available", "reserved"}, Count)))
            @@ AICreditBalanceResponse)

AuditActionPlanAction ==
    ListsOf({"issue_ids", "steps", "affected_urls"}, Text)
    @@ Fields({"title", "rationale", "verification"}, Text)

boundedStrings(names, min, max, length) ==
    SizedLists(names, Between(min, max), boundedString(1, length))

isAuditActionPlanAction ==
    Exactly(Fields({"issue_ids"}, {"list"} \X (1 .. 20))
            @@ boundedStrings({"issue_ids"}, 1, 20, 200)
            @@ Fields({"title"}, boundedString(1, 300))
            @@ Fields({"rationale", "verification"}, boundedString(1, 2000))
            @@ boundedStrings({"steps"}, 1, 12, 2000)
            @@ SizedLists({"affected_urls"}, Between(0, 100), {<<"format", "page URL">>}))

AuditActionPlanOutput ==
    Fields({"summary"}, Text) @@ ListOf("actions", AuditActionPlanAction)

isAuditActionPlanOutput ==
    Exactly(Fields({"summary"}, boundedString(1, 4000))
            @@ SizedList("actions", Between(1, 50), isAuditActionPlanAction))

isWarnings == boundedStrings({"warnings"}, 0, 20, 1000)

isContentBriefOutput ==
    LET coverage == Exactly(Fields({"source_fact_index"}, boundedInteger(0, 49))
                            @@ Fields({"excerpt"}, boundedString(1, 1000)))
        section == Exactly(Fields({"heading"}, boundedString(1, 300))
                           @@ Fields({"purpose"}, boundedString(1, 1000))
                           @@ SizedList("coverage", Between(1, 10), coverage))
    IN  Exactly(Fields({"suggested_title"}, boundedString(1, 300))
                @@ SizedList("sections", Between(1, 20), section)
                @@ isWarnings)

isContentOptimizerOutput ==
    LET change == Exactly(Fields({"kind"}, Words({"clarity", "structure", "relevance",
                                                  "style"}))
                          @@ Fields({"before_excerpt", "after_excerpt"}, boundedString(1, 2000))
                          @@ Fields({"rationale"}, boundedString(1, 1000)))
    IN  Exactly(Fields({"revised_content"}, boundedString(20, 50000))
                @@ SizedList("changes", Between(0, 30), change)
                @@ SizedLists({"preserved_fact_indexes"}, Between(0, 30), boundedInteger(0, 29))
                @@ isWarnings)

isSearchIntentPageFitOutput ==
    Exactly(Fields({"inferred_intent"}, Words({"informational", "commercial", "transactional",
                                               "navigational", "local", "unknown"}))
            @@ Fields({"confidence"}, Words({"low", "medium", "high"}))
            @@ Fields({"fit"}, Words({"aligned", "partial", "misaligned",
                                      "insufficient_evidence"}))
            @@ boundedStrings({"evidence"}, 0, 10, 1000)
            @@ boundedStrings({"gaps", "recommendations"}, 0, 20, 1000)
            @@ isWarnings)

isCompetitorGapOutput ==
    LET evidence == Exactly(Fields({"page_index"}, boundedInteger(0, 2))
                            @@ Fields({"excerpt"}, boundedString(1, 1000)))
        gap == Exactly(Fields({"topic"}, boundedString(1, 300))
                       @@ boundedStrings({"own_evidence"}, 0, 10, 1000)
                       @@ SizedList("competitor_evidence", Between(1, 10), evidence)
                       @@ Fields({"recommendation"}, boundedString(1, 2000)))
    IN  Exactly(Fields({"summary"}, boundedString(1, 4000))
                @@ SizedList("gaps", Between(1, 30), gap)
                @@ isWarnings)

isInternalLinkingOutput ==
    LET proposal ==
          Exactly(Fields({"source_page_index"}, boundedInteger(0, 49))
                  @@ Fields({"target_page_index"}, {OtherThan("source_page_index")})
                  @@ Fields({"suggested_anchor"}, boundedString(1, 200))
                  @@ Fields({"source_evidence", "target_evidence", "rationale"},
                            boundedString(1, 1000)))
    IN  Exactly(Fields({"summary"}, boundedString(1, 4000))
                @@ SizedList("proposals", Between(0, 100), proposal)
                @@ isWarnings)

isAIOutput(id) ==
    CASE id = "ai_audit_action_plan"        -> isAuditActionPlanOutput
      [] id = "ai_content_brief"            -> isContentBriefOutput
      [] id = "ai_content_optimizer"        -> isContentOptimizerOutput
      [] id = "ai_search_intent_page_fit"   -> isSearchIntentPageFitOutput
      [] id = "ai_competitor_gap_report"    -> isCompetitorGapOutput
      [] id = "ai_internal_linking_planner" -> isInternalLinkingOutput

AIRun ==
    Fields({"id", "contract_version", "created_at", "updated_at"}, Text)
    @@ Fields({"tool_id"}, Words(AI_TOOL_IDS))
    @@ Fields({"credit_price"}, Number)
    @@ Fields({"state"}, Words(AIRunState))
    @@ NullablePart("output", AuditActionPlanOutput)
    @@ Fields({"error_code"}, Nullable(Text))

\* Of a run of a tool in a state.
isAIRun(id, stage) ==
    Exactly(Fields({"id"}, Uuid)
            @@ Fields({"tool_id"}, Words({id}))
            @@ Fields({"contract_version"}, boundedString(1, 32))
            @@ Fields({"credit_price"}, Positive)
            @@ Fields({"state"}, Words({stage}))
            @@ Fields({"created_at", "updated_at"}, Timestamp)
            @@ Fields({"error_code"}, IF stage \in {"failed", "provider_unknown"}
                                      THEN {<<"format", "error code">>} ELSE {Null})
            @@ (IF stage = "succeeded" THEN Part("output", isAIOutput(id))
                ELSE Fields({"output"}, {Null})))

AIRunDetailResponse == Contract("webdiag.ai.run.v1") @@ Part("run", AIRun)

isAIRunDetailResponse(id, stage) ==
    Exactly(Contract("webdiag.ai.run.v1") @@ Part("run", isAIRun(id, stage)))

AIRunListResponse ==
    Contract("webdiag.ai.run_list.v1")
    @@ ListOf("runs", AIRun)
    @@ Fields({"next_cursor"}, Nullable(Text))

isAIRunListResponse(id, stage) ==
    Exactly(Contract("webdiag.ai.run_list.v1")
            @@ SizedList("runs", Between(0, 50), isAIRun(id, stage))
            @@ Fields({"next_cursor"}, Nullable(boundedString(1, 256))))

-------------------------------------------------------------------------------
\* features/home/audit-contract.ts

NumberBuckets(names) == MappingsOf(names, Number)

BackendAuditRunSummary ==
    Fields({"status"}, Text)
    @@ Fields({"score"}, Nullable(Number))
    @@ Fields({"check_count", "issue_count"}, Number)
    @@ NumberBuckets({"checks_by_status", "issues_by_severity", "issues_by_priority"})
    @@ Fields({"highest_severity", "top_priority"}, Nullable(Text))

BackendAuditIssuePreview ==
    Fields({"issue_id", "category", "severity", "priority", "title", "description"}, Text)
    @@ Fields({"check_id"}, Optional(Nullable(Text)))
    @@ ListOf("affected_urls", Fields({"url", "normalized_url"}, Text)
                               @@ Fields({"status_code"}, Nullable(Number))
                               @@ Fields({"final_url"}, Nullable(Text)))
    @@ Part("recommendation", SavedAuditRecommendation)

BackendAuditCheckPreview == Fields({"check_id", "name", "category", "status"}, Text)

BackendAuditSnapshotResponse ==
    Contract("webdiag.audit.snapshot.v1")
    @@ Fields({"generated_at"}, Text)
    @@ Part("summary", Fields({"job_id", "status"}, Text)
                       @@ NullablePart("run", BackendAuditRunSummary))
    @@ Part("job", Fields({"job_id", "status"}, Text)
                   @@ Part("target", Fields({"original_url", "normalized_url", "hostname",
                                             "scope"}, Text)))
    @@ NullablePart("run", Fields({"run_id", "status"}, Text)
                           @@ Fields({"score"}, Nullable(Number))
                           @@ ListOf("checks", BackendAuditCheckPreview)
                           @@ ListOf("issues", BackendAuditIssuePreview))

isBackendAuditSnapshotResponse == BackendAuditSnapshotResponse

AuditFrontendSummary ==
    Fields({"status"}, Text)
    @@ Fields({"score"}, Nullable(Number))
    @@ Fields({"checkCount", "issueCount"}, Number)
    @@ NumberBuckets({"checksByStatus", "issuesBySeverity", "issuesByPriority"})
    @@ Fields({"highestSeverity", "topPriority"}, Nullable(Text))

AuditFrontendIssue ==
    Fields({"id", "category", "severity", "priority", "title", "description"}, Text)
    @@ Fields({"checkId"}, Nullable(Text))
    @@ ListsOf({"affectedUrls"}, Text)
    @@ Part("recommendation", Fields({"summary"}, Text)
                              @@ ListsOf({"steps"}, Text)
                              @@ Fields({"expectedImpact"}, Nullable(Text)))

AuditFrontendCheck == Fields({"id", "name", "category", "status"}, Text)

AuditFrontendResult ==
    Fields({"contractVersion"}, Words({"webdiag.web.audit_result.v1"}))
    @@ Fields({"sourceContractVersion"}, Words({"webdiag.audit.snapshot.v1"}))
    @@ Fields({"generatedAt"}, Text)
    @@ Part("job", Fields({"id", "status"}, Text)
                   @@ Part("target", Fields({"originalUrl", "normalizedUrl", "hostname",
                                             "scope"}, Text)))
    @@ NullablePart("summary", AuditFrontendSummary)
    @@ NullablePart("run", Fields({"id", "status"}, Text)
                           @@ Fields({"score"}, Nullable(Number))
                           @@ ListOf("checks", AuditFrontendCheck)
                           @@ ListOf("issues", AuditFrontendIssue))

isAuditFrontendResult == AuditFrontendResult

\* Addresses an issue names, without what they carry after the path, none twice.
publicAffectedUrls == Fields({"affectedUrls"}, {"list"} \X Nat)
                      @@ ListsOf({"affectedUrls"}, PublicUrl)

\* What the route of the site makes of a snapshot before the form reads it.
toAuditFrontendResult(snapshot) ==
    LET job == Below(snapshot, <<"job">>)
        summary == Below(snapshot, <<"summary", "run">>)
        run == Below(snapshot, <<"run">>)
        issue == Below(run, <<"issues", "[]">>)
        present(T) == {IF value = Undefined THEN Null ELSE value : value \in T}
        same(names) == [name \in names |-> name]
    IN  Fields({"contractVersion"}, Words({"webdiag.web.audit_result.v1"}))
        @@ Renamed(snapshot, [sourceContractVersion |-> "contract_version",
                              generatedAt |-> "generated_at"])
        @@ Part("job", Renamed(job, [id |-> "job_id", status |-> "status"])
                       @@ Part("target", Renamed(Below(job, <<"target">>),
                                                 [originalUrl |-> "original_url",
                                                  normalizedUrl |-> "normalized_url",
                                                  hostname |-> "hostname", scope |-> "scope"])))
        @@ NullablePart("summary",
             Renamed(summary, [checkCount |-> "check_count", issueCount |-> "issue_count",
                               checksByStatus |-> "checks_by_status",
                               issuesBySeverity |-> "issues_by_severity",
                               issuesByPriority |-> "issues_by_priority",
                               highestSeverity |-> "highest_severity",
                               topPriority |-> "top_priority"]
                              @@ same({"status", "score"})))
        @@ NullablePart("run",
             Renamed(run, [id |-> "run_id"] @@ same({"status", "score"}))
             @@ ListOf("checks", Renamed(Below(run, <<"checks", "[]">>),
                                         [id |-> "check_id"]
                                         @@ same({"name", "category", "status"})))
             @@ ListOf("issues", Fields({"checkId"}, present(issue[<<"check_id">>]))
                                 @@ publicAffectedUrls
                                 @@ Renamed(issue, [id |-> "issue_id"]
                                                   @@ same({"category", "severity", "priority",
                                                            "title", "description"}))
                                 @@ Part("recommendation",
                                      Renamed(Below(issue, <<"recommendation">>),
                                              [expectedImpact |-> "expected_impact"]
                                              @@ same({"summary", "steps"})))))
===============================================================================
