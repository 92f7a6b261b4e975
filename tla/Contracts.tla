------------------------------- MODULE Contracts ------------------------------
(***************************************************************************)
(* Answers of the API as the site receives them.  The API states what it   *)
(* sends in response models, the site what it accepts in guards and what   *)
(* it then relies on in interfaces: three descriptions of one answer, in   *)
(* two languages, kept by hand.  An answer that the guard refuses is shown *)
(* as a failure of the tool, whatever it says.                             *)
(***************************************************************************)
EXTENDS ToolWork
LOCAL INSTANCE ContractTypes

ToolPage    == INSTANCE NetworkToolContracts
ToolApi     == INSTANCE ToolModels
AccountPage == INSTANCE AccountContracts
AccountApi  == INSTANCE AccountModels

\* An answer: what the API sends, what the guard lets through, what the interface promises.
Exchange(model, guard, promised) ==
    [sent |-> model, guard |-> guard, promised |-> promised]

-------------------------------------------------------------------------------
\* The tools of the site that ask the API, each with its route.
ToolExchanges ==
    <<"broken image checker">> :>
        Exchange(ToolApi!BrokenImageCheckerResponse,
                 ToolPage!isBrokenImageCheckerResponse,
                 ToolPage!BrokenImageCheckerResponse)
    @@ <<"broken link checker">> :>
        Exchange(ToolApi!BrokenLinkCheckerResponse,
                 ToolPage!isBrokenLinkCheckerResponse,
                 ToolPage!BrokenLinkCheckerResponse)
    @@ <<"cache policy">> :>
        Exchange(ToolApi!CachePolicyResponse, ToolPage!isCachePolicyResponse,
                 ToolPage!CachePolicyResponse)
    @@ <<"canonical">> :>
        Exchange(ToolApi!CanonicalResponse, ToolPage!isCanonicalToolResponse,
                 ToolPage!CanonicalToolResponse)
    @@ <<"cookie policy checker">> :>
        Exchange(ToolApi!CookiePolicyResponse, ToolPage!isCookiePolicyResponse,
                 ToolPage!CookiePolicyResponse)
    @@ <<"core web vitals">> :>
        Exchange(ToolApi!PageSpeedResponse, ToolPage!isPageSpeedResponse,
                 ToolPage!PageSpeedResponse)
    @@ <<"cors checker">> :>
        Exchange(ToolApi!CorsResponse, ToolPage!isCorsResponse, ToolPage!CorsResponse)
    @@ <<"csp analyzer">> :>
        Exchange(ToolApi!CspAnalyzerResponse, ToolPage!isCspAnalyzerResponse,
                 ToolPage!CspAnalyzerResponse)
    @@ <<"css delivery analyzer">> :>
        Exchange(ToolApi!CssDeliveryAnalyzerResponse,
                 ToolPage!isCssDeliveryAnalyzerResponse,
                 ToolPage!CssDeliveryAnalyzerResponse)
    @@ <<"dkim checker">> :>
        Exchange(ToolApi!DkimCheckerResponse, ToolPage!isDkimCheckerResponse,
                 ToolPage!DkimCheckerResponse)
    @@ <<"dmarc checker">> :>
        Exchange(ToolApi!DmarcCheckerResponse, ToolPage!isDmarcCheckerResponse,
                 ToolPage!DmarcCheckerResponse)
    @@ <<"dns lookup">> :>
        Exchange(ToolApi!DnsLookupResponse, ToolPage!isDnsLookupResponse,
                 ToolPage!DnsLookupResponse)
    @@ <<"dns resolver comparison">> :>
        Exchange(ToolApi!DnsResolverComparisonResponse,
                 ToolPage!isDnsResolverComparisonResponse,
                 ToolPage!DnsResolverComparisonResponse)
    @@ <<"dnssec checker">> :>
        Exchange(ToolApi!DnssecCheckerResponse, ToolPage!isDnssecCheckerResponse,
                 ToolPage!DnssecCheckerResponse)
    @@ <<"domain rdap lookup">> :>
        Exchange(ToolApi!DomainRdapResponse, ToolPage!isDomainRdapResponse,
                 ToolPage!DomainRdapResponse)
    @@ <<"favicon">> :>
        Exchange(ToolApi!FaviconResponse, ToolPage!isFaviconResponse,
                 ToolPage!FaviconResponse)
    @@ <<"font loading analyzer">> :>
        Exchange(ToolApi!FontLoadingAnalyzerResponse,
                 ToolPage!isFontLoadingAnalyzerResponse,
                 ToolPage!FontLoadingAnalyzerResponse)
    @@ <<"form accessibility analyzer">> :>
        Exchange(ToolApi!FormAccessibilityResponse,
                 ToolPage!isFormAccessibilityResponse,
                 ToolPage!FormAccessibilityResponse)
    @@ <<"heading structure">> :>
        Exchange(ToolApi!HeadingStructureResponse, ToolPage!isHeadingStructureResponse,
                 ToolPage!HeadingStructureResponse)
    @@ <<"hreflang">> :>
        Exchange(ToolApi!HreflangResponse, ToolPage!isHreflangResponse,
                 ToolPage!HreflangResponse)
    @@ <<"html markup">> :>
        Exchange(ToolApi!HtmlMarkupValidatorResponse,
                 ToolPage!isHtmlMarkupValidatorResponse,
                 ToolPage!HtmlMarkupValidatorResponse)
    @@ <<"http compression checker">> :>
        Exchange(ToolApi!HttpCompressionResponse, ToolPage!isHttpCompressionResponse,
                 ToolPage!HttpCompressionResponse)
    @@ <<"http headers analyzer">> :>
        Exchange(ToolApi!HttpHeadersAnalyzerResponse,
                 ToolPage!isHttpHeadersAnalyzerResponse,
                 ToolPage!HttpHeadersAnalyzerResponse)
    @@ <<"http protocol checker">> :>
        Exchange(ToolApi!HttpProtocolResponse, ToolPage!isHttpProtocolResponse,
                 ToolPage!HttpProtocolResponse)
    @@ <<"http status">> :>
        Exchange(ToolApi!HttpStatusResponse, ToolPage!isHttpStatusToolResponse,
                 ToolPage!HttpStatusToolResponse)
    @@ <<"image performance">> :>
        Exchange(ToolApi!ImagePerformanceResponse, ToolPage!isImagePerformanceResponse,
                 ToolPage!ImagePerformanceResponse)
    @@ <<"image seo">> :>
        Exchange(ToolApi!ImageSeoResponse, ToolPage!isImageSeoResponse,
                 ToolPage!ImageSeoResponse)
    @@ <<"indexability">> :>
        Exchange(ToolApi!IndexabilityResponse, ToolPage!isIndexabilityResponse,
                 ToolPage!IndexabilityResponse)
    @@ <<"interactive accessible name analyzer">> :>
        Exchange(ToolApi!InteractiveAccessibleNameResponse,
                 ToolPage!isInteractiveAccessibleNameResponse,
                 ToolPage!InteractiveAccessibleNameResponse)
    @@ <<"ip rdap lookup">> :>
        Exchange(ToolApi!IpRdapResponse, ToolPage!isIpRdapResponse,
                 ToolPage!IpRdapResponse)
    @@ <<"javascript bundle surface">> :>
        Exchange(ToolApi!JavaScriptBundleSurfaceResponse,
                 ToolPage!isJavaScriptBundleSurfaceResponse,
                 ToolPage!JavaScriptBundleSurfaceResponse)
    @@ <<"keyword frequency">> :>
        Exchange(ToolApi!KeywordFrequencyResponse, ToolPage!isKeywordFrequencyResponse,
                 ToolPage!KeywordFrequencyResponse)
    @@ <<"landmark structure analyzer">> :>
        Exchange(ToolApi!LandmarkStructureResponse,
                 ToolPage!isLandmarkStructureResponse,
                 ToolPage!LandmarkStructureResponse)
    @@ <<"link analyzer">> :>
        Exchange(ToolApi!LinkAnalyzerResponse, ToolPage!isLinkAnalyzerResponse,
                 ToolPage!LinkAnalyzerResponse)
    @@ <<"meta tags">> :>
        Exchange(ToolApi!MetaTagsResponse, ToolPage!isMetaTagsResponse,
                 ToolPage!MetaTagsResponse)
    @@ <<"mixed content checker">> :>
        Exchange(ToolApi!MixedContentResponse, ToolPage!isMixedContentResponse,
                 ToolPage!MixedContentResponse)
    @@ <<"mx record checker">> :>
        Exchange(ToolApi!MxCheckerResponse, ToolPage!isMxCheckerResponse,
                 ToolPage!MxCheckerResponse)
    @@ <<"page weight">> :>
        Exchange(ToolApi!PageWeightResponse, ToolPage!isPageWeightResponse,
                 ToolPage!PageWeightResponse)
    @@ <<"readability">> :>
        Exchange(ToolApi!ReadabilityResponse, ToolPage!isReadabilityResponse,
                 ToolPage!ReadabilityResponse)
    @@ <<"redirect map validator">> :>
        Exchange(ToolApi!RedirectMapResponse, ToolPage!isRedirectMapResponse,
                 ToolPage!RedirectMapResponse)
    @@ <<"resource hints analyzer">> :>
        Exchange(ToolApi!ResourceHintsAnalyzerResponse,
                 ToolPage!isResourceHintsAnalyzerResponse,
                 ToolPage!ResourceHintsAnalyzerResponse)
    @@ <<"robots txt">> :>
        Exchange(ToolApi!RobotsTxtToolResponse, ToolPage!isRobotsTxtToolResponse,
                 ToolPage!RobotsTxtToolResponse)
    @@ <<"security headers">> :>
        Exchange(ToolApi!SecurityHeadersResponse, ToolPage!isSecurityHeadersResponse,
                 ToolPage!SecurityHeadersResponse)
    @@ <<"serp preview">> :>
        Exchange(ToolApi!SerpPreviewResponse, ToolPage!isSerpPreviewResponse,
                 ToolPage!SerpPreviewResponse)
    @@ <<"server timing analyzer">> :>
        Exchange(ToolApi!ServerTimingAnalyzerResponse,
                 ToolPage!isServerTimingAnalyzerResponse,
                 ToolPage!ServerTimingAnalyzerResponse)
    @@ <<"sitemap xml">> :>
        Exchange(ToolApi!SitemapXmlToolResponse, ToolPage!isSitemapXmlToolResponse,
                 ToolPage!SitemapXmlToolResponse)
    @@ <<"social preview">> :>
        Exchange(ToolApi!SocialPreviewResponse, ToolPage!isSocialPreviewResponse,
                 ToolPage!SocialPreviewResponse)
    @@ <<"spf checker">> :>
        Exchange(ToolApi!SpfCheckerResponse, ToolPage!isSpfCheckerResponse,
                 ToolPage!SpfCheckerResponse)
    @@ <<"ssl certificate checker">> :>
        Exchange(ToolApi!SslCertificateResponse, ToolPage!isSslCertificateResponse,
                 ToolPage!SslCertificateResponse)
    @@ <<"structured data">> :>
        Exchange(ToolApi!StructuredDataValidatorResponse,
                 ToolPage!isStructuredDataValidatorResponse,
                 ToolPage!StructuredDataValidatorResponse)
    @@ <<"technology detector">> :>
        Exchange(ToolApi!TechnologyDetectorResponse,
                 ToolPage!isTechnologyDetectorResponse,
                 ToolPage!TechnologyDetectorResponse)
    @@ <<"third party script analyzer">> :>
        Exchange(ToolApi!ThirdPartyScriptAnalyzerResponse,
                 ToolPage!isThirdPartyScriptAnalyzerResponse,
                 ToolPage!ThirdPartyScriptAnalyzerResponse)
    @@ <<"tls configuration checker">> :>
        Exchange(ToolApi!TlsConfigurationResponse, ToolPage!isTlsConfigurationResponse,
                 ToolPage!TlsConfigurationResponse)
    @@ [a \in {"bulk http status"} \X {"succeeded", "failed"} |->
          Exchange(ToolApi!BulkHttpStatusResponse(a[2]),
                   ToolPage!isBulkHttpStatusResponse(a[2]),
                   ToolPage!BulkHttpStatusResult)]
    @@ [a \in {"lighthouse network"} \X BOOLEAN \X BOOLEAN |->
          Exchange(ToolApi!LighthouseNetworkResponse(a[2], a[3]),
                   ToolPage!isLighthouseNetworkResponse(a[2], a[3]),
                   ToolPage!LighthouseNetworkResponse)]

\* The account pages, with the runs of each AI tool in each state.
AccountExchanges ==
    <<"account session">> :>
        Exchange(AccountApi!AccountSessionResponse,
                 AccountPage!isAccountSessionResponse,
                 AccountPage!AccountSessionResponse)
    @@ <<"account logout">> :>
        Exchange(AccountApi!AccountLogoutResponse, AccountPage!isAccountLogoutResponse,
                 AccountPage!AccountLogoutResponse)
    @@ <<"account sessions">> :>
        Exchange(AccountApi!AccountSessionSummaryResponse,
                 AccountPage!isAccountSessionsResponse,
                 AccountPage!AccountSessionsResponse)
    @@ <<"account sessions revoked">> :>
        Exchange(AccountApi!AccountSessionsRevokedResponse,
                 AccountPage!isAccountSessionsRevokedResponse,
                 AccountPage!AccountSessionsRevokedResponse)
    @@ <<"monitor">> :>
        Exchange(AccountApi!AccountMonitor, AccountPage!isAccountMonitor,
                 AccountPage!AccountMonitor)
    @@ <<"monitor run">> :>
        Exchange(AccountApi!MonitorRunResponse, AccountPage!isMonitorRunResponse,
                 AccountPage!MonitorRunResponse)
    @@ <<"monitor history">> :>
        Exchange(AccountApi!MonitorHistoryResponse,
                 AccountPage!isMonitorHistoryResponse,
                 AccountPage!MonitorHistoryResponse)
    @@ <<"account overview">> :>
        Exchange(AccountApi!AccountOverviewResponse,
                 AccountPage!isAccountOverviewResponse,
                 AccountPage!AccountOverviewResponse)
    @@ <<"project">> :>
        Exchange(AccountApi!AccountProject, AccountPage!isAccountProject,
                 AccountPage!AccountProject)
    @@ <<"project list">> :>
        Exchange(AccountApi!AccountProjectListResponse,
                 AccountPage!isAccountProjectListResponse,
                 AccountPage!AccountProjectListResponse)
    @@ <<"project detail">> :>
        Exchange(AccountApi!AccountProjectDetailResponse,
                 AccountPage!isAccountProjectDetailResponse,
                 AccountPage!AccountProjectDetailResponse)
    @@ <<"archived project list">> :>
        Exchange(AccountApi!ArchivedAccountProjectListResponse,
                 AccountPage!isArchivedAccountProjectListResponse,
                 AccountPage!ArchivedAccountProjectListResponse)
    @@ <<"saved audit">> :>
        Exchange(AccountApi!SavedAuditDetailResponse,
                 AccountPage!isSavedAuditDetailResponse,
                 AccountPage!SavedAuditDetailResponse)
    @@ <<"crawl">> :>
        Exchange(AccountApi!AccountCrawlDetail, AccountPage!isAccountCrawlDetail,
                 AccountPage!AccountCrawlDetail)
    @@ <<"crawl list">> :>
        Exchange(AccountApi!AccountCrawlList, AccountPage!isAccountCrawlList,
                 AccountPage!AccountCrawlList)
    @@ <<"issue list">> :>
        Exchange(AccountApi!AccountIssueListResponse,
                 AccountPage!isAccountIssueListResponse,
                 AccountPage!AccountIssueListResponse)
    @@ <<"issue">> :>
        Exchange(AccountApi!AccountIssueDetailResponse,
                 AccountPage!isAccountIssueDetailResponse,
                 AccountPage!AccountIssueDetailResponse)
    @@ <<"report share">> :>
        Exchange(AccountApi!AccountReportShareResponse,
                 AccountPage!isAccountReportShareResponse,
                 AccountPage!AccountReportShareResponse)
    @@ <<"public report">> :>
        Exchange(AccountApi!PublicReportResponse, AccountPage!isPublicReportResponse,
                 AccountPage!PublicReportResponse)
    @@ <<"ai catalog">> :>
        Exchange(AccountApi!AICatalogResponse, AccountPage!isAICatalogResponse,
                 AccountPage!AICatalogResponse)
    @@ <<"credit balance">> :>
        Exchange(AccountApi!CreditBalanceResponse,
                 AccountPage!isAICreditBalanceResponse,
                 AccountPage!AICreditBalanceResponse)
    @@ <<"audit snapshot">> :>
        Exchange(AccountApi!AuditSnapshotResponse,
                 AccountPage!isBackendAuditSnapshotResponse,
                 AccountPage!BackendAuditSnapshotResponse)
    @@ [a \in {"report list"} \X BOOLEAN |->
          Exchange(AccountApi!AccountReportListResponse(a[2]),
                   AccountPage!isAccountReportListResponse(a[2]),
                   AccountPage!AccountReportListResponse)]
    @@ [a \in {"report"} \X BOOLEAN |->
          Exchange(AccountApi!AccountReportDetailResponse(a[2]),
                   AccountPage!isAccountReportDetailResponse(a[2]),
                   AccountPage!AccountReportDetailResponse)]
    @@ [a \in {"ai run"} \X AccountPage!AI_TOOL_IDS \X AccountPage!AIRunState |->
          Exchange(AccountApi!AIRunDetailResponse(a[2], a[3]),
                   AccountPage!isAIRunDetailResponse(a[2], a[3]),
                   AccountPage!AIRunDetailResponse)]
    @@ [a \in {"ai run list"} \X AccountPage!AI_TOOL_IDS \X AccountPage!AIRunState |->
          Exchange(AccountApi!AIRunListResponse(a[2], a[3]),
                   AccountPage!isAIRunListResponse(a[2], a[3]),
                   AccountPage!AIRunListResponse)]

\* What the route of the site makes of a snapshot, as the audit form receives it.
AuditExchange ==
    <<"audit result">> :>
        Exchange(AccountPage!toAuditFrontendResult(AccountApi!AuditSnapshotResponse),
                 AccountPage!isAuditFrontendResult,
                 AccountPage!AuditFrontendResult)

Exchanges == ToolExchanges @@ AccountExchanges @@ AuditExchange

-------------------------------------------------------------------------------
Parent(path) == SubSeq(path, 1, Len(path) - 1)

\* Of lists of any size, an empty and a long one.
Tried(T) == IF Sizes(0, 1) \cup Sizes(Many, Many) \subseteq T THEN Sizes(0, Many) ELSE T

\* Is there something that a path can be read in?
IsThere(path, model) ==
    Len(path) = 1 \/ (Parent(path) \in DOMAIN model /\ Object \in model[Parent(path)])

PathsRead(e) ==
    DOMAIN e.sent
    \cup {p \in DOMAIN e.guard \cup DOMAIN e.promised :
            p[Len(p)] # "*" /\ IsThere(p, e.sent)}

ValuesAt(path, model) == IF path \in DOMAIN model THEN Tried(model[path]) ELSE {Undefined}

\* A contract accepts a value at a path, or does not look there.
Accepts(C, path, value) ==
    IF path \in DOMAIN C THEN value \in C[path]
    ELSE value = Undefined \/ Parent(path) \o <<"*">> \notin DOMAIN C

\* An answer arrives, with some value at some path; the rest of it is as it should be.
ReceiveAnswer ==
    \E of \in DOMAIN Exchanges : \E path \in PathsRead(Exchanges[of]) :
      \E value \in ValuesAt(path, Exchanges[of].sent) :
        work' = [tool |-> "answer", answer |-> of, path |-> path, value |-> value,
                 read |-> Accepts(Exchanges[of].guard, path, value),
                 kept |-> Accepts(Exchanges[of].promised, path, value)]

-------------------------------------------------------------------------------
\* The addresses a loading time was measured for keep their query, which the guard
\* refuses.
MeasuredWithQuery ==
    work.answer = <<"core web vitals">> /\ work.value = <<"format", "URL with query">>

\* What AI tools write is counted in characters by the API and in code units by the
\* site; and an action plan may name an issue twice, which the site refuses.
WrittenByAI ==
    /\ work.answer[1] \in {"ai run", "ai run list"}
    /\ \/ work.value[1] = "wide text"
       \/ work.path[Len(work.path)] = "issue_ids" /\ work.value[1] = "list with repeats"

\* The interface of a run has the output of the action plan only.
OutputOfOtherTool ==
    /\ work.answer[1] \in {"ai run", "ai run list"}
    /\ work.answer[2] # "ai_audit_action_plan" /\ work.answer[3] = "succeeded"
    /\ Len(work.path) > 2

(***************************************************************************)
(* The site can read what the API sends: every value that a response model *)
(* allows at a path passes the guard of the tool or page that asked, and   *)
(* is of the type that its interface promises, null, missing fields and    *)
(* both ends of each range included; and every field that the guard or the *)
(* interface asks for is there.  The exceptions, named above, are          *)
(* disagreements of the two sides.                                         *)
(***************************************************************************)
AnswersAreRead ==
    work.tool = "answer" =>
      /\ work.read \/ MeasuredWithQuery \/ WrittenByAI
      /\ work.kept \/ WrittenByAI \/ OutputOfOtherTool
===============================================================================
