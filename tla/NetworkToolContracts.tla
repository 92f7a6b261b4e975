------------------------- MODULE NetworkToolContracts -------------------------
(*****************************************************************************)
(* The interfaces and guards of the tools that look at addresses, hosts,     *)
(* headers and loading times.                                                *)
(*****************************************************************************)
EXTENDS PageToolContracts

-------------------------------------------------------------------------------
\* features/tools/bulk-http-status-contract.ts

HttpStatusResult ==
    PageAnswer("webdiag.tool.http_status.v1")
    @@ Fields({"ok"}, Boolean)
    @@ Fields({"redirect_count"}, Number)
    @@ Fields({"redirect_chain"}, Lists)
    @@ Part("headers", Fields({"content_type", "content_length", "cache_control",
                               "server"},
                   Nullable(Text)))

BulkHttpStatusItem ==
    Fields({"index"}, Number)
    @@ Fields({"requested_url"}, Text)
    @@ Fields({"status"}, Words({"succeeded", "failed"}))
    @@ NullablePart("result", HttpStatusResult)
    @@ NullablePart("error", Fields({"code", "message"}, Text))

BulkHttpStatusResult ==
    Contract("webdiag.tool.bulk_http_status.v1")
    @@ Fields({"generated_at"}, Text)
    @@ Fields({"total", "succeeded", "failed"}, Number)
    @@ ListOf("items", BulkHttpStatusItem)

isBulkRedirectHop ==
    Fields({"source_url", "target_url"}, Text)
    @@ Fields({"status_code"}, HttpStatus)

isHttpStatusResult ==
    ListOf("redirect_chain", isBulkRedirectHop)
    @@ Fields({"redirect_count"}, {SizeOf("redirect_chain")})
    @@ Fields({"status_code"}, HttpStatus)
    @@ HttpStatusResult

isBulkItem(status) ==
    Fields({"status"}, Words({status}))
    @@ Fields({"index"}, {PlaceIn("items")})
    @@ (IF status = "succeeded"
        THEN Part("result", isHttpStatusResult) @@ Fields({"error"}, {Null})
        ELSE Fields({"result"}, {Null})
             @@ Part("error",
                     Fields({"code"}, Words({"tool_url_rejected", "tool_fetch_failed",
                                             "tool_batch_deadline_exceeded"}))
                     @@ Fields({"message"}, Text)))
    @@ BulkHttpStatusItem

isBulkHttpStatusResponse(status) ==
    Fields({"total"}, {SizeOf("items")})
    @@ Fields({"succeeded"}, {Those("items", "succeeded")})
    @@ Fields({"failed"}, {Those("items", "failed")})
    @@ Fields({"items"}, {"list"} \X (1 .. 50))
    @@ ListOf("items", isBulkItem(status))
    @@ BulkHttpStatusResult

-------------------------------------------------------------------------------
\* features/tools/network-dns-tool-contract.ts

DnsRecordResult ==
    Fields({"record_type", "name", "value"}, Text)
    @@ Fields({"ttl"}, Number)
    @@ Fields({"priority"}, Nullable(Number))

DnsLookupResponse ==
    Contract("webdiag.tool.dns_lookup.v1")
    @@ Fields({"generated_at", "domain", "recommendation"}, Text)
    @@ ListsOf({"checked_record_types"}, Text)
    @@ Fields({"record_count"}, Number)
    @@ Fields({"errors"}, Lists)
    @@ ListOf("records", DnsRecordResult)

MxHostResult ==
    Fields({"host"}, Text)
    @@ Fields({"priority", "address_count"}, Number)
    @@ ListsOf({"addresses"}, Text)
    @@ Fields({"reachable_dns"}, Boolean)

MxCheckerResponse ==
    Contract("webdiag.tool.mx_record_checker.v1")
    @@ Fields({"generated_at", "domain", "recommendation"}, Text)
    @@ Fields({"mx_count"}, Number)
    @@ Fields({"has_null_mx"}, Boolean)
    @@ Fields({"status"}, ToolStatus)
    @@ ListOf("hosts", MxHostResult)

SpfCheckerResponse ==
    Contract("webdiag.tool.spf_checker.v1")
    @@ Fields({"generated_at", "domain", "recommendation"}, Text)
    @@ Fields({"spf_record_count", "estimated_dns_lookup_mechanisms"}, Number)
    @@ Fields({"spf_record", "all_mechanism"}, Nullable(Text))
    @@ Fields({"mechanisms"}, Lists)
    @@ Fields({"has_all_mechanism", "uses_include", "uses_redirect"}, Boolean)
    @@ Fields({"status"}, ToolStatus)

MailPolicyTagResult ==
    Fields({"name", "value"}, Text)

DkimCheckerResponse ==
    Contract("webdiag.tool.dkim_checker.v1")
    @@ Fields({"generated_at", "domain", "selector", "record_name", "recommendation"},
              Text)
    @@ Fields({"dkim_record_count", "public_key_length"}, Number)
    @@ Fields({"dkim_record", "key_type"}, Nullable(Text))
    @@ Fields({"has_public_key"}, Boolean)
    @@ Fields({"status"}, ToolStatus)
    @@ ListOf("tags", MailPolicyTagResult)

DmarcCheckerResponse ==
    Contract("webdiag.tool.dmarc_checker.v1")
    @@ Fields({"generated_at", "domain", "record_name", "recommendation"}, Text)
    @@ Fields({"dmarc_record_count"}, Number)
    @@ Fields({"dmarc_record", "policy", "subdomain_policy", "alignment_dkim",
               "alignment_spf"}, Nullable(Text))
    @@ Fields({"percentage"}, Nullable(Number))
    @@ Fields({"has_rua", "has_ruf"}, Boolean)
    @@ Fields({"status"}, ToolStatus)
    @@ ListOf("tags", MailPolicyTagResult)

DnssecCheckerResponse ==
    Contract("webdiag.tool.dnssec_checker.v1")
    @@ Fields({"generated_at", "domain", "recommendation"}, Text)
    @@ Fields({"ds_record_count", "dnskey_record_count"}, Number)
    @@ Fields({"delegation_signed", "zone_dnskey_present"}, Boolean)
    @@ ListsOf({"algorithms"}, Text)
    @@ Fields({"status"}, ToolStatus)
    @@ ListOf("ds_records", DnsRecordResult)
    @@ ListOf("dnskey_records", DnsRecordResult)

isDnsLookupResponse ==
    Unread(DnsLookupResponse, {<<"checked_record_types">>, <<"records">>})

isMxCheckerResponse ==
    Unread(MxCheckerResponse, {<<"hosts">>})

isSpfCheckerResponse ==
    SpfCheckerResponse

isDkimCheckerResponse ==
    Unread(DkimCheckerResponse, {<<"tags">>})

isDmarcCheckerResponse ==
    Unread(DmarcCheckerResponse, {<<"tags">>})

isDnssecCheckerResponse ==
    Unread(DnssecCheckerResponse, {<<"ds_records">>, <<"dnskey_records">>,
                                   <<"algorithms">>})

-------------------------------------------------------------------------------
\* features/tools/network-intelligence-tool-contract.ts

ResolverAnswer ==
    Fields({"value"}, Text)
    @@ Fields({"ttl"}, Number)
    @@ Fields({"priority"}, Nullable(Number))

ResolverSnapshot ==
    Fields({"resolver_id", "resolver_name", "nameserver"}, Text)
    @@ Fields({"status"}, Words({"ok", "error"}))
    @@ Fields({"elapsed_ms", "answer_count"}, Number)
    @@ Fields({"error"}, Nullable(Text))
    @@ ListOf("answers", ResolverAnswer)

DnsResolverComparisonResponse ==
    Contract("webdiag.tool.dns_resolver_comparison.v1")
    @@ Fields({"generated_at", "domain", "recommendation"}, Text)
    @@ Fields({"record_type"}, Words({"A", "AAAA", "CNAME", "MX", "NS", "TXT"}))
    @@ Fields({"resolver_count", "successful_resolver_count",
               "distinct_answer_set_count"}, Number)
    @@ Fields({"consistent"}, Boolean)
    @@ Fields({"timing_scope"}, Words({"backend_to_resolver"}))
    @@ Fields({"status"}, ToolStatus)
    @@ ListOf("snapshots", ResolverSnapshot)

RdapEvent ==
    Fields({"action"}, Words({"registration", "expiration", "last changed",
                              "last update of RDAP database", "transfer",
                              "reinstantiation", "other"}))
    @@ Fields({"raw_action", "date"}, Text)

RdapNameserver ==
    Fields({"ldh_name", "unicode_name"}, Nullable(Text))
    @@ ListsOf({"statuses"}, Text)

DomainRdapResponse ==
    Contract("webdiag.tool.domain_rdap_lookup.v1")
    @@ Fields({"generated_at", "domain", "recommendation"}, Text)
    @@ Fields({"found"}, Boolean)
    @@ Fields({"bootstrap_source"}, Words({"iana_rdap_dns_bootstrap"}))
    @@ Fields({"rdap_url", "handle", "ldh_name", "unicode_name", "registrar_name",
               "abuse_email"}, Nullable(Text))
    @@ ListsOf({"statuses", "notice_titles"}, Text)
    @@ Fields({"delegation_signed"}, Nullable(Boolean))
    @@ Fields({"status"}, ToolStatus)
    @@ ListOf("events", RdapEvent)
    @@ ListOf("nameservers", RdapNameserver)

IpRdapCidr ==
    Fields({"version"}, Words({"v4", "v6"}))
    @@ Fields({"prefix"}, Text)
    @@ Fields({"length"}, Number)

IpRdapResponse ==
    Contract("webdiag.tool.ip_rdap_lookup.v1")
    @@ Fields({"generated_at", "ip", "recommendation"}, Text)
    @@ Fields({"found"}, Boolean)
    @@ Fields({"bootstrap_source"}, Words({"iana_rdap_ip_bootstrap"}))
    @@ Fields({"country_semantics"}, Words({"registration_data_not_geolocation"}))
    @@ Fields({"rdap_url", "handle", "start_address", "end_address", "ip_version",
               "name", "network_type", "country", "parent_handle", "abuse_email"},
              Nullable(Text))
    @@ ListsOf({"statuses"}, Text)
    @@ Fields({"status"}, ToolStatus)
    @@ ListOf("events", RdapEvent)
    @@ ListOf("cidrs", IpRdapCidr)

isRdapEvent ==
    RdapEvent

isResolverAnswer ==
    Fields({"ttl"}, Count)
    @@ Fields({"priority"}, Nullable(Count))
    @@ ResolverAnswer

isResolverSnapshot ==
    ListOf("answers", isResolverAnswer)
    @@ Fields({"elapsed_ms", "answer_count"}, Count)
    @@ ResolverSnapshot

isRdapNameserver ==
    RdapNameserver

isIpRdapCidr ==
    Fields({"length"}, Count)
    @@ IpRdapCidr

isDnsResolverComparisonResponse ==
    ListOf("snapshots", isResolverSnapshot)
    @@ Fields({"resolver_count", "successful_resolver_count",
               "distinct_answer_set_count"}, Count)
    @@ DnsResolverComparisonResponse

isDomainRdapResponse ==
    ListOf("events", isRdapEvent)
    @@ ListOf("nameservers", isRdapNameserver)
    @@ DomainRdapResponse

isIpRdapResponse ==
    ListOf("events", isRdapEvent)
    @@ ListOf("cidrs", isIpRdapCidr)
    @@ IpRdapResponse

-------------------------------------------------------------------------------
\* features/tools/performance-tool-contract.ts

PageSpeedMetricResponse ==
    Fields({"id", "title"}, Text)
    @@ Fields({"value"}, Nullable(Number))
    @@ Fields({"unit"}, Words({"ms", "score", "ratio", "category"}))
    @@ Fields({"display_value"}, Nullable(Text))
    @@ Fields({"source"}, Words({"lab", "field"}))
    @@ Fields({"status"}, Words({"pass", "warning", "fail", "unavailable"}))

PageSpeedOpportunityResponse ==
    Fields({"id", "title"}, Text)
    @@ Fields({"display_value"}, Nullable(Text))
    @@ Fields({"savings_ms", "score"}, Nullable(Number))

LighthouseAuditFindingResponse ==
    Fields({"id", "title", "score_display_mode"}, Text)
    @@ Fields({"category"}, LighthouseCategory)
    @@ Fields({"score", "weight"}, Number)
    @@ Fields({"display_value"}, Nullable(Text))

PageSpeedStrategyResponse ==
    Fields({"strategy"}, Words({"mobile", "desktop"}))
    @@ Fields({"available", "field_data_available"}, Boolean)
    @@ Fields({"performance_score"}, Nullable(Number))
    @@ Fields({"field_overall_category", "lighthouse_version", "analysis_fetch_time",
               "fetch_error"}, Nullable(Text))
    @@ Part("category_scores", Fields(Categories, Nullable(Number)))
    @@ ListOf("audit_findings", LighthouseAuditFindingResponse)
    @@ ListOf("metrics", PageSpeedMetricResponse)
    @@ ListOf("opportunities", PageSpeedOpportunityResponse)

PageSpeedResponse ==
    Contract("webdiag.tool.core_web_vitals.v2")
    @@ Fields({"generated_at", "requested_url", "normalized_url", "recommendation"}, Text)
    @@ Fields({"strategy"}, Words({"mobile", "desktop", "both"}))
    @@ ListOf("results", PageSpeedStrategyResponse)

CachePolicyCheckResponse ==
    Fields({"id", "title", "recommendation"}, Text)
    @@ Fields({"status"}, ToolStatus)
    @@ Fields({"severity"}, FindingSeverity)
    @@ Fields({"value"}, Nullable(Text))

CachePolicyResponse ==
    PageAnswer("webdiag.tool.cache_policy.v1")
    @@ Fields({"content_type", "cache_control", "etag", "last_modified", "expires",
               "vary"}, Nullable(Text))
    @@ Fields({"is_static_asset"}, Boolean)
    @@ Fields({"score"}, Number)
    @@ ListOf("checks", CachePolicyCheckResponse)

ResourceSummaryResponse ==
    Fields({"type"}, ResourceType)
    @@ Fields({"count", "known_bytes", "unknown_size_count"}, Number)

PageResourceResponse ==
    Fields({"url"}, Text)
    @@ Fields({"type"}, ResourceType)
    @@ Fields({"status_code", "content_length"}, Nullable(Number))
    @@ Fields({"content_type", "recommendation"}, Nullable(Text))
    @@ Fields({"modern_image_format"}, Nullable(Boolean))

PageWeightResponse ==
    PageAnswer("webdiag.tool.page_weight.v1")
    @@ Fields({"scan_mode"}, Words({"static_html_bounded"}))
    @@ Fields({"html_bytes", "discovered_resource_count", "checked_resource_count",
               "total_known_bytes", "unknown_size_count", "image_count",
               "legacy_image_count", "modern_image_count"}, Number)
    @@ ListOf("summaries", ResourceSummaryResponse)
    @@ ListOf("largest_resources", PageResourceResponse)

LighthouseNetworkResourceResponse ==
    Fields({"url", "resource_type"}, Text)
    @@ Fields({"protocol", "mime_type"}, Nullable(Text))
    @@ Fields({"status_code", "transfer_bytes", "resource_bytes"}, Nullable(Number))
    @@ Fields({"start_ms", "end_ms", "duration_ms"}, Number)

LighthouseRenderBlockingItemResponse ==
    Fields({"url"}, Text)
    @@ Fields({"total_bytes", "wasted_bytes", "wasted_ms"}, Nullable(Number))

LighthouseNetworkResponse ==
    Contract("webdiag.tool.lighthouse_network.v1")
    @@ Fields({"generated_at", "requested_url", "normalized_url", "recommendation"}, Text)
    @@ Fields({"strategy"}, Words({"mobile", "desktop"}))
    @@ Fields({"available", "resources_available", "render_blocking_available"}, Boolean)
    @@ Fields({"lighthouse_version", "analysis_fetch_time",
               "render_blocking_display_value", "fetch_error"}, Nullable(Text))
    @@ Fields({"request_count", "returned_request_count"}, Number)
    @@ Fields({"total_transfer_bytes", "total_resource_bytes", "render_blocking_score",
               "render_blocking_savings_ms"}, Nullable(Number))
    @@ ListOf("resources", LighthouseNetworkResourceResponse)
    @@ ListOf("render_blocking_items", LighthouseRenderBlockingItemResponse)

isPageSpeedMetric ==
    PageSpeedMetricResponse

isPageSpeedOpportunity ==
    PageSpeedOpportunityResponse

isCategoryScores ==
    Exactly(Fields(Categories, Nullable(Number)))

isLighthouseAuditFinding ==
    Fields({"score"}, {"number", "between"} \X {0})
    @@ Fields({"weight"}, NonNegative)
    @@ LighthouseAuditFindingResponse

isPageSpeedStrategy ==
    Part("category_scores", isCategoryScores)
    @@ Fields({"audit_findings"}, {"list"} \X (0 .. 20))
    @@ ListOf("audit_findings", isLighthouseAuditFinding)
    @@ ListOf("metrics", isPageSpeedMetric)
    @@ ListOf("opportunities", isPageSpeedOpportunity)
    @@ PageSpeedStrategyResponse

isPageSpeedResponse ==
    ListOf("results", isPageSpeedStrategy)
    @@ Fields({"requested_url", "normalized_url"}, PublicUrl)
    @@ PageSpeedResponse

isCachePolicyCheck ==
    CachePolicyCheckResponse

isCachePolicyResponse ==
    ListOf("checks", isCachePolicyCheck)
    @@ CachePolicyResponse

isResourceSummary ==
    ResourceSummaryResponse

isPageResource ==
    PageResourceResponse

isPageWeightResponse ==
    ListOf("summaries", isResourceSummary)
    @@ ListOf("largest_resources", isPageResource)
    @@ PageWeightResponse

isLighthouseNetworkResource ==
    Exactly(Fields({"url"}, PublicUrl)
            @@ Fields({"status_code"}, Nullable(Integer))
            @@ Fields({"start_ms", "duration_ms"}, NonNegative)
            @@ Fields({"end_ms"}, {NoLessThan("start_ms")})
            @@ Fields({"transfer_bytes", "resource_bytes"}, Nullable(NonNegative))
            @@ LighthouseNetworkResourceResponse)

isLighthouseRenderBlockingItem ==
    Exactly(Fields({"url"}, PublicUrl)
            @@ Fields({"total_bytes", "wasted_bytes", "wasted_ms"}, Nullable(NonNegative))
            @@ LighthouseRenderBlockingItemResponse)

isLighthouseNetworkResponse(resources, blocking) ==
    Exactly(Fields({"resources_available"}, {"boolean"} \X {resources})
            @@ Fields({"render_blocking_available"}, {"boolean"} \X {blocking})
            @@ Fields({"resources"}, {"list"} \X (0 .. IF resources THEN 40 ELSE 0))
            @@ Fields({"render_blocking_items"}, {"list"} \X (0 .. IF blocking THEN 20 ELSE 0))
            @@ ListOf("resources", isLighthouseNetworkResource)
            @@ ListOf("render_blocking_items", isLighthouseRenderBlockingItem)
            @@ Fields({"request_count"}, {"number"} \X (0 .. 1000))
            @@ Fields({"returned_request_count"}, {SizeOf("resources")})
            @@ Fields({"render_blocking_score"}, Nullable(Floats(0, 1)))
            @@ Fields({"total_transfer_bytes", "total_resource_bytes",
                       "render_blocking_savings_ms"}, Nullable(NonNegative))
            @@ LighthouseNetworkResponse)

-------------------------------------------------------------------------------
\* features/tools/protocol-security-tool-contract.ts

CertificateNameResult ==
    Fields({"common_name"}, Nullable(Text))
    @@ ListsOf({"subject_alt_names"}, Text)

SslCertificateResponse ==
    Contract("webdiag.tool.ssl_certificate_checker.v1")
    @@ Fields({"generated_at", "hostname", "recommendation"}, Text)
    @@ Fields({"port", "san_count"}, Number)
    @@ Fields({"peer_ip", "issuer_common_name", "not_before", "not_after"},
              Nullable(Text))
    @@ Fields({"days_until_expiry"}, Nullable(Number))
    @@ Fields({"expired", "hostname_matches"}, Boolean)
    @@ Fields({"status"}, ToolStatus)
    @@ Part("subject", CertificateNameResult)

TlsConfigurationResponse ==
    Contract("webdiag.tool.tls_configuration_checker.v1")
    @@ Fields({"generated_at", "hostname", "recommendation"}, Text)
    @@ Fields({"port"}, Number)
    @@ Fields({"peer_ip", "tls_version", "cipher_suite", "negotiated_protocol"},
              Nullable(Text))
    @@ Fields({"key_exchange_bits", "certificate_days_until_expiry"}, Nullable(Number))
    @@ Fields({"protocol_status", "status"}, ToolStatus)
    @@ Fields({"certificate_hostname_matches"}, Boolean)

HttpCompressionResponse ==
    PageAnswer("webdiag.tool.http_compression_checker.v1")
    @@ Fields({"content_type", "content_encoding", "vary"}, Nullable(Text))
    @@ Fields({"content_length"}, Nullable(Number))
    @@ Fields({"compressed", "compressible_candidate", "vary_accept_encoding"}, Boolean)
    @@ Fields({"redirect_count"}, Number)
    @@ Fields({"status"}, ToolStatus)

HeaderItemResult ==
    Fields({"name", "value"}, Text)

HttpHeadersAnalyzerResponse ==
    PageAnswer("webdiag.tool.http_headers_analyzer.v1")
    @@ Fields({"header_count", "redirect_count"}, Number)
    @@ Fields({"server_header_present", "powered_by_header_present"}, Boolean)
    @@ Fields({"cache_control", "content_type", "content_encoding", "vary"},
              Nullable(Text))
    @@ Fields({"content_length"}, Nullable(Number))
    @@ Fields({"status"}, ToolStatus)
    @@ ListOf("headers", HeaderItemResult)

HttpProtocolResponse ==
    PageAnswer("webdiag.tool.http_protocol_checker.v1")
    @@ Fields({"scheme"}, Words({"http", "https"}))
    @@ Fields({"tls_version", "negotiated_protocol", "alt_svc"}, Nullable(Text))
    @@ Fields({"http2_supported", "http3_advertised"}, Boolean)
    @@ Fields({"redirect_count"}, Number)
    @@ Fields({"status"}, ToolStatus)

CorsResponse ==
    PageAnswer("webdiag.tool.cors_checker.v1")
    @@ Fields({"tested_origin"}, Text)
    @@ Fields({"allow_origin", "allow_methods", "allow_headers", "expose_headers"},
              Nullable(Text))
    @@ Fields({"allow_credentials", "vary_origin", "allows_tested_origin",
               "wildcard_with_credentials"}, Boolean)
    @@ Fields({"redirect_count"}, Number)
    @@ Fields({"status"}, ToolStatus)

ServerTimingMetricResult ==
    Fields({"name"}, Text)
    @@ Fields({"duration_ms"}, Nullable(Number))
    @@ Fields({"description"}, Nullable(Text))

ServerTimingAnalyzerResponse ==
    PageAnswer("webdiag.tool.server_timing_analyzer.v1")
    @@ Fields({"raw_header"}, Nullable(Text))
    @@ Fields({"server_timing_present"}, Boolean)
    @@ Fields({"metric_count", "redirect_count"}, Number)
    @@ Fields({"status"}, ToolStatus)
    @@ ListOf("metrics", ServerTimingMetricResult)

CookieItemResult ==
    Fields({"name"}, Text)
    @@ Fields({"secure", "http_only", "persistent"}, Boolean)
    @@ Fields({"same_site", "domain", "path"}, Nullable(Text))
    @@ ListsOf({"issues"}, Text)

CookiePolicyResponse ==
    PageAnswer("webdiag.tool.cookie_policy_checker.v1")
    @@ Fields({"set_cookie_count", "secure_count", "http_only_count", "same_site_count",
               "issue_count", "redirect_count"}, Number)
    @@ Fields({"status"}, ToolStatus)
    @@ ListOf("cookies", CookieItemResult)

MixedContentItemResult ==
    Fields({"url", "source"}, Text)
    @@ Fields({"active"}, Boolean)

MixedContentResponse ==
    PageAnswer("webdiag.tool.mixed_content_checker.v1")
    @@ Fields({"page_scheme"}, Words({"http", "https"}))
    @@ Fields({"candidate_count", "mixed_content_count", "active_mixed_content_count",
               "passive_mixed_content_count", "redirect_count"}, Number)
    @@ Fields({"status"}, ToolStatus)
    @@ ListOf("sample_items", MixedContentItemResult)

isSslCertificateResponse ==
    Unread(SslCertificateResponse, {<<"subject", "subject_alt_names">>})

isTlsConfigurationResponse ==
    TlsConfigurationResponse

isHttpCompressionResponse ==
    HttpCompressionResponse

isHttpHeadersAnalyzerResponse ==
    HttpHeadersAnalyzerResponse

isHttpProtocolResponse ==
    HttpProtocolResponse

isCorsResponse ==
    CorsResponse

isServerTimingAnalyzerResponse ==
    ServerTimingAnalyzerResponse

isCookiePolicyResponse ==
    Unread(CookiePolicyResponse, {<<"cookies", "[]", "issues">>})

isMixedContentResponse ==
    MixedContentResponse

-------------------------------------------------------------------------------
\* features/tools/url-management-tool-contract.ts

RedirectMapFindingResult ==
    Fields({"id", "title", "recommendation"}, Text)
    @@ Fields({"severity"}, FindingSeverity)
    @@ Fields({"value"}, Nullable(Text))

RedirectMapEntryResult ==
    Fields({"position", "redirect_count"}, Number)
    @@ Fields({"source_url", "target_url"}, Text)
    @@ Fields({"expected_status_code", "observed_first_status_code"}, Nullable(Number))
    @@ Fields({"normalized_source_url", "normalized_target_url",
               "observed_first_target_url", "final_url"}, Nullable(Text))
    @@ Fields({"fetch_state"}, Words({"ok", "rejected", "failed", "not_checked"}))
    @@ Fields({"target_matches", "status_matches"}, Nullable(Boolean))
    @@ ListsOf({"issues"}, Text)
    @@ Fields({"status"}, ToolStatus)

RedirectMapResponse ==
    Contract("webdiag.tool.redirect_map_validator.v1")
    @@ Fields({"generated_at", "recommendation"}, Text)
    @@ Fields({"scan_mode"}, Words({"explicit_map_bounded_safe_fetch"}))
    @@ Fields({"entry_count", "checked_count", "matched_count", "mismatch_count",
               "failed_count", "duplicate_source_count", "conflicting_source_count",
               "self_redirect_count", "chain_source_count", "cycle_count",
               "issue_count"}, Number)
    @@ Fields({"status"}, ToolStatus)
    @@ ListOf("entries", RedirectMapEntryResult)
    @@ ListOf("findings", RedirectMapFindingResult)

isUrlFinding ==
    RedirectMapFindingResult

isEntry ==
    Fields({"position"}, Positive)
    @@ Fields({"expected_status_code"}, Nullable({"number"} \X (300 .. 399)))
    @@ Fields({"observed_first_status_code"}, Nullable(HttpStatus))
    @@ Fields({"redirect_count"}, Count)
    @@ RedirectMapEntryResult

isRedirectMapResponse ==
    ListOf("entries", isEntry)
    @@ ListOf("findings", isUrlFinding)
    @@ Fields({"entry_count"}, Positive)
    @@ Fields({"checked_count", "matched_count", "mismatch_count", "failed_count",
               "duplicate_source_count", "conflicting_source_count",
               "self_redirect_count", "chain_source_count", "cycle_count",
               "issue_count"}, Count)
    @@ RedirectMapResponse

-------------------------------------------------------------------------------
\* features/tools/redirect-chain-tool.tsx

RedirectHopResult ==
    Fields({"source_url", "target_url"}, Text)
    @@ Fields({"status_code"}, Number)

HttpStatusToolResponse ==
    PageAnswer("webdiag.tool.http_status.v1")
    @@ Fields({"ok"}, Boolean)
    @@ Fields({"redirect_count"}, Number)
    @@ ListOf("redirect_chain", RedirectHopResult)
    @@ Part("headers", Fields({"content_type", "content_length", "cache_control",
                               "server"},
                   Nullable(Text)))

isRedirectRedirectHop ==
    RedirectHopResult

isHttpStatusToolResponse ==
    ListOf("redirect_chain", isRedirectRedirectHop)
    @@ HttpStatusToolResponse

-------------------------------------------------------------------------------
\* features/tools/security-headers-tool.tsx

SecurityHeaderCheckResponse ==
    Fields({"id", "header", "title", "recommendation"}, Text)
    @@ Fields({"value"}, Nullable(Text))
    @@ Fields({"present"}, Boolean)
    @@ Fields({"status"}, ToolStatus)
    @@ Fields({"severity"}, FindingSeverity)

SecurityHeadersResponse ==
    PageAnswer("webdiag.tool.security_headers.v1")
    @@ Fields({"is_https"}, Boolean)
    @@ Fields({"redirect_count", "score", "present_count", "missing_count"}, Number)
    @@ Fields({"risk_level"}, Words({"low", "medium", "high"}))
    @@ ListOf("checks", SecurityHeaderCheckResponse)

isSecurityHeaderCheckResponse ==
    SecurityHeaderCheckResponse

isSecurityHeadersResponse ==
    ListOf("checks", isSecurityHeaderCheckResponse)
    @@ SecurityHeadersResponse
===============================================================================
