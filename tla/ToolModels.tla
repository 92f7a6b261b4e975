------------------------------ MODULE ToolModels ------------------------------
(*****************************************************************************)
(* What the API answers to the tools of the site, those that look at a page  *)
(* and those that look at addresses, hosts, headers and loading times: the   *)
(* response models, each field with the values its type and its bounds       *)
(* allow.                                                                    *)
(*****************************************************************************)
EXTENDS ContractTypes

\* The names of the kinds that several answers of the API use.
ToolStatus      == Words({"pass", "warning", "fail"})
FindingSeverity == Words({"info", "medium", "high"})
AssetFetchState == Words({"ok", "rejected", "failed"})
NameSource      == Words({"aria-label", "aria-labelledby", "label", "text", "alt", "value",
                          "default-value", "title", "none"})
CspPolicySource == Words({"header", "report-only", "meta"})
ScriptHostClassification ==
    Words({"analytics-pattern", "tag-manager-pattern", "advertising-pattern",
           "social-pattern", "cdn-pattern", "other"})
ResourceHintRel ==
    Words({"preconnect", "dns-prefetch", "preload", "prefetch", "modulepreload", "preinit"})
Categories      == {"performance", "accessibility", "best-practices", "seo"}
LighthouseCategory == Words(Categories)
ResourceType    == Words({"document", "image", "script", "style", "font", "video", "other"})

PageAnswer(version) ==
    Contract(version)
    @@ Fields({"generated_at"}, Timestamps)
    @@ Fields({"requested_url", "final_url", "recommendation"}, Texts)
    @@ Fields({"status_code"}, HttpStatuses)

-------------------------------------------------------------------------------
\* tools/accessibility_static.py

AccessibilityFindingResponse ==
    Fields({"id", "title", "recommendation"}, Texts)
    @@ Fields({"severity"}, FindingSeverity)
    @@ Fields({"element", "value"}, Nullable(Texts))
    @@ Fields({"position"}, Nullable(Positives))

LandmarkItemResponse ==
    Fields({"position"}, Positives)
    @@ Fields({"tag"}, Texts)
    @@ Fields({"role", "id_value", "accessible_name"}, Nullable(Texts))
    @@ Fields({"landmark_type"}, Words({"banner", "navigation", "main", "contentinfo",
                                        "complementary", "search", "form", "region"}))
    @@ Fields({"name_source"}, NameSource)
    @@ Fields({"hidden_signal"}, Booleans)
    @@ Fields({"nested_landmark_depth"}, Counts)
    @@ ListsOf({"issues"}, Texts)

LandmarkStructureResponse ==
    PageAnswer("webdiag.tool.landmark_structure_analyzer.v1")
    @@ Fields({"content_type"}, Nullable(Texts))
    @@ Fields({"scan_mode"}, Words({"static_html_bounded"}))
    @@ Fields({"landmark_count", "named_landmark_count", "main_count",
               "navigation_count", "banner_count", "contentinfo_count",
               "complementary_count", "search_count", "form_landmark_count",
               "region_count", "duplicate_role_name_count", "finding_count",
               "redirect_count"}, Counts)
    @@ Fields({"truncated"}, Booleans)
    @@ Fields({"status"}, ToolStatus)
    @@ ListOf("landmarks", LandmarkItemResponse)
    @@ ListOf("findings", AccessibilityFindingResponse)

FormItemResponse ==
    Fields({"position"}, Positives)
    @@ Fields({"id_value", "accessible_name"}, Nullable(Texts))
    @@ Fields({"name_source"}, NameSource)
    @@ Fields({"control_count", "labeled_control_count", "unlabeled_control_count",
               "fieldset_count", "fieldset_without_legend_count"}, Counts)
    @@ ListsOf({"issues"}, Texts)

FormControlItemResponse ==
    Fields({"position"}, Positives)
    @@ Fields({"tag"}, Texts)
    @@ Fields({"input_type", "id_value", "name_attribute", "accessible_name"},
              Nullable(Texts))
    @@ Fields({"form_position"}, Nullable(Positives))
    @@ Fields({"name_source"}, NameSource)
    @@ Fields({"required", "disabled", "placeholder_present"}, Booleans)
    @@ ListsOf({"issues"}, Texts)

FormAccessibilityResponse ==
    PageAnswer("webdiag.tool.form_accessibility_analyzer.v1")
    @@ Fields({"content_type"}, Nullable(Texts))
    @@ Fields({"scan_mode"}, Words({"static_html_bounded"}))
    @@ Fields({"form_count", "control_count", "labeled_control_count",
               "unlabeled_control_count", "placeholder_only_count",
               "button_control_count", "fieldset_count",
               "fieldset_without_legend_count", "broken_label_reference_count",
               "broken_description_reference_count", "ungrouped_choice_set_count",
               "finding_count", "redirect_count"}, Counts)
    @@ Fields({"truncated"}, Booleans)
    @@ Fields({"status"}, ToolStatus)
    @@ ListOf("forms", FormItemResponse)
    @@ ListOf("controls", FormControlItemResponse)
    @@ ListOf("findings", AccessibilityFindingResponse)

InteractiveItemResponse ==
    Fields({"position"}, Positives)
    @@ Fields({"kind"}, Words({"link", "button", "role-link", "role-button"}))
    @@ Fields({"tag"}, Texts)
    @@ Fields({"role", "href", "id_value", "accessible_name"}, Nullable(Texts))
    @@ Fields({"name_source"}, NameSource)
    @@ Fields({"native_element", "hidden_signal", "generic_name"}, Booleans)
    @@ ListsOf({"issues"}, Texts)

InteractiveAccessibleNameResponse ==
    PageAnswer("webdiag.tool.interactive_accessible_name_analyzer.v1")
    @@ Fields({"content_type"}, Nullable(Texts))
    @@ Fields({"scan_mode"}, Words({"static_html_bounded"}))
    @@ Fields({"interactive_count", "link_count", "button_count", "role_link_count",
               "role_button_count", "named_count", "unnamed_count",
               "generic_name_count", "nested_interactive_count",
               "role_without_keyboard_signal_count", "finding_count", "redirect_count"},
              Counts)
    @@ Fields({"truncated"}, Booleans)
    @@ Fields({"status"}, ToolStatus)
    @@ ListOf("items", InteractiveItemResponse)
    @@ ListOf("findings", AccessibilityFindingResponse)

-------------------------------------------------------------------------------
\* tools/asset_delivery.py

AssetFindingResponse ==
    Fields({"id", "title", "recommendation"}, Texts)
    @@ Fields({"severity"}, FindingSeverity)
    @@ Fields({"value"}, Nullable(Texts))

JavaScriptAssetResponse ==
    Fields({"position"}, Positives)
    @@ Fields({"raw_src", "resolved_url"}, Texts)
    @@ Fields({"final_url", "hostname", "content_type", "content_encoding",
               "cache_control"}, Nullable(Texts))
    @@ Fields({"same_host"}, Nullable(Booleans))
    @@ Fields({"script_kind"}, Words({"classic", "module"}))
    @@ Fields({"async_attribute", "defer_attribute", "parser_blocking_candidate",
               "immutable_cache"}, Booleans)
    @@ Fields({"fetch_state"}, AssetFetchState)
    @@ Fields({"status_code"}, Nullable(HttpStatuses))
    @@ Fields({"declared_bytes", "max_age_seconds"}, Nullable(Counts))
    @@ Fields({"redirect_count"}, Counts)
    @@ ListsOf({"issues"}, Texts)

JavaScriptBundleSurfaceResponse ==
    PageAnswer("webdiag.tool.javascript_bundle_surface.v1")
    @@ Fields({"content_type"}, Nullable(Texts))
    @@ Fields({"scan_mode"}, Words({"static_html_bounded_headers"}))
    @@ Fields({"discovered_script_count", "unique_script_count", "checked_script_count",
               "same_host_script_count", "cross_host_script_count",
               "module_script_count", "classic_script_count",
               "parser_blocking_candidate_count", "duplicate_src_count",
               "known_declared_bytes", "unknown_size_count",
               "compressed_response_count", "long_cache_count", "failed_asset_count",
               "issue_count", "redirect_count"}, Counts)
    @@ Fields({"truncated"}, Booleans)
    @@ Fields({"status"}, ToolStatus)
    @@ ListOf("assets", JavaScriptAssetResponse)
    @@ ListOf("findings", AssetFindingResponse)

StylesheetAssetResponse ==
    Fields({"position"}, Positives)
    @@ Fields({"raw_href", "resolved_url"}, Texts)
    @@ Fields({"final_url", "hostname", "media", "content_type", "content_encoding",
               "cache_control"}, Nullable(Texts))
    @@ Fields({"same_host"}, Nullable(Booleans))
    @@ Fields({"default_media_candidate", "alternate", "disabled", "immutable_cache",
               "source_map_comment"}, Booleans)
    @@ Fields({"fetch_state"}, AssetFetchState)
    @@ Fields({"status_code"}, Nullable(HttpStatuses))
    @@ Fields({"declared_bytes", "sampled_decoded_bytes", "max_age_seconds"},
              Nullable(Counts))
    @@ Fields({"import_rule_count", "font_face_rule_count", "redirect_count"}, Counts)
    @@ ListsOf({"issues"}, Texts)

CssDeliveryAnalyzerResponse ==
    PageAnswer("webdiag.tool.css_delivery_analyzer.v1")
    @@ Fields({"content_type"}, Nullable(Texts))
    @@ Fields({"scan_mode"}, Words({"static_html_bounded_css"}))
    @@ Fields({"stylesheet_link_count", "unique_stylesheet_count",
               "checked_stylesheet_count", "inline_style_block_count",
               "inline_style_bytes", "same_host_stylesheet_count",
               "cross_host_stylesheet_count", "default_media_candidate_count",
               "conditional_media_count", "alternate_or_disabled_count",
               "duplicate_href_count", "known_declared_bytes", "sampled_decoded_bytes",
               "compressed_response_count", "import_rule_count", "font_face_rule_count",
               "failed_stylesheet_count", "issue_count", "redirect_count"}, Counts)
    @@ Fields({"truncated"}, Booleans)
    @@ Fields({"status"}, ToolStatus)
    @@ ListOf("stylesheets", StylesheetAssetResponse)
    @@ ListOf("findings", AssetFindingResponse)

FontFaceResponse ==
    Fields({"position"}, Positives)
    @@ Fields({"family", "display"}, Nullable(Texts))
    @@ Fields({"style", "weight", "source_stylesheet_url"}, Texts)
    @@ Fields({"fetchable_source_count", "local_source_count"}, Counts)
    @@ ListsOf({"issues"}, Texts)

FontAssetResponse ==
    Fields({"position"}, Positives)
    @@ Fields({"resolved_url"}, Texts)
    @@ Fields({"final_url", "hostname", "content_type", "content_encoding",
               "cache_control"}, Nullable(Texts))
    @@ Fields({"same_host"}, Nullable(Booleans))
    @@ ListsOf({"families", "format_hints", "issues"}, Texts)
    @@ Fields({"preloaded", "immutable_cache"}, Booleans)
    @@ Fields({"fetch_state"}, AssetFetchState)
    @@ Fields({"status_code"}, Nullable(HttpStatuses))
    @@ Fields({"declared_bytes", "max_age_seconds"}, Nullable(Counts))
    @@ Fields({"redirect_count"}, Counts)

FontPreloadResponse ==
    Fields({"position"}, Positives)
    @@ Fields({"raw_href"}, Texts)
    @@ Fields({"resolved_url", "type_value"}, Nullable(Texts))
    @@ Fields({"crossorigin_present", "matches_discovered_font"}, Booleans)
    @@ ListsOf({"issues"}, Texts)

FontLoadingAnalyzerResponse ==
    PageAnswer("webdiag.tool.font_loading_analyzer.v1")
    @@ Fields({"content_type"}, Nullable(Texts))
    @@ Fields({"scan_mode"}, Words({"static_html_bounded_css"}))
    @@ Fields({"stylesheet_count", "checked_stylesheet_count", "font_face_count",
               "family_count", "font_source_count", "unique_font_source_count",
               "checked_font_source_count", "local_source_count", "preload_count",
               "matched_preload_count", "missing_font_display_count",
               "blocking_font_display_count", "swap_or_optional_count",
               "cross_host_font_count", "woff2_source_count", "duplicate_source_count",
               "known_declared_bytes", "unknown_size_count", "failed_font_count",
               "issue_count", "redirect_count"}, Counts)
    @@ Fields({"truncated"}, Booleans)
    @@ Fields({"status"}, ToolStatus)
    @@ ListOf("faces", FontFaceResponse)
    @@ ListOf("assets", FontAssetResponse)
    @@ ListOf("preloads", FontPreloadResponse)
    @@ ListOf("findings", AssetFindingResponse)

-------------------------------------------------------------------------------
\* tools/canonical.py

CanonicalResponse ==
    PageAnswer("webdiag.tool.canonical.v1")
    @@ Fields({"content_type", "canonical_url", "resolved_canonical_url"},
              Nullable(Texts))
    @@ Fields({"canonical_present", "has_noindex"}, Booleans)
    @@ Fields({"canonical_is_absolute", "canonical_matches_final_url",
               "canonical_host_matches_final_url"}, Nullable(Booleans))
    @@ Fields({"redirect_count"}, Counts)

-------------------------------------------------------------------------------
\* tools/client_delivery.py

CspDirectiveResponse ==
    Fields({"name"}, Texts)
    @@ ListsOf({"values"}, Texts)

CspPolicyResponse ==
    Fields({"source"}, CspPolicySource)
    @@ Fields({"raw"}, Texts)
    @@ Fields({"directive_count", "duplicate_directive_count"}, Counts)
    @@ ListOf("directives", CspDirectiveResponse)

CspFindingResponse ==
    Fields({"id", "title", "recommendation"}, Texts)
    @@ Fields({"severity"}, FindingSeverity)
    @@ Fields({"source"}, Words({"header", "report-only", "meta", "document"}))
    @@ Fields({"directive", "value"}, Nullable(Texts))

CspAnalyzerResponse ==
    PageAnswer("webdiag.tool.csp_analyzer.v1")
    @@ Fields({"content_type"}, Nullable(Texts))
    @@ Fields({"enforced_policy_count", "report_only_policy_count", "meta_policy_count",
               "directive_count", "finding_count", "high_risk_finding_count",
               "redirect_count"}, Counts)
    @@ Fields({"truncated"}, Booleans)
    @@ Fields({"status"}, ToolStatus)
    @@ ListOf("policies", CspPolicyResponse)
    @@ ListOf("findings", CspFindingResponse)

ScriptItemResponse ==
    Fields({"position"}, Positives)
    @@ Fields({"source_kind"}, Words({"inline", "external"}))
    @@ Fields({"raw_src", "resolved_url", "hostname"}, Nullable(Texts))
    @@ Fields({"same_host"}, Nullable(Booleans))
    @@ Fields({"cross_host_candidate", "async_attribute", "defer_attribute", "module",
               "nomodule", "parser_blocking_candidate", "integrity_present",
               "crossorigin_present"}, Booleans)
    @@ Fields({"host_classification"}, Nullable(ScriptHostClassification))
    @@ ListsOf({"issues"}, Texts)

ScriptHostGroupResponse ==
    Fields({"hostname"}, Texts)
    @@ Fields({"count"}, Positives)
    @@ Fields({"classification"}, ScriptHostClassification)

ThirdPartyScriptAnalyzerResponse ==
    PageAnswer("webdiag.tool.third_party_script_analyzer.v1")
    @@ Fields({"content_type"}, Nullable(Texts))
    @@ Fields({"scan_mode"}, Words({"static_html_bounded"}))
    @@ Fields({"classification_basis"}, Words({"hostname"}))
    @@ Fields({"script_count", "inline_script_count", "external_script_count",
               "same_host_script_count", "cross_host_script_count",
               "parser_blocking_candidate_count", "async_count", "defer_count",
               "module_count", "nomodule_count", "integrity_count", "crossorigin_count",
               "duplicate_src_count", "issue_count", "redirect_count"}, Counts)
    @@ Fields({"truncated"}, Booleans)
    @@ Fields({"status"}, ToolStatus)
    @@ ListOf("scripts", ScriptItemResponse)
    @@ ListOf("host_groups", ScriptHostGroupResponse)

ResourceHintItemResponse ==
    Fields({"position"}, Positives)
    @@ Fields({"rel"}, ResourceHintRel)
    @@ Fields({"raw_href", "resolved_url", "hostname", "as_value", "type_value",
               "media", "fetchpriority"}, Nullable(Texts))
    @@ Fields({"same_host"}, Nullable(Booleans))
    @@ Fields({"crossorigin_present"}, Booleans)
    @@ ListsOf({"issues"}, Texts)

ResourceHintFindingResponse ==
    Fields({"id", "title", "recommendation"}, Texts)
    @@ Fields({"severity"}, Words({"info", "medium"}))
    @@ Fields({"rel"}, Nullable(ResourceHintRel))
    @@ Fields({"value"}, Nullable(Texts))

ResourceHintsAnalyzerResponse ==
    PageAnswer("webdiag.tool.resource_hints_analyzer.v1")
    @@ Fields({"content_type"}, Nullable(Texts))
    @@ Fields({"scan_mode"}, Words({"static_html_bounded"}))
    @@ Fields({"hint_count", "preconnect_count", "dns_prefetch_count", "preload_count",
               "prefetch_count", "modulepreload_count", "preinit_count",
               "cross_host_hint_count", "duplicate_hint_count", "finding_count",
               "redirect_count"}, Counts)
    @@ Fields({"truncated"}, Booleans)
    @@ Fields({"status"}, ToolStatus)
    @@ ListOf("hints", ResourceHintItemResponse)
    @@ ListOf("findings", ResourceHintFindingResponse)

-------------------------------------------------------------------------------
\* tools/content_analysis.py

HeadingItemResponse ==
    Fields({"index"}, Positives)
    @@ Fields({"level"}, Ints(1, 6))
    @@ Fields({"text"}, Texts)
    @@ Fields({"empty", "skipped_from_previous"}, Booleans)

HeadingCheckResponse ==
    Fields({"id", "message", "recommendation"}, Texts)
    @@ Fields({"status"}, ToolStatus)
    @@ Fields({"severity"}, FindingSeverity)

HeadingStructureResponse ==
    PageAnswer("webdiag.tool.heading_structure.v1")
    @@ Fields({"scan_mode"}, Words({"static_html_bounded"}))
    @@ Fields({"total_headings", "h1_count", "skipped_level_count",
               "empty_heading_count"}, Counts)
    @@ ListOf("outline", HeadingItemResponse)
    @@ ListOf("checks", HeadingCheckResponse)

TermFrequencyResponse ==
    Fields({"term"}, Texts)
    @@ Fields({"count"}, Positives)
    @@ Fields({"density_percent"}, Floats(0, Many))

KeywordFrequencyResponse ==
    PageAnswer("webdiag.tool.keyword_frequency.v1")
    @@ Fields({"scan_mode"}, Words({"static_html_bounded"}))
    @@ Fields({"total_words", "unique_terms"}, Counts)
    @@ ListOf("top_words", TermFrequencyResponse)
    @@ ListOf("top_bigrams", TermFrequencyResponse)
    @@ ListOf("top_trigrams", TermFrequencyResponse)
    @@ ListOf("overused_terms", TermFrequencyResponse)

ReadabilityMetricResponse ==
    Fields({"name", "unit"}, Texts)
    @@ Fields({"value"}, Floats(0, Many))

ReadabilityResponse ==
    PageAnswer("webdiag.tool.readability.v1")
    @@ Fields({"scan_mode"}, Words({"static_html_bounded"}))
    @@ Fields({"formula_scope"}, Words({"multilingual_heuristic"}))
    @@ Fields({"word_count", "sentence_count", "paragraph_count",
               "long_sentence_count"},
              Counts)
    @@ Fields({"estimated_reading_time_minutes"}, Positives)
    @@ Fields({"readability_score"}, Ints(0, 100))
    @@ ListOf("metrics", ReadabilityMetricResponse)

-------------------------------------------------------------------------------
\* tools/image_audit.py

ImageFormatSummaryResponse ==
    Fields({"format"}, Texts)
    @@ Fields({"count", "known_bytes", "unknown_size_count"}, Counts)

ImagePerformanceItemResponse ==
    Fields({"url", "format"}, Texts)
    @@ Fields({"source"}, Words({"img-src", "img-srcset", "picture-source",
                                 "social-image"}))
    @@ Fields({"status_code"}, Nullable(HttpStatuses))
    @@ Fields({"content_type", "width_attr", "height_attr", "loading"}, Nullable(Texts))
    @@ Fields({"content_length"}, Nullable(Counts))
    @@ Fields({"uses_srcset", "uses_picture", "oversized"}, Booleans)
    @@ Fields({"modern_raster_format"}, Nullable(Booleans))
    @@ ListsOf({"recommendations"}, Texts)

ImagePerformanceResponse ==
    PageAnswer("webdiag.tool.image_performance.v1")
    @@ Fields({"scan_mode"}, Words({"static_html_bounded"}))
    @@ Fields({"discovered_image_count", "checked_image_count",
               "total_known_image_bytes", "unknown_size_count", "modern_raster_count",
               "legacy_raster_count", "svg_count", "oversized_count",
               "missing_dimensions_count", "lazy_loading_candidate_count",
               "responsive_markup_count"}, Counts)
    @@ ListOf("format_summaries", ImageFormatSummaryResponse)
    @@ ListOf("largest_images", ImagePerformanceItemResponse)

ImageSeoCheckResponse ==
    Fields({"id", "title", "recommendation"}, Texts)
    @@ Fields({"status"}, ToolStatus)
    @@ Fields({"severity"}, FindingSeverity)
    @@ Fields({"value"}, Nullable(Texts))

ImageSeoItemResponse ==
    Fields({"url"}, Texts)
    @@ Fields({"alt_status"}, Words({"missing", "empty", "decorative", "present"}))
    @@ Fields({"alt_text", "loading"}, Nullable(Texts))
    @@ Fields({"in_link", "has_dimensions", "uses_srcset", "uses_picture"}, Booleans)

ImageSeoResponse ==
    PageAnswer("webdiag.tool.image_seo.v1")
    @@ Fields({"total_images", "missing_alt_count", "empty_alt_count",
               "decorative_count", "linked_images_without_alt_count",
               "missing_dimensions_count", "responsive_image_count",
               "lazy_loading_count"}, Counts)
    @@ Fields({"og_image_url", "twitter_image_url"}, Nullable(Texts))
    @@ ListOf("checks", ImageSeoCheckResponse)
    @@ ListOf("sample_images", ImageSeoItemResponse)

FaviconIconResponse ==
    Fields({"rel", "url", "format"}, Texts)
    @@ Fields({"sizes", "declared_type", "content_type", "recommendation"},
              Nullable(Texts))
    @@ Fields({"status_code"}, Nullable(HttpStatuses))
    @@ Fields({"content_length"}, Nullable(Counts))

FaviconResponse ==
    PageAnswer("webdiag.tool.favicon.v1")
    @@ Fields({"discovered_icon_count", "checked_icon_count"}, Counts)
    @@ Fields({"has_favicon", "has_svg_icon", "has_apple_touch_icon", "has_manifest",
               "fallback_ico_checked"}, Booleans)
    @@ Fields({"manifest_url"}, Nullable(Texts))
    @@ ListOf("icons", FaviconIconResponse)

-------------------------------------------------------------------------------
\* tools/link_health.py

LinkItemResponse ==
    Fields({"url"}, Texts)
    @@ Fields({"text", "rel", "target"}, Nullable(Texts))
    @@ Fields({"kind"}, Words({"internal", "external", "same-page", "mailto", "tel",
                               "non-http"}))
    @@ Fields({"nofollow", "sponsored", "ugc", "target_blank_missing_noopener"}, Booleans)

LinkAnalyzerResponse ==
    PageAnswer("webdiag.tool.link_analyzer.v1")
    @@ Fields({"scan_mode"}, Words({"static_html_bounded"}))
    @@ Fields({"total_links", "unique_http_links", "internal_count", "external_count",
               "same_page_count", "mailto_tel_count", "non_http_count",
               "nofollow_count", "sponsored_count", "ugc_count",
               "target_blank_missing_noopener_count"}, Counts)
    @@ ListOf("sample_links", LinkItemResponse)

BrokenLinkItemResponse ==
    Fields({"url"}, Texts)
    @@ Fields({"text", "final_url", "problem"}, Nullable(Texts))
    @@ Fields({"kind"}, Words({"internal", "external"}))
    @@ Fields({"status_code"}, Nullable(HttpStatuses))
    @@ Fields({"redirect_hops"}, Counts)
    @@ Fields({"broken"}, Booleans)

BrokenLinkCheckerResponse ==
    PageAnswer("webdiag.tool.broken_link_checker.v1")
    @@ Fields({"scan_mode"}, Words({"static_html_bounded"}))
    @@ Fields({"discovered_link_count", "checked_link_count", "broken_link_count",
               "redirecting_link_count", "skipped_non_http_count"}, Counts)
    @@ ListOf("items", BrokenLinkItemResponse)

BrokenImageItemResponse ==
    Fields({"url"}, Texts)
    @@ Fields({"source"}, Words({"img-src", "img-srcset", "picture-source",
                                 "social-image"}))
    @@ Fields({"status_code"}, Nullable(HttpStatuses))
    @@ Fields({"final_url", "content_type", "problem"}, Nullable(Texts))
    @@ Fields({"redirect_hops"}, Counts)
    @@ Fields({"broken"}, Booleans)

BrokenImageCheckerResponse ==
    PageAnswer("webdiag.tool.broken_image_checker.v1")
    @@ Fields({"scan_mode"}, Words({"static_html_bounded"}))
    @@ Fields({"discovered_image_count", "checked_image_count", "broken_image_count",
               "redirecting_image_count"}, Counts)
    @@ ListOf("items", BrokenImageItemResponse)

-------------------------------------------------------------------------------
\* tools/markup.py

StructuredDataBlockResponse ==
    Fields({"index"}, Positives)
    @@ Fields({"valid"}, Booleans)
    @@ ListsOf({"types"}, Texts)
    @@ Fields({"node_count"}, Counts)
    @@ Fields({"error"}, Nullable(Texts))

StructuredDataTypeSummaryResponse ==
    Fields({"type"}, Texts)
    @@ Fields({"count"}, Positives)

StructuredDataValidatorResponse ==
    PageAnswer("webdiag.tool.structured_data.v1")
    @@ Fields({"json_ld_count", "valid_json_ld_count", "invalid_json_ld_count"}, Counts)
    @@ ListOf("detected_types", StructuredDataTypeSummaryResponse)
    @@ ListOf("blocks", StructuredDataBlockResponse)

HtmlMarkupCheckResponse ==
    Fields({"id", "title", "message", "recommendation"}, Texts)
    @@ Fields({"status"}, ToolStatus)
    @@ Fields({"severity"}, FindingSeverity)

HtmlMarkupValidatorResponse ==
    PageAnswer("webdiag.tool.html_markup.v1")
    @@ Fields({"content_type", "html_lang", "title"}, Nullable(Texts))
    @@ Fields({"doctype_present", "html_tag_present", "head_tag_present",
               "body_tag_present", "viewport_present"}, Booleans)
    @@ Fields({"duplicate_id_count", "unexpected_end_tag_count", "unclosed_tag_count"},
              Counts)
    @@ ListOf("checks", HtmlMarkupCheckResponse)

-------------------------------------------------------------------------------
\* tools/page_metadata.py

MetadataSignalResponse ==
    Fields({"name", "content"}, Texts)

MetadataCheckResponse ==
    Fields({"id", "title", "recommendation"}, Texts)
    @@ Fields({"status"}, ToolStatus)
    @@ Fields({"severity"}, FindingSeverity)
    @@ Fields({"value"}, Nullable(Texts))

MetaTagsResponse ==
    PageAnswer("webdiag.tool.meta_tags.v1")
    @@ Fields({"content_type", "title", "meta_description", "canonical_url",
               "resolved_canonical_url"}, Nullable(Texts))
    @@ Fields({"title_length", "meta_description_length", "h1_count",
               "open_graph_count", "twitter_card_count", "json_ld_count"}, Counts)
    @@ ListOf("robots_directives", MetadataSignalResponse)
    @@ ListOf("checks", MetadataCheckResponse)

SerpPreviewCheckResponse ==
    Fields({"id", "message"}, Texts)
    @@ Fields({"status"}, ToolStatus)

SerpPreviewResponse ==
    PageAnswer("webdiag.tool.serp_preview.v1")
    @@ Fields({"display_url", "preview_title", "preview_description"}, Texts)
    @@ Fields({"title_source"}, Words({"title", "fallback"}))
    @@ Fields({"description_source"}, Words({"meta_description", "fallback"}))
    @@ Fields({"title_length", "description_length"}, Counts)
    @@ ListOf("checks", SerpPreviewCheckResponse)

SocialCardPreviewResponse ==
    Fields({"title", "description", "image", "url", "card_type", "site_name"},
           Nullable(Texts))
    @@ ListsOf({"missing_fields"}, Texts)
    @@ Fields({"complete"}, Booleans)

SocialPreviewResponse ==
    PageAnswer("webdiag.tool.social_preview.v1")
    @@ Fields({"fallback_title", "fallback_description"}, Nullable(Texts))
    @@ Part("open_graph", SocialCardPreviewResponse)
    @@ Part("twitter", SocialCardPreviewResponse)

-------------------------------------------------------------------------------
\* tools/robots_txt.py

RobotsTxtRuleResponse ==
    Fields({"user_agent", "value"}, Texts)
    @@ Fields({"directive"}, Words({"allow", "disallow"}))

RobotsTxtSitemapResponse ==
    Fields({"url"}, Texts)

RobotsTxtToolResponse ==
    Contract("webdiag.tool.robots_txt.v1")
    @@ Fields({"generated_at"}, Timestamps)
    @@ Fields({"requested_url", "target_url", "target_path", "robots_url", "user_agent",
               "recommendation"}, Texts)
    @@ Fields({"status_code"}, Nullable(HttpStatuses))
    @@ Fields({"available"}, Booleans)
    @@ Fields({"allows_target"}, Nullable(Booleans))
    @@ Fields({"matched_allow_rule", "matched_disallow_rule"}, Nullable(Texts))
    @@ Fields({"disallow_count", "sitemap_count"}, Counts)
    @@ ListOf("disallow_rules", RobotsTxtRuleResponse)
    @@ ListOf("sitemap_urls", RobotsTxtSitemapResponse)

-------------------------------------------------------------------------------
\* tools/sitemap_xml.py

SitemapLocResponse ==
    Fields({"url"}, Texts)

SitemapXmlToolResponse ==
    Contract("webdiag.tool.sitemap_xml.v1")
    @@ Fields({"generated_at"}, Timestamps)
    @@ Fields({"requested_url", "sitemap_url", "recommendation"}, Texts)
    @@ Fields({"target_url", "content_type", "parse_error", "fetch_error"},
              Nullable(Texts))
    @@ Fields({"status_code"}, Nullable(HttpStatuses))
    @@ Fields({"available", "valid_xml"}, Booleans)
    @@ Fields({"kind"}, Words({"urlset", "sitemapindex", "unknown"}))
    @@ Fields({"url_count", "sitemap_count"}, Counts)
    @@ Fields({"contains_target"}, Nullable(Booleans))
    @@ ListOf("sample_urls", SitemapLocResponse)
    @@ ListOf("sample_sitemaps", SitemapLocResponse)

-------------------------------------------------------------------------------
\* tools/technical_seo.py

IndexabilitySignalResponse ==
    Fields({"id", "message"}, Texts)
    @@ Fields({"status"}, ToolStatus)

IndexabilityResponse ==
    PageAnswer("webdiag.tool.indexability.v1")
    @@ Fields({"scan_mode"}, Words({"static_html_bounded"}))
    @@ Fields({"redirect_count"}, Counts)
    @@ Fields({"robots_txt_allowed", "canonical_matches_final_url"}, Nullable(Booleans))
    @@ Fields({"robots_txt_status_code"}, Nullable(HttpStatuses))
    @@ Fields({"meta_robots_noindex", "meta_robots_nofollow", "x_robots_tag_noindex",
               "x_robots_tag_nofollow", "indexable_candidate"}, Booleans)
    @@ Fields({"canonical_url", "resolved_canonical_url"}, Nullable(Texts))
    @@ ListOf("signals", IndexabilitySignalResponse)

HreflangAlternateResponse ==
    Fields({"hreflang", "href", "resolved_href"}, Texts)
    @@ Fields({"valid_language_tag", "self_reference"}, Booleans)

HreflangResponse ==
    PageAnswer("webdiag.tool.hreflang.v1")
    @@ Fields({"scan_mode"}, Words({"static_html_bounded"}))
    @@ Fields({"html_lang"}, Nullable(Texts))
    @@ Fields({"total_alternates", "valid_alternate_count", "invalid_alternate_count",
               "duplicate_hreflang_count"}, Counts)
    @@ Fields({"has_x_default", "has_self_reference"}, Booleans)
    @@ ListOf("alternates", HreflangAlternateResponse)

TechnologySignalResponse ==
    Fields({"name", "evidence"}, Texts)
    @@ Fields({"category"}, Words({"cms", "framework", "analytics", "cdn", "server",
                                   "hosting", "library"}))
    @@ Fields({"confidence"}, Words({"high", "medium", "low"}))

TechnologyDetectorResponse ==
    PageAnswer("webdiag.tool.technology_detector.v1")
    @@ Fields({"scan_mode"}, Words({"static_html_bounded"}))
    @@ Fields({"detected_count"}, Counts)
    @@ Fields({"server_header", "powered_by_header", "generator_meta"}, Nullable(Texts))
    @@ ListOf("technologies", TechnologySignalResponse)
-------------------------------------------------------------------------------
\* tools/http_status.py

HttpRedirectHopResponse ==
    Fields({"source_url", "target_url"}, Texts)
    @@ Fields({"status_code"}, HttpStatuses)

HttpStatusHeaderSummary ==
    Fields({"content_type", "content_length", "cache_control", "server"}, Nullable(Texts))

HttpStatusResponse ==
    PageAnswer("webdiag.tool.http_status.v1")
    @@ Fields({"ok"}, Booleans)
    @@ Fields({"redirect_count"}, {SizeOf("redirect_chain")})
    @@ ListOf("redirect_chain", HttpRedirectHopResponse)
    @@ Part("headers", HttpStatusHeaderSummary)

BulkHttpStatusError ==
    Fields({"code"}, Words({"tool_url_rejected", "tool_fetch_failed",
                            "tool_batch_deadline_exceeded"}))
    @@ Fields({"message"}, Texts)

BulkHttpStatusItem(status) ==
    Fields({"index"}, {PlaceIn("items")})
    @@ Fields({"requested_url"}, Texts)
    @@ Fields({"status"}, Words({status}))
    @@ (IF status = "succeeded"
        THEN Part("result", HttpStatusResponse) @@ Fields({"error"}, {Null})
        ELSE Fields({"result"}, {Null}) @@ Part("error", BulkHttpStatusError))

BulkHttpStatusResponse(status) ==
    Contract("webdiag.tool.bulk_http_status.v1")
    @@ Fields({"generated_at"}, Timestamps)
    @@ Fields({"total"}, {SizeOf("items")})
    @@ Fields({"succeeded"}, {Those("items", "succeeded")})
    @@ Fields({"failed"}, {Those("items", "failed")})
    @@ Fields({"items"}, Sizes(1, 50))
    @@ ListOf("items", BulkHttpStatusItem(status))

-------------------------------------------------------------------------------
\* tools/network_dns.py

DnsRecordResponse ==
    Fields({"record_type"}, Words({"A", "AAAA", "CNAME", "MX", "NS", "TXT", "DS",
                                   "DNSKEY"}))
    @@ Fields({"name", "value"}, Texts)
    @@ Fields({"ttl"}, Counts)
    @@ Fields({"priority"}, Nullable(Ints(0, 65535)))

DnsQueryErrorResponse ==
    Fields({"record_type"}, Words({"A", "AAAA", "CNAME", "MX", "NS", "TXT", "DS",
                                   "DNSKEY"}))
    @@ Fields({"code", "message"}, Texts)

DnsLookupResponse ==
    Contract("webdiag.tool.dns_lookup.v1")
    @@ Fields({"generated_at"}, Timestamps)
    @@ Fields({"domain", "recommendation"}, Texts)
    @@ ListsOf({"checked_record_types"},
               Words({"A", "AAAA", "CNAME", "MX", "NS", "TXT", "DS", "DNSKEY"}))
    @@ Fields({"record_count"}, Counts)
    @@ ListOf("records", DnsRecordResponse)
    @@ ListOf("errors", DnsQueryErrorResponse)

MxHostResponse ==
    Fields({"host"}, Texts)
    @@ Fields({"priority"}, Ints(0, 65535))
    @@ Fields({"address_count"}, Counts)
    @@ ListsOf({"addresses"}, Texts)
    @@ Fields({"reachable_dns"}, Booleans)

MxCheckerResponse ==
    Contract("webdiag.tool.mx_record_checker.v1")
    @@ Fields({"generated_at"}, Timestamps)
    @@ Fields({"domain", "recommendation"}, Texts)
    @@ Fields({"mx_count"}, Counts)
    @@ Fields({"has_null_mx"}, Booleans)
    @@ Fields({"status"}, ToolStatus)
    @@ ListOf("hosts", MxHostResponse)

SpfMechanismResponse ==
    Fields({"value", "name"}, Texts)
    @@ Fields({"qualifier"}, Words({"+", "-", "~", "?"}))

SpfCheckerResponse ==
    Contract("webdiag.tool.spf_checker.v1")
    @@ Fields({"generated_at"}, Timestamps)
    @@ Fields({"domain", "recommendation"}, Texts)
    @@ Fields({"spf_record_count", "estimated_dns_lookup_mechanisms"}, Counts)
    @@ Fields({"spf_record", "all_mechanism"}, Nullable(Texts))
    @@ Fields({"has_all_mechanism", "uses_include", "uses_redirect"}, Booleans)
    @@ Fields({"status"}, ToolStatus)
    @@ ListOf("mechanisms", SpfMechanismResponse)

MailPolicyTagResponse ==
    Fields({"name", "value"}, Texts)

DkimCheckerResponse ==
    Contract("webdiag.tool.dkim_checker.v1")
    @@ Fields({"generated_at"}, Timestamps)
    @@ Fields({"domain", "selector", "record_name", "recommendation"}, Texts)
    @@ Fields({"dkim_record_count", "public_key_length"}, Counts)
    @@ Fields({"dkim_record", "key_type"}, Nullable(Texts))
    @@ Fields({"has_public_key"}, Booleans)
    @@ Fields({"status"}, ToolStatus)
    @@ ListOf("tags", MailPolicyTagResponse)

DmarcCheckerResponse ==
    Contract("webdiag.tool.dmarc_checker.v1")
    @@ Fields({"generated_at"}, Timestamps)
    @@ Fields({"domain", "record_name", "recommendation"}, Texts)
    @@ Fields({"dmarc_record_count"}, Counts)
    @@ Fields({"dmarc_record", "policy", "subdomain_policy", "alignment_dkim",
               "alignment_spf"}, Nullable(Texts))
    @@ Fields({"percentage"}, Nullable(Ints(0, 100)))
    @@ Fields({"has_rua", "has_ruf"}, Booleans)
    @@ Fields({"status"}, ToolStatus)
    @@ ListOf("tags", MailPolicyTagResponse)

DnssecCheckerResponse ==
    Contract("webdiag.tool.dnssec_checker.v1")
    @@ Fields({"generated_at"}, Timestamps)
    @@ Fields({"domain", "recommendation"}, Texts)
    @@ Fields({"ds_record_count", "dnskey_record_count"}, Counts)
    @@ Fields({"delegation_signed", "zone_dnskey_present"}, Booleans)
    @@ ListsOf({"algorithms"}, Texts)
    @@ Fields({"status"}, ToolStatus)
    @@ ListOf("ds_records", DnsRecordResponse)
    @@ ListOf("dnskey_records", DnsRecordResponse)

-------------------------------------------------------------------------------
\* tools/network_intelligence.py

ResolverAnswerResponse ==
    Fields({"value"}, Texts)
    @@ Fields({"ttl"}, Counts)
    @@ Fields({"priority"}, Nullable(Ints(0, 65535)))

ResolverSnapshotResponse ==
    Fields({"resolver_id", "resolver_name", "nameserver"}, Texts)
    @@ Fields({"status"}, Words({"ok", "error"}))
    @@ Fields({"elapsed_ms", "answer_count"}, Counts)
    @@ Fields({"error"}, Nullable(Texts))
    @@ ListOf("answers", ResolverAnswerResponse)

DnsResolverComparisonResponse ==
    Contract("webdiag.tool.dns_resolver_comparison.v1")
    @@ Fields({"generated_at"}, Timestamps)
    @@ Fields({"domain", "recommendation"}, Texts)
    @@ Fields({"record_type"}, Words({"A", "AAAA", "CNAME", "MX", "NS", "TXT"}))
    @@ Fields({"resolver_count"}, Positives)
    @@ Fields({"successful_resolver_count", "distinct_answer_set_count"}, Counts)
    @@ Fields({"consistent"}, Booleans)
    @@ Fields({"timing_scope"}, Words({"backend_to_resolver"}))
    @@ Fields({"status"}, ToolStatus)
    @@ ListOf("snapshots", ResolverSnapshotResponse)

RdapEventResponse ==
    Fields({"action"}, Words({"registration", "expiration", "last changed",
                              "last update of RDAP database", "transfer",
                              "reinstantiation", "other"}))
    @@ Fields({"raw_action", "date"}, Texts)

RdapNameserverResponse ==
    Fields({"ldh_name", "unicode_name"}, Nullable(Texts))
    @@ ListsOf({"statuses"}, Texts)

DomainRdapResponse ==
    Contract("webdiag.tool.domain_rdap_lookup.v1")
    @@ Fields({"generated_at"}, Timestamps)
    @@ Fields({"domain", "recommendation"}, Texts)
    @@ Fields({"found"}, Booleans)
    @@ Fields({"bootstrap_source"}, Words({"iana_rdap_dns_bootstrap"}))
    @@ Fields({"rdap_url", "handle", "ldh_name", "unicode_name", "registrar_name",
               "abuse_email"}, Nullable(Texts))
    @@ ListsOf({"statuses", "notice_titles"}, Texts)
    @@ Fields({"delegation_signed"}, Nullable(Booleans))
    @@ Fields({"status"}, ToolStatus)
    @@ ListOf("events", RdapEventResponse)
    @@ ListOf("nameservers", RdapNameserverResponse)

IpRdapCidrResponse ==
    Fields({"version"}, Words({"v4", "v6"}))
    @@ Fields({"prefix"}, Texts)
    @@ Fields({"length"}, Ints(0, 128))

IpRdapResponse ==
    Contract("webdiag.tool.ip_rdap_lookup.v1")
    @@ Fields({"generated_at"}, Timestamps)
    @@ Fields({"ip", "recommendation"}, Texts)
    @@ Fields({"found"}, Booleans)
    @@ Fields({"bootstrap_source"}, Words({"iana_rdap_ip_bootstrap"}))
    @@ Fields({"country_semantics"}, Words({"registration_data_not_geolocation"}))
    @@ Fields({"rdap_url", "handle", "start_address", "end_address", "ip_version",
               "name", "network_type", "country", "parent_handle", "abuse_email"},
              Nullable(Texts))
    @@ ListsOf({"statuses"}, Texts)
    @@ Fields({"status"}, ToolStatus)
    @@ ListOf("events", RdapEventResponse)
    @@ ListOf("cidrs", IpRdapCidrResponse)

-------------------------------------------------------------------------------
\* tools/performance.py

PageSpeedMetricResponse ==
    Fields({"id", "title"}, Texts)
    @@ Fields({"value"}, Nullable(Floats(-Many, Many)))
    @@ Fields({"unit"}, Words({"ms", "score", "ratio", "category"}))
    @@ Fields({"display_value"}, Nullable(Texts))
    @@ Fields({"source"}, Words({"lab", "field"}))
    @@ Fields({"status"}, Words({"pass", "warning", "fail", "unavailable"}))

PageSpeedOpportunityResponse ==
    Fields({"id", "title"}, Texts)
    @@ Fields({"display_value"}, Nullable(Texts))
    @@ Fields({"savings_ms"}, Nullable(Floats(0, Many)))
    @@ Fields({"score"}, Nullable(Floats(0, 1)))

LighthouseAuditFindingResponse ==
    Fields({"id", "title", "score_display_mode"}, Texts)
    @@ Fields({"category"}, LighthouseCategory)
    @@ Fields({"score"}, {<<"number", 0>>, <<"between", 0>>})
    @@ Fields({"display_value"}, Nullable(Texts))
    @@ Fields({"weight"}, Floats(0, Many))

PageSpeedStrategyResponse ==
    Fields({"strategy"}, Words({"mobile", "desktop"}))
    @@ Fields({"available", "field_data_available"}, Booleans)
    @@ Fields({"performance_score"}, Nullable(Ints(0, 100)))
    @@ Fields({"field_overall_category", "lighthouse_version", "analysis_fetch_time",
               "fetch_error"}, Nullable(Texts))
    @@ Part("category_scores", Fields(Categories, Nullable(Ints(0, 100))))
    @@ Fields({"audit_findings"}, Sizes(0, 20))
    @@ ListOf("audit_findings", LighthouseAuditFindingResponse)
    @@ ListOf("metrics", PageSpeedMetricResponse)
    @@ ListOf("opportunities", PageSpeedOpportunityResponse)

PageSpeedResponse ==
    Contract("webdiag.tool.core_web_vitals.v2")
    @@ Fields({"generated_at"}, Timestamps)
    @@ Fields({"recommendation"}, Texts)
    @@ Fields({"strategy"}, Words({"mobile", "desktop", "both"}))
    @@ ListOf("results", PageSpeedStrategyResponse)
    @@ Fields({"requested_url", "normalized_url"},
              RedactedUrls \cup {<<"format", "URL with query">>})

CachePolicyCheckResponse ==
    Fields({"id", "title", "recommendation"}, Texts)
    @@ Fields({"status"}, ToolStatus)
    @@ Fields({"severity"}, FindingSeverity)
    @@ Fields({"value"}, Nullable(Texts))

CachePolicyResponse ==
    PageAnswer("webdiag.tool.cache_policy.v1")
    @@ Fields({"content_type", "cache_control", "etag", "last_modified", "expires",
               "vary"}, Nullable(Texts))
    @@ Fields({"is_static_asset"}, Booleans)
    @@ Fields({"score"}, Ints(0, 100))
    @@ ListOf("checks", CachePolicyCheckResponse)

ResourceSummaryResponse ==
    Fields({"type"}, ResourceType)
    @@ Fields({"count", "known_bytes", "unknown_size_count"}, Counts)

PageResourceResponse ==
    Fields({"url"}, Texts)
    @@ Fields({"type"}, ResourceType)
    @@ Fields({"status_code"}, Nullable(HttpStatuses))
    @@ Fields({"content_type", "recommendation"}, Nullable(Texts))
    @@ Fields({"content_length"}, Nullable(Counts))
    @@ Fields({"modern_image_format"}, Nullable(Booleans))

PageWeightResponse ==
    PageAnswer("webdiag.tool.page_weight.v1")
    @@ Fields({"scan_mode"}, Words({"static_html_bounded"}))
    @@ Fields({"html_bytes", "discovered_resource_count", "checked_resource_count",
               "total_known_bytes", "unknown_size_count", "image_count",
               "legacy_image_count", "modern_image_count"}, Counts)
    @@ ListOf("summaries", ResourceSummaryResponse)
    @@ ListOf("largest_resources", PageResourceResponse)

LighthouseNetworkResourceResponse ==
    Fields({"url"}, RedactedUrls)
    @@ Fields({"resource_type"}, Texts)
    @@ Fields({"protocol", "mime_type"}, Nullable(Texts))
    @@ Fields({"start_ms", "duration_ms"}, Floats(0, Many))
    @@ Fields({"transfer_bytes", "resource_bytes"}, Nullable(Counts))
    @@ Fields({"status_code"}, Nullable(HttpStatuses))
    @@ Fields({"end_ms"}, {NoLessThan("start_ms")})

LighthouseRenderBlockingItemResponse ==
    Fields({"url"}, RedactedUrls)
    @@ Fields({"total_bytes", "wasted_bytes"}, Nullable(Counts))
    @@ Fields({"wasted_ms"}, Nullable(Floats(0, Many)))

LighthouseNetworkResponse(resources, blocking) ==
    Contract("webdiag.tool.lighthouse_network.v1")
    @@ Fields({"generated_at"}, Timestamps)
    @@ Fields({"recommendation"}, Texts)
    @@ Fields({"strategy"}, Words({"mobile", "desktop"}))
    @@ Fields({"available"}, Booleans)
    @@ Fields({"lighthouse_version", "analysis_fetch_time", "fetch_error",
               "render_blocking_display_value"}, Nullable(Texts))
    @@ Fields({"request_count"}, Ints(0, 1000))
    @@ Fields({"total_transfer_bytes", "total_resource_bytes"}, Nullable(Counts))
    @@ Fields({"render_blocking_score"}, Nullable(Floats(0, 1)))
    @@ Fields({"render_blocking_savings_ms"}, Nullable(Floats(0, Many)))
    @@ Fields({"resources"}, Sizes(0, IF resources THEN 40 ELSE 0))
    @@ Fields({"render_blocking_items"}, Sizes(0, IF blocking THEN 20 ELSE 0))
    @@ ListOf("resources", LighthouseNetworkResourceResponse)
    @@ ListOf("render_blocking_items", LighthouseRenderBlockingItemResponse)
    @@ Fields({"requested_url", "normalized_url"}, RedactedUrls)
    @@ Fields({"resources_available"}, {"boolean"} \X {resources})
    @@ Fields({"render_blocking_available"}, {"boolean"} \X {blocking})
    @@ Fields({"returned_request_count"}, {SizeOf("resources")})

-------------------------------------------------------------------------------
\* tools/protocol_security.py

CertificateNameResponse ==
    Fields({"common_name"}, Nullable(Texts))
    @@ ListsOf({"subject_alt_names"}, Texts)

SslCertificateResponse ==
    Contract("webdiag.tool.ssl_certificate_checker.v1")
    @@ Fields({"generated_at"}, Timestamps)
    @@ Fields({"hostname", "recommendation"}, Texts)
    @@ Fields({"port"}, Ints(1, 65535))
    @@ Fields({"peer_ip", "issuer_common_name"}, Nullable(Texts))
    @@ Fields({"not_before", "not_after"}, Nullable(Timestamps))
    @@ Fields({"days_until_expiry"}, Nullable(Ints(-Many, Many)))
    @@ Fields({"expired", "hostname_matches"}, Booleans)
    @@ Fields({"san_count"}, Counts)
    @@ Fields({"status"}, ToolStatus)
    @@ Part("subject", CertificateNameResponse)

TlsConfigurationResponse ==
    Contract("webdiag.tool.tls_configuration_checker.v1")
    @@ Fields({"generated_at"}, Timestamps)
    @@ Fields({"hostname", "recommendation"}, Texts)
    @@ Fields({"port"}, Ints(1, 65535))
    @@ Fields({"peer_ip", "tls_version", "cipher_suite", "negotiated_protocol"},
              Nullable(Texts))
    @@ Fields({"key_exchange_bits"}, Nullable(Counts))
    @@ Fields({"protocol_status", "status"}, ToolStatus)
    @@ Fields({"certificate_hostname_matches"}, Booleans)
    @@ Fields({"certificate_days_until_expiry"}, Nullable(Ints(-Many, Many)))

HttpCompressionResponse ==
    PageAnswer("webdiag.tool.http_compression_checker.v1")
    @@ Fields({"content_type", "content_encoding", "vary"}, Nullable(Texts))
    @@ Fields({"content_length"}, Nullable(Counts))
    @@ Fields({"compressed", "compressible_candidate", "vary_accept_encoding"}, Booleans)
    @@ Fields({"redirect_count"}, Counts)
    @@ Fields({"status"}, ToolStatus)

HeaderItemResponse ==
    Fields({"name", "value"}, Texts)

HttpHeadersAnalyzerResponse ==
    PageAnswer("webdiag.tool.http_headers_analyzer.v1")
    @@ Fields({"header_count", "redirect_count"}, Counts)
    @@ Fields({"server_header_present", "powered_by_header_present"}, Booleans)
    @@ Fields({"cache_control", "content_type", "content_encoding", "vary"},
              Nullable(Texts))
    @@ Fields({"content_length"}, Nullable(Counts))
    @@ Fields({"status"}, ToolStatus)
    @@ ListOf("headers", HeaderItemResponse)

HttpProtocolResponse ==
    PageAnswer("webdiag.tool.http_protocol_checker.v1")
    @@ Fields({"scheme"}, Words({"http", "https"}))
    @@ Fields({"tls_version", "negotiated_protocol", "alt_svc"}, Nullable(Texts))
    @@ Fields({"http2_supported", "http3_advertised"}, Booleans)
    @@ Fields({"redirect_count"}, Counts)
    @@ Fields({"status"}, ToolStatus)

CorsResponse ==
    PageAnswer("webdiag.tool.cors_checker.v1")
    @@ Fields({"tested_origin"}, Texts)
    @@ Fields({"allow_origin", "allow_methods", "allow_headers", "expose_headers"},
              Nullable(Texts))
    @@ Fields({"allow_credentials", "vary_origin", "allows_tested_origin",
               "wildcard_with_credentials"}, Booleans)
    @@ Fields({"redirect_count"}, Counts)
    @@ Fields({"status"}, ToolStatus)

ServerTimingMetricResponse ==
    Fields({"name"}, Texts)
    @@ Fields({"duration_ms"}, Nullable(Floats(0, Many)))
    @@ Fields({"description"}, Nullable(Texts))

ServerTimingAnalyzerResponse ==
    PageAnswer("webdiag.tool.server_timing_analyzer.v1")
    @@ Fields({"raw_header"}, Nullable(Texts))
    @@ Fields({"server_timing_present"}, Booleans)
    @@ Fields({"metric_count", "redirect_count"}, Counts)
    @@ Fields({"status"}, ToolStatus)
    @@ ListOf("metrics", ServerTimingMetricResponse)

CookieItemResponse ==
    Fields({"name"}, Texts)
    @@ Fields({"secure", "http_only", "persistent"}, Booleans)
    @@ Fields({"same_site", "domain", "path"}, Nullable(Texts))
    @@ ListsOf({"issues"}, Texts)

CookiePolicyResponse ==
    PageAnswer("webdiag.tool.cookie_policy_checker.v1")
    @@ Fields({"set_cookie_count", "secure_count", "http_only_count", "same_site_count",
               "issue_count", "redirect_count"}, Counts)
    @@ Fields({"status"}, ToolStatus)
    @@ ListOf("cookies", CookieItemResponse)

MixedContentItemResponse ==
    Fields({"url", "source"}, Texts)
    @@ Fields({"active"}, Booleans)

MixedContentResponse ==
    PageAnswer("webdiag.tool.mixed_content_checker.v1")
    @@ Fields({"page_scheme"}, Words({"http", "https"}))
    @@ Fields({"candidate_count", "mixed_content_count", "active_mixed_content_count",
               "passive_mixed_content_count", "redirect_count"}, Counts)
    @@ Fields({"status"}, ToolStatus)
    @@ ListOf("sample_items", MixedContentItemResponse)

-------------------------------------------------------------------------------
\* tools/security_headers.py

SecurityHeaderCheckResponse ==
    Fields({"id", "header", "title", "recommendation"}, Texts)
    @@ Fields({"value"}, Nullable(Texts))
    @@ Fields({"present"}, Booleans)
    @@ Fields({"status"}, ToolStatus)
    @@ Fields({"severity"}, FindingSeverity)

SecurityHeadersResponse ==
    PageAnswer("webdiag.tool.security_headers.v1")
    @@ Fields({"is_https"}, Booleans)
    @@ Fields({"redirect_count", "present_count", "missing_count"}, Counts)
    @@ Fields({"score"}, Ints(0, 100))
    @@ Fields({"risk_level"}, Words({"low", "medium", "high"}))
    @@ ListOf("checks", SecurityHeaderCheckResponse)

-------------------------------------------------------------------------------
\* tools/url_management.py

RedirectMapFindingResponse ==
    Fields({"id", "title", "recommendation"}, Texts)
    @@ Fields({"severity"}, FindingSeverity)
    @@ Fields({"value"}, Nullable(Texts))

RedirectMapEntryResponse ==
    Fields({"position"}, Positives)
    @@ Fields({"source_url", "target_url"}, Texts)
    @@ Fields({"expected_status_code"}, Nullable(Ints(300, 399)))
    @@ Fields({"normalized_source_url", "normalized_target_url",
               "observed_first_target_url", "final_url"}, Nullable(Texts))
    @@ Fields({"fetch_state"}, Words({"ok", "rejected", "failed", "not_checked"}))
    @@ Fields({"observed_first_status_code"}, Nullable(HttpStatuses))
    @@ Fields({"redirect_count"}, Counts)
    @@ Fields({"target_matches", "status_matches"}, Nullable(Booleans))
    @@ ListsOf({"issues"}, Texts)
    @@ Fields({"status"}, ToolStatus)

RedirectMapResponse ==
    Contract("webdiag.tool.redirect_map_validator.v1")
    @@ Fields({"generated_at"}, Timestamps)
    @@ Fields({"scan_mode"}, Words({"explicit_map_bounded_safe_fetch"}))
    @@ Fields({"entry_count"}, Positives)
    @@ Fields({"checked_count", "matched_count", "mismatch_count", "failed_count",
               "duplicate_source_count", "conflicting_source_count",
               "self_redirect_count", "chain_source_count", "cycle_count",
               "issue_count"}, Counts)
    @@ Fields({"status"}, ToolStatus)
    @@ Fields({"recommendation"}, Texts)
    @@ ListOf("entries", RedirectMapEntryResponse)
    @@ ListOf("findings", RedirectMapFindingResponse)
===============================================================================
