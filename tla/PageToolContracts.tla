-------------------------- MODULE PageToolContracts ---------------------------
(*****************************************************************************)
(* What the tools of the site that look at a page take the answers of the    *)
(* API to be: the interfaces, as they are declared, and the guards (is...)   *)
(* that an answer has to pass before a tool shows it.                        *)
(*****************************************************************************)
EXTENDS ContractTypes

\* The names of the kinds that several contracts of the site use.
ToolStatus      == Words({"pass", "warning", "fail"})
FindingSeverity == Words({"info", "medium", "high"})
\* Mutant: a state the API has is not known here.
FetchStateKnown == Words({"ok", "failed"})
AssetFetchState == Words({"ok", "rejected", "failed"})
NameSource      == Words({"aria-label", "aria-labelledby", "label", "text", "alt", "value",
                          "default-value", "title", "none"})
CspPolicySource == Words({"header", "report-only", "meta"})
ScriptHostClassification ==
    Words({"analytics-pattern", "tag-manager-pattern", "advertising-pattern",
           "social-pattern", "cdn-pattern", "other"})
ResourceHintRel ==
    Words({"preconnect", "dns-prefetch", "preload", "prefetch", "modulepreload", "preinit"})
Categories      == {"performance", "accessibility", "best-practices", "seo"}
LighthouseCategory == Words(Categories)
ResourceType    == Words({"document", "image", "script", "style", "font", "video", "other"})

PageAnswer(version) ==
    Contract(version)
    @@ Fields({"generated_at", "requested_url", "final_url", "recommendation"}, Text)
    @@ Fields({"status_code"}, Number)

-------------------------------------------------------------------------------
\* features/tools/accessibility-static-tool-contract.ts

AccessibilityFinding ==
    Fields({"id", "title", "recommendation"}, Text)
    @@ Fields({"severity"}, FindingSeverity)
    @@ Fields({"element", "value"}, Nullable(Text))
    @@ Fields({"position"}, Nullable(Number))

BaseResponse ==
    Fields({"generated_at", "requested_url", "final_url", "recommendation"}, Text)
    @@ Fields({"status_code", "finding_count", "redirect_count"}, Number)
    @@ Fields({"content_type"}, Nullable(Text))
    @@ Fields({"scan_mode"}, Words({"static_html_bounded"}))
    @@ Fields({"truncated"}, Boolean)
    @@ Fields({"status"}, ToolStatus)
    @@ ListOf("findings", AccessibilityFinding)

LandmarkItem ==
    Fields({"position", "nested_landmark_depth"}, Number)
    @@ Fields({"tag"}, Text)
    @@ Fields({"role", "id_value", "accessible_name"}, Nullable(Text))
    @@ Fields({"landmark_type"}, Words({"banner", "navigation", "main", "contentinfo",
                                        "complementary", "search", "form", "region"}))
    @@ Fields({"name_source"}, NameSource)
    @@ Fields({"hidden_signal"}, Boolean)
    @@ ListsOf({"issues"}, Text)

LandmarkStructureResponse ==
    Contract("webdiag.tool.landmark_structure_analyzer.v1")
    @@ Fields({"landmark_count", "named_landmark_count", "main_count",
               "navigation_count", "banner_count", "contentinfo_count",
               "complementary_count", "search_count", "form_landmark_count",
               "region_count", "duplicate_role_name_count"}, Number)
    @@ ListOf("landmarks", LandmarkItem)
    @@ BaseResponse

FormItem ==
    Fields({"position", "control_count", "labeled_control_count",
            "unlabeled_control_count", "fieldset_count",
            "fieldset_without_legend_count"}, Number)
    @@ Fields({"id_value", "accessible_name"}, Nullable(Text))
    @@ Fields({"name_source"}, NameSource)
    @@ ListsOf({"issues"}, Text)

FormControlItem ==
    Fields({"position"}, Number)
    @@ Fields({"tag"}, Text)
    @@ Fields({"input_type", "id_value", "name_attribute", "accessible_name"},
              Nullable(Text))
    @@ Fields({"form_position"}, Nullable(Number))
    @@ Fields({"name_source"}, NameSource)
    @@ Fields({"required", "disabled", "placeholder_present"}, Boolean)
    @@ ListsOf({"issues"}, Text)

FormAccessibilityResponse ==
    Contract("webdiag.tool.form_accessibility_analyzer.v1")
    @@ Fields({"form_count", "control_count", "labeled_control_count",
               "unlabeled_control_count", "placeholder_only_count",
               "button_control_count", "fieldset_count",
               "fieldset_without_legend_count", "broken_label_reference_count",
               "broken_description_reference_count", "ungrouped_choice_set_count"},
              Number)
    @@ ListOf("forms", FormItem)
    @@ ListOf("controls", FormControlItem)
    @@ BaseResponse

InteractiveItem ==
    Fields({"position"}, Number)
    @@ Fields({"kind"}, Words({"link", "button", "role-link", "role-button"}))
    @@ Fields({"tag"}, Text)
    @@ Fields({"role", "href", "id_value", "accessible_name"}, Nullable(Text))
    @@ Fields({"name_source"}, NameSource)
    @@ Fields({"native_element", "hidden_signal", "generic_name"}, Boolean)
    @@ ListsOf({"issues"}, Text)

InteractiveAccessibleNameResponse ==
    Contract("webdiag.tool.interactive_accessible_name_analyzer.v1")
    @@ Fields({"interactive_count", "link_count", "button_count", "role_link_count",
               "role_button_count", "named_count", "unnamed_count",
               "generic_name_count", "nested_interactive_count",
               "role_without_keyboard_signal_count"}, Number)
    @@ ListOf("items", InteractiveItem)
    @@ BaseResponse

isAccessibilityFinding ==
    Fields({"position"}, Nullable(Positive))
    @@ AccessibilityFinding

hasAccessibilityBaseFields ==
    Fields({"generated_at", "requested_url", "final_url", "recommendation"}, Text)
    @@ Fields({"status_code"}, HttpStatus)
    @@ Fields({"content_type"}, Nullable(Text))
    @@ Fields({"scan_mode"}, Words({"static_html_bounded"}))
    @@ Fields({"finding_count", "redirect_count"}, Count)
    @@ Fields({"truncated"}, Boolean)
    @@ Fields({"status"}, ToolStatus)
    @@ ListOf("findings", isAccessibilityFinding)

isLandmarkItem ==
    Fields({"position"}, Positive)
    @@ Fields({"nested_landmark_depth"}, Count)
    @@ LandmarkItem

isLandmarkStructureResponse ==
    ListOf("landmarks", isLandmarkItem)
    @@ Fields({"landmark_count", "named_landmark_count", "main_count",
               "navigation_count", "banner_count", "contentinfo_count",
               "complementary_count", "search_count", "form_landmark_count",
               "region_count", "duplicate_role_name_count"}, Count)
    @@ hasAccessibilityBaseFields
    @@ LandmarkStructureResponse

isFormItem ==
    Fields({"position"}, Positive)
    @@ Fields({"control_count", "labeled_control_count", "unlabeled_control_count",
               "fieldset_count", "fieldset_without_legend_count"}, Count)
    @@ FormItem

isFormControlItem ==
    Fields({"position"}, Positive)
    @@ Fields({"form_position"}, Nullable(Positive))
    @@ FormControlItem

isFormAccessibilityResponse ==
    ListOf("forms", isFormItem)
    @@ ListOf("controls", isFormControlItem)
    @@ Fields({"form_count", "control_count", "labeled_control_count",
               "unlabeled_control_count", "placeholder_only_count",
               "button_control_count", "fieldset_count",
               "fieldset_without_legend_count", "broken_label_reference_count",
               "broken_description_reference_count", "ungrouped_choice_set_count"}, Count)
    @@ hasAccessibilityBaseFields
    @@ FormAccessibilityResponse

isInteractiveItem ==
    Fields({"position"}, Positive)
    @@ InteractiveItem

isInteractiveAccessibleNameResponse ==
    ListOf("items", isInteractiveItem)
    @@ Fields({"interactive_count", "link_count", "button_count", "role_link_count",
               "role_button_count", "named_count", "unnamed_count",
               "generic_name_count", "nested_interactive_count",
               "role_without_keyboard_signal_count"}, Count)
    @@ hasAccessibilityBaseFields
    @@ InteractiveAccessibleNameResponse

-------------------------------------------------------------------------------
\* features/tools/asset-delivery-tool-contract.ts

AssetFindingResult ==
    Fields({"id", "title", "recommendation"}, Text)
    @@ Fields({"severity"}, FindingSeverity)
    @@ Fields({"value"}, Nullable(Text))

JavaScriptAssetResult ==
    Fields({"position", "redirect_count"}, Number)
    @@ Fields({"raw_src", "resolved_url"}, Text)
    @@ Fields({"final_url", "hostname", "content_type", "content_encoding",
               "cache_control"}, Nullable(Text))
    @@ Fields({"same_host"}, Nullable(Boolean))
    @@ Fields({"script_kind"}, Words({"classic", "module"}))
    @@ Fields({"async_attribute", "defer_attribute", "parser_blocking_candidate",
               "immutable_cache"}, Boolean)
    @@ Fields({"fetch_state"}, AssetFetchState)
    @@ Fields({"status_code", "declared_bytes", "max_age_seconds"}, Nullable(Number))
    @@ ListsOf({"issues"}, Text)

JavaScriptBundleSurfaceResponse ==
    PageAnswer("webdiag.tool.javascript_bundle_surface.v1")
    @@ Fields({"content_type"}, Nullable(Text))
    @@ Fields({"scan_mode"}, Words({"static_html_bounded_headers"}))
    @@ Fields({"discovered_script_count", "unique_script_count", "checked_script_count",
               "same_host_script_count", "cross_host_script_count",
               "module_script_count", "classic_script_count",
               "parser_blocking_candidate_count", "duplicate_src_count",
               "known_declared_bytes", "unknown_size_count",
               "compressed_response_count", "long_cache_count", "failed_asset_count",
               "issue_count", "redirect_count"}, Number)
    @@ Fields({"truncated"}, Boolean)
    @@ Fields({"status"}, ToolStatus)
    @@ ListOf("assets", JavaScriptAssetResult)
    @@ ListOf("findings", AssetFindingResult)

StylesheetAssetResult ==
    Fields({"position", "import_rule_count", "font_face_rule_count", "redirect_count"},
           Number)
    @@ Fields({"raw_href", "resolved_url"}, Text)
    @@ Fields({"final_url", "hostname", "media", "content_type", "content_encoding",
               "cache_control"}, Nullable(Text))
    @@ Fields({"same_host"}, Nullable(Boolean))
    @@ Fields({"default_media_candidate", "alternate", "disabled", "immutable_cache",
               "source_map_comment"}, Boolean)
    @@ Fields({"fetch_state"}, AssetFetchState)
    @@ Fields({"status_code", "declared_bytes", "sampled_decoded_bytes",
               "max_age_seconds"}, Nullable(Number))
    @@ ListsOf({"issues"}, Text)

CssDeliveryAnalyzerResponse ==
    PageAnswer("webdiag.tool.css_delivery_analyzer.v1")
    @@ Fields({"content_type"}, Nullable(Text))
    @@ Fields({"scan_mode"}, Words({"static_html_bounded_css"}))
    @@ Fields({"stylesheet_link_count", "unique_stylesheet_count",
               "checked_stylesheet_count", "inline_style_block_count",
               "inline_style_bytes", "same_host_stylesheet_count",
               "cross_host_stylesheet_count", "default_media_candidate_count",
               "conditional_media_count", "alternate_or_disabled_count",
               "duplicate_href_count", "known_declared_bytes", "sampled_decoded_bytes",
               "compressed_response_count", "import_rule_count", "font_face_rule_count",
               "failed_stylesheet_count", "issue_count", "redirect_count"}, Number)
    @@ Fields({"truncated"}, Boolean)
    @@ Fields({"status"}, ToolStatus)
    @@ ListOf("stylesheets", StylesheetAssetResult)
    @@ ListOf("findings", AssetFindingResult)

FontFaceResult ==
    Fields({"position", "fetchable_source_count", "local_source_count"}, Number)
    @@ Fields({"family", "display"}, Nullable(Text))
    @@ Fields({"style", "weight", "source_stylesheet_url"}, Text)
    @@ ListsOf({"issues"}, Text)

FontAssetResult ==
    Fields({"position", "redirect_count"}, Number)
    @@ Fields({"resolved_url"}, Text)
    @@ Fields({"final_url", "hostname", "content_type", "content_encoding",
               "cache_control"}, Nullable(Text))
    @@ Fields({"same_host"}, Nullable(Boolean))
    @@ ListsOf({"families", "format_hints", "issues"}, Text)
    @@ Fields({"preloaded", "immutable_cache"}, Boolean)
    @@ Fields({"fetch_state"}, AssetFetchState)
    @@ Fields({"status_code", "declared_bytes", "max_age_seconds"}, Nullable(Number))

FontPreloadResult ==
    Fields({"position"}, Number)
    @@ Fields({"raw_href"}, Text)
    @@ Fields({"resolved_url", "type_value"}, Nullable(Text))
    @@ Fields({"crossorigin_present", "matches_discovered_font"}, Boolean)
    @@ ListsOf({"issues"}, Text)

FontLoadingAnalyzerResponse ==
    PageAnswer("webdiag.tool.font_loading_analyzer.v1")
    @@ Fields({"content_type"}, Nullable(Text))
    @@ Fields({"scan_mode"}, Words({"static_html_bounded_css"}))
    @@ Fields({"stylesheet_count", "checked_stylesheet_count", "font_face_count",
               "family_count", "font_source_count", "unique_font_source_count",
               "checked_font_source_count", "local_source_count", "preload_count",
               "matched_preload_count", "missing_font_display_count",
               "blocking_font_display_count", "swap_or_optional_count",
               "cross_host_font_count", "woff2_source_count", "duplicate_source_count",
               "known_declared_bytes", "unknown_size_count", "failed_font_count",
               "issue_count", "redirect_count"}, Number)
    @@ Fields({"truncated"}, Boolean)
    @@ Fields({"status"}, ToolStatus)
    @@ ListOf("faces", FontFaceResult)
    @@ ListOf("assets", FontAssetResult)
    @@ ListOf("preloads", FontPreloadResult)
    @@ ListOf("findings", AssetFindingResult)

hasAssetBaseFields ==
    Fields({"generated_at", "requested_url", "final_url", "recommendation"}, Text)
    @@ Fields({"status_code"}, HttpStatus)
    @@ Fields({"content_type"}, Nullable(Text))
    @@ Fields({"redirect_count"}, Count)
    @@ Fields({"truncated"}, Boolean)
    @@ Fields({"status"}, ToolStatus)

isAssetFinding ==
    AssetFindingResult

isJavaScriptAsset ==
    Fields({"position"}, Positive)
    @@ Fields({"status_code"}, Nullable(HttpStatus))
    @@ Fields({"declared_bytes", "max_age_seconds"}, Nullable(Count))
    @@ Fields({"redirect_count"}, Count)
    @@ JavaScriptAssetResult

isJavaScriptBundleSurfaceResponse ==
    ListOf("assets", isJavaScriptAsset)
    @@ ListOf("findings", isAssetFinding)
    @@ Fields({"discovered_script_count", "unique_script_count", "checked_script_count",
               "same_host_script_count", "cross_host_script_count",
               "module_script_count", "classic_script_count",
               "parser_blocking_candidate_count", "duplicate_src_count",
               "known_declared_bytes", "unknown_size_count",
               "compressed_response_count", "long_cache_count", "failed_asset_count",
               "issue_count"}, Count)
    @@ hasAssetBaseFields
    @@ JavaScriptBundleSurfaceResponse

isStylesheetAsset ==
    Fields({"position"}, Positive)
    @@ Fields({"status_code"}, Nullable(HttpStatus))
    @@ Fields({"declared_bytes", "sampled_decoded_bytes", "max_age_seconds"},
              Nullable(Count))
    @@ Fields({"import_rule_count", "font_face_rule_count", "redirect_count"}, Count)
    @@ StylesheetAssetResult

isCssDeliveryAnalyzerResponse ==
    ListOf("stylesheets", isStylesheetAsset)
    @@ ListOf("findings", isAssetFinding)
    @@ Fields({"stylesheet_link_count", "unique_stylesheet_count",
               "checked_stylesheet_count", "inline_style_block_count",
               "inline_style_bytes", "same_host_stylesheet_count",
               "cross_host_stylesheet_count", "default_media_candidate_count",
               "conditional_media_count", "alternate_or_disabled_count",
               "duplicate_href_count", "known_declared_bytes", "sampled_decoded_bytes",
               "compressed_response_count", "import_rule_count", "font_face_rule_count",
               "failed_stylesheet_count", "issue_count"}, Count)
    @@ hasAssetBaseFields
    @@ CssDeliveryAnalyzerResponse

isFontFace ==
    Fields({"position"}, Positive)
    @@ Fields({"fetchable_source_count", "local_source_count"}, Count)
    @@ FontFaceResult

isFontAsset ==
    Fields({"position"}, Positive)
    @@ Fields({"status_code"}, Nullable(HttpStatus))
    @@ Fields({"declared_bytes", "max_age_seconds"}, Nullable(Count))
    @@ Fields({"redirect_count"}, Count)
    @@ FontAssetResult

isFontPreload ==
    Fields({"position"}, Positive)
    @@ FontPreloadResult

isFontLoadingAnalyzerResponse ==
    ListOf("faces", isFontFace)
    @@ ListOf("assets", isFontAsset)
    @@ ListOf("preloads", isFontPreload)
    @@ ListOf("findings", isAssetFinding)
    @@ Fields({"stylesheet_count", "checked_stylesheet_count", "font_face_count",
               "family_count", "font_source_count", "unique_font_source_count",
               "checked_font_source_count", "local_source_count", "preload_count",
               "matched_preload_count", "missing_font_display_count",
               "blocking_font_display_count", "swap_or_optional_count",
               "cross_host_font_count", "woff2_source_count", "duplicate_source_count",
               "known_declared_bytes", "unknown_size_count", "failed_font_count",
               "issue_count"}, Count)
    @@ hasAssetBaseFields
    @@ FontLoadingAnalyzerResponse

-------------------------------------------------------------------------------
\* features/tools/client-delivery-tool-contract.ts

CspDirectiveResult ==
    Fields({"name"}, Text)
    @@ ListsOf({"values"}, Text)

CspPolicyResult ==
    Fields({"source"}, CspPolicySource)
    @@ Fields({"raw"}, Text)
    @@ Fields({"directive_count", "duplicate_directive_count"}, Number)
    @@ ListOf("directives", CspDirectiveResult)

CspFindingResult ==
    Fields({"id", "title", "recommendation"}, Text)
    @@ Fields({"severity"}, FindingSeverity)
    @@ Fields({"source"}, Words({"header", "report-only", "meta", "document"}))
    @@ Fields({"directive", "value"}, Nullable(Text))

CspAnalyzerResponse ==
    PageAnswer("webdiag.tool.csp_analyzer.v1")
    @@ Fields({"content_type"}, Nullable(Text))
    @@ Fields({"enforced_policy_count", "report_only_policy_count", "meta_policy_count",
               "directive_count", "finding_count", "high_risk_finding_count",
               "redirect_count"}, Number)
    @@ Fields({"truncated"}, Boolean)
    @@ Fields({"status"}, ToolStatus)
    @@ ListOf("policies", CspPolicyResult)
    @@ ListOf("findings", CspFindingResult)

ScriptItemResult ==
    Fields({"position"}, Number)
    @@ Fields({"source_kind"}, Words({"inline", "external"}))
    @@ Fields({"raw_src", "resolved_url", "hostname"}, Nullable(Text))
    @@ Fields({"same_host"}, Nullable(Boolean))
    @@ Fields({"cross_host_candidate", "async_attribute", "defer_attribute", "module",
               "nomodule", "parser_blocking_candidate", "integrity_present",
               "crossorigin_present"}, Boolean)
    @@ Fields({"host_classification"}, Nullable(ScriptHostClassification))
    @@ ListsOf({"issues"}, Text)

ScriptHostGroupResult ==
    Fields({"hostname"}, Text)
    @@ Fields({"count"}, Number)
    @@ Fields({"classification"}, ScriptHostClassification)

ThirdPartyScriptAnalyzerResponse ==
    PageAnswer("webdiag.tool.third_party_script_analyzer.v1")
    @@ Fields({"content_type"}, Nullable(Text))
    @@ Fields({"scan_mode"}, Words({"static_html_bounded"}))
    @@ Fields({"classification_basis"}, Words({"hostname"}))
    @@ Fields({"script_count", "inline_script_count", "external_script_count",
               "same_host_script_count", "cross_host_script_count",
               "parser_blocking_candidate_count", "async_count", "defer_count",
               "module_count", "nomodule_count", "integrity_count", "crossorigin_count",
               "duplicate_src_count", "issue_count", "redirect_count"}, Number)
    @@ Fields({"truncated"}, Boolean)
    @@ Fields({"status"}, ToolStatus)
    @@ ListOf("scripts", ScriptItemResult)
    @@ ListOf("host_groups", ScriptHostGroupResult)

ResourceHintItemResult ==
    Fields({"position"}, Number)
    @@ Fields({"rel"}, ResourceHintRel)
    @@ Fields({"raw_href", "resolved_url", "hostname", "as_value", "type_value",
               "media", "fetchpriority"}, Nullable(Text))
    @@ Fields({"same_host"}, Nullable(Boolean))
    @@ Fields({"crossorigin_present"}, Boolean)
    @@ ListsOf({"issues"}, Text)

ResourceHintFindingResult ==
    Fields({"id", "title", "recommendation"}, Text)
    @@ Fields({"severity"}, Words({"info", "medium"}))
    @@ Fields({"rel"}, Nullable(ResourceHintRel))
    @@ Fields({"value"}, Nullable(Text))

ResourceHintsAnalyzerResponse ==
    PageAnswer("webdiag.tool.resource_hints_analyzer.v1")
    @@ Fields({"content_type"}, Nullable(Text))
    @@ Fields({"scan_mode"}, Words({"static_html_bounded"}))
    @@ Fields({"hint_count", "preconnect_count", "dns_prefetch_count", "preload_count",
               "prefetch_count", "modulepreload_count", "preinit_count",
               "cross_host_hint_count", "duplicate_hint_count", "finding_count",
               "redirect_count"}, Number)
    @@ Fields({"truncated"}, Boolean)
    @@ Fields({"status"}, ToolStatus)
    @@ ListOf("hints", ResourceHintItemResult)
    @@ ListOf("findings", ResourceHintFindingResult)

hasBaseResponseFields ==
    Fields({"generated_at", "requested_url", "final_url", "recommendation"}, Text)
    @@ Fields({"status_code"}, HttpStatus)
    @@ Fields({"content_type"}, Nullable(Text))
    @@ Fields({"redirect_count"}, Count)
    @@ Fields({"truncated"}, Boolean)
    @@ Fields({"status"}, ToolStatus)

isCspDirectiveResult ==
    CspDirectiveResult

isCspPolicyResult ==
    ListOf("directives", isCspDirectiveResult)
    @@ Fields({"directive_count", "duplicate_directive_count"}, Count)
    @@ CspPolicyResult

isCspFindingResult ==
    Fields({"source"}, Words({"header", "report-only", "meta", "document"}))
    @@ CspFindingResult

isCspAnalyzerResponse ==
    ListOf("policies", isCspPolicyResult)
    @@ ListOf("findings", isCspFindingResult)
    @@ Fields({"enforced_policy_count", "report_only_policy_count", "meta_policy_count",
               "directive_count", "finding_count", "high_risk_finding_count"}, Count)
    @@ hasBaseResponseFields
    @@ CspAnalyzerResponse

isScriptItemResult ==
    Fields({"position"}, Positive)
    @@ ScriptItemResult

isScriptHostGroupResult ==
    Fields({"count"}, Positive)
    @@ ScriptHostGroupResult

isThirdPartyScriptAnalyzerResponse ==
    ListOf("scripts", isScriptItemResult)
    @@ ListOf("host_groups", isScriptHostGroupResult)
    @@ Fields({"script_count", "inline_script_count", "external_script_count",
               "same_host_script_count", "cross_host_script_count",
               "parser_blocking_candidate_count", "async_count", "defer_count",
               "module_count", "nomodule_count", "integrity_count", "crossorigin_count",
               "duplicate_src_count", "issue_count"}, Count)
    @@ hasBaseResponseFields
    @@ ThirdPartyScriptAnalyzerResponse

isResourceHintItemResult ==
    Fields({"position"}, Positive)
    @@ ResourceHintItemResult

isResourceHintFindingResult ==
    ResourceHintFindingResult

isResourceHintsAnalyzerResponse ==
    ListOf("hints", isResourceHintItemResult)
    @@ ListOf("findings", isResourceHintFindingResult)
    @@ Fields({"hint_count", "preconnect_count", "dns_prefetch_count", "preload_count",
               "prefetch_count", "modulepreload_count", "preinit_count",
               "cross_host_hint_count", "duplicate_hint_count", "finding_count"}, Count)
    @@ hasBaseResponseFields
    @@ ResourceHintsAnalyzerResponse

-------------------------------------------------------------------------------
\* features/tools/content-analysis-tool-contract.ts

HeadingStructureResponse ==
    PageAnswer("webdiag.tool.heading_structure.v1")
    @@ Fields({"scan_mode"}, Words({"static_html_bounded"}))
    @@ Fields({"total_headings", "h1_count", "skipped_level_count",
               "empty_heading_count"}, Number)
    @@ Fields({"outline", "checks"}, Lists)

KeywordFrequencyResponse ==
    PageAnswer("webdiag.tool.keyword_frequency.v1")
    @@ Fields({"scan_mode"}, Words({"static_html_bounded"}))
    @@ Fields({"total_words", "unique_terms"}, Number)
    @@ Fields({"top_words", "top_bigrams", "top_trigrams", "overused_terms"}, Lists)

ReadabilityResponse ==
    PageAnswer("webdiag.tool.readability.v1")
    @@ Fields({"scan_mode"}, Words({"static_html_bounded"}))
    @@ Fields({"formula_scope"}, Words({"multilingual_heuristic"}))
    @@ Fields({"word_count", "sentence_count", "paragraph_count", "long_sentence_count",
               "estimated_reading_time_minutes", "readability_score"}, Number)
    @@ Fields({"metrics"}, Lists)

isHeadingStructureResponse ==
    HeadingStructureResponse

isKeywordFrequencyResponse ==
    KeywordFrequencyResponse

isReadabilityResponse ==
    ReadabilityResponse

-------------------------------------------------------------------------------
\* features/tools/image-audit-tool-contract.ts

ImageFormatSummaryResponse ==
    Fields({"format"}, Text)
    @@ Fields({"count", "known_bytes", "unknown_size_count"}, Number)

ImagePerformanceItemResponse ==
    Fields({"url", "format"}, Text)
    @@ Fields({"source"}, Words({"img-src", "img-srcset", "picture-source",
                                 "social-image"}))
    @@ Fields({"status_code", "content_length"}, Nullable(Number))
    @@ Fields({"content_type", "width_attr", "height_attr", "loading"}, Nullable(Text))
    @@ Fields({"uses_srcset", "uses_picture", "oversized"}, Boolean)
    @@ Fields({"modern_raster_format"}, Nullable(Boolean))
    @@ ListsOf({"recommendations"}, Text)

ImagePerformanceResponse ==
    PageAnswer("webdiag.tool.image_performance.v1")
    @@ Fields({"scan_mode"}, Words({"static_html_bounded"}))
    @@ Fields({"discovered_image_count", "checked_image_count",
               "total_known_image_bytes", "unknown_size_count", "modern_raster_count",
               "legacy_raster_count", "svg_count", "oversized_count",
               "missing_dimensions_count", "lazy_loading_candidate_count",
               "responsive_markup_count"}, Number)
    @@ ListOf("format_summaries", ImageFormatSummaryResponse)
    @@ ListOf("largest_images", ImagePerformanceItemResponse)

ImageSeoCheckResponse ==
    Fields({"id", "title", "recommendation"}, Text)
    @@ Fields({"status"}, ToolStatus)
    @@ Fields({"severity"}, FindingSeverity)
    @@ Fields({"value"}, Nullable(Text))

ImageSeoItemResponse ==
    Fields({"url"}, Text)
    @@ Fields({"alt_status"}, Words({"missing", "empty", "decorative", "present"}))
    @@ Fields({"alt_text", "loading"}, Nullable(Text))
    @@ Fields({"in_link", "has_dimensions", "uses_srcset", "uses_picture"}, Boolean)

ImageSeoResponse ==
    PageAnswer("webdiag.tool.image_seo.v1")
    @@ Fields({"total_images", "missing_alt_count", "empty_alt_count",
               "decorative_count", "linked_images_without_alt_count",
               "missing_dimensions_count", "responsive_image_count",
               "lazy_loading_count"}, Number)
    @@ Fields({"og_image_url", "twitter_image_url"}, Nullable(Text))
    @@ ListOf("checks", ImageSeoCheckResponse)
    @@ ListOf("sample_images", ImageSeoItemResponse)

FaviconIconResponse ==
    Fields({"rel", "url", "format"}, Text)
    @@ Fields({"sizes", "declared_type", "content_type", "recommendation"},
              Nullable(Text))
    @@ Fields({"status_code", "content_length"}, Nullable(Number))

FaviconResponse ==
    PageAnswer("webdiag.tool.favicon.v1")
    @@ Fields({"discovered_icon_count", "checked_icon_count"}, Number)
    @@ Fields({"has_favicon", "has_svg_icon", "has_apple_touch_icon", "has_manifest",
               "fallback_ico_checked"}, Boolean)
    @@ Fields({"manifest_url"}, Nullable(Text))
    @@ ListOf("icons", FaviconIconResponse)

isImageFormatSummary ==
    ImageFormatSummaryResponse

isImagePerformanceItem ==
    ImagePerformanceItemResponse

isImagePerformanceResponse ==
    ListOf("format_summaries", isImageFormatSummary)
    @@ ListOf("largest_images", isImagePerformanceItem)
    @@ ImagePerformanceResponse

isImageSeoCheck ==
    ImageSeoCheckResponse

isImageSeoItem ==
    ImageSeoItemResponse

isImageSeoResponse ==
    ListOf("checks", isImageSeoCheck)
    @@ ListOf("sample_images", isImageSeoItem)
    @@ ImageSeoResponse

isFaviconIcon ==
    FaviconIconResponse

isFaviconResponse ==
    ListOf("icons", isFaviconIcon)
    @@ FaviconResponse

-------------------------------------------------------------------------------
\* features/tools/link-health-tool-contract.ts

LinkAnalyzerResponse ==
    PageAnswer("webdiag.tool.link_analyzer.v1")
    @@ Fields({"scan_mode"}, Words({"static_html_bounded"}))
    @@ Fields({"total_links", "unique_http_links", "internal_count", "external_count",
               "same_page_count", "mailto_tel_count", "non_http_count",
               "nofollow_count", "sponsored_count", "ugc_count",
               "target_blank_missing_noopener_count"}, Number)
    @@ Fields({"sample_links"}, Lists)

BrokenLinkCheckerResponse ==
    PageAnswer("webdiag.tool.broken_link_checker.v1")
    @@ Fields({"scan_mode"}, Words({"static_html_bounded"}))
    @@ Fields({"discovered_link_count", "checked_link_count", "broken_link_count",
               "redirecting_link_count", "skipped_non_http_count"}, Number)
    @@ Fields({"items"}, Lists)

BrokenImageCheckerResponse ==
    PageAnswer("webdiag.tool.broken_image_checker.v1")
    @@ Fields({"scan_mode"}, Words({"static_html_bounded"}))
    @@ Fields({"discovered_image_count", "checked_image_count", "broken_image_count",
               "redirecting_image_count"}, Number)
    @@ Fields({"items"}, Lists)

isLinkAnalyzerResponse ==
    LinkAnalyzerResponse

isBrokenLinkCheckerResponse ==
    BrokenLinkCheckerResponse

isBrokenImageCheckerResponse ==
    BrokenImageCheckerResponse

-------------------------------------------------------------------------------
\* features/tools/markup-tool-contract.ts

StructuredDataBlockResponse ==
    Fields({"index", "node_count"}, Number)
    @@ Fields({"valid"}, Boolean)
    @@ ListsOf({"types"}, Text)
    @@ Fields({"error"}, Nullable(Text))

StructuredDataTypeSummaryResponse ==
    Fields({"type"}, Text)
    @@ Fields({"count"}, Number)

StructuredDataValidatorResponse ==
    PageAnswer("webdiag.tool.structured_data.v1")
    @@ Fields({"json_ld_count", "valid_json_ld_count", "invalid_json_ld_count"}, Number)
    @@ ListOf("detected_types", StructuredDataTypeSummaryResponse)
    @@ ListOf("blocks", StructuredDataBlockResponse)

HtmlMarkupCheckResponse ==
    Fields({"id", "title", "message", "recommendation"}, Text)
    @@ Fields({"status"}, ToolStatus)
    @@ Fields({"severity"}, FindingSeverity)

HtmlMarkupValidatorResponse ==
    PageAnswer("webdiag.tool.html_markup.v1")
    @@ Fields({"content_type", "html_lang", "title"}, Nullable(Text))
    @@ Fields({"doctype_present", "html_tag_present", "head_tag_present",
               "body_tag_present", "viewport_present"}, Boolean)
    @@ Fields({"duplicate_id_count", "unexpected_end_tag_count", "unclosed_tag_count"},
              Number)
    @@ ListOf("checks", HtmlMarkupCheckResponse)

isStructuredDataBlockResponse ==
    StructuredDataBlockResponse

isStructuredDataTypeSummaryResponse ==
    StructuredDataTypeSummaryResponse

isStructuredDataValidatorResponse ==
    ListOf("detected_types", isStructuredDataTypeSummaryResponse)
    @@ ListOf("blocks", isStructuredDataBlockResponse)
    @@ StructuredDataValidatorResponse

isHtmlMarkupCheckResponse ==
    HtmlMarkupCheckResponse

isHtmlMarkupValidatorResponse ==
    ListOf("checks", isHtmlMarkupCheckResponse)
    @@ HtmlMarkupValidatorResponse

-------------------------------------------------------------------------------
\* features/tools/metadata-tool-contract.ts

MetadataSignalResponse ==
    Fields({"name", "content"}, Text)

MetadataCheckResponse ==
    Fields({"id", "title", "recommendation"}, Text)
    @@ Fields({"status"}, ToolStatus)
    @@ Fields({"severity"}, FindingSeverity)
    @@ Fields({"value"}, Nullable(Text))

MetaTagsResponse ==
    PageAnswer("webdiag.tool.meta_tags.v1")
    @@ Fields({"content_type", "title", "meta_description", "canonical_url",
               "resolved_canonical_url"}, Nullable(Text))
    @@ Fields({"title_length", "meta_description_length", "h1_count",
               "open_graph_count", "twitter_card_count", "json_ld_count"}, Number)
    @@ ListOf("robots_directives", MetadataSignalResponse)
    @@ ListOf("checks", MetadataCheckResponse)

SerpPreviewCheckResponse ==
    Fields({"id", "message"}, Text)
    @@ Fields({"status"}, ToolStatus)

SerpPreviewResponse ==
    PageAnswer("webdiag.tool.serp_preview.v1")
    @@ Fields({"display_url", "preview_title", "preview_description"}, Text)
    @@ Fields({"title_source"}, Words({"title", "fallback"}))
    @@ Fields({"description_source"}, Words({"meta_description", "fallback"}))
    @@ Fields({"title_length", "description_length"}, Number)
    @@ ListOf("checks", SerpPreviewCheckResponse)

SocialCardPreviewResponse ==
    Fields({"title", "description", "image", "url", "card_type", "site_name"},
           Nullable(Text))
    @@ ListsOf({"missing_fields"}, Text)
    @@ Fields({"complete"}, Boolean)

SocialPreviewResponse ==
    PageAnswer("webdiag.tool.social_preview.v1")
    @@ Fields({"fallback_title", "fallback_description"}, Nullable(Text))
    @@ Part("open_graph", SocialCardPreviewResponse)
    @@ Part("twitter", SocialCardPreviewResponse)

isMetadataSignalResponse ==
    MetadataSignalResponse

isMetadataCheckResponse ==
    MetadataCheckResponse

isMetaTagsResponse ==
    ListOf("robots_directives", isMetadataSignalResponse)
    @@ ListOf("checks", isMetadataCheckResponse)
    @@ MetaTagsResponse

isSerpPreviewCheckResponse ==
    SerpPreviewCheckResponse

isSerpPreviewResponse ==
    ListOf("checks", isSerpPreviewCheckResponse)
    @@ SerpPreviewResponse

isSocialCardPreviewResponse ==
    SocialCardPreviewResponse

isSocialPreviewResponse ==
    Part("open_graph", isSocialCardPreviewResponse)
    @@ Part("twitter", isSocialCardPreviewResponse)
    @@ SocialPreviewResponse

-------------------------------------------------------------------------------
\* features/tools/technical-seo-tool-contract.ts

IndexabilityResponse ==
    PageAnswer("webdiag.tool.indexability.v1")
    @@ Fields({"scan_mode"}, Words({"static_html_bounded"}))
    @@ Fields({"redirect_count"}, Number)
    @@ Fields({"robots_txt_allowed", "canonical_matches_final_url"}, Nullable(Boolean))
    @@ Fields({"robots_txt_status_code"}, Nullable(Number))
    @@ Fields({"meta_robots_noindex", "meta_robots_nofollow", "x_robots_tag_noindex",
               "x_robots_tag_nofollow", "indexable_candidate"}, Boolean)
    @@ Fields({"canonical_url", "resolved_canonical_url"}, Nullable(Text))
    @@ Fields({"signals"}, Lists)

HreflangResponse ==
    PageAnswer("webdiag.tool.hreflang.v1")
    @@ Fields({"scan_mode"}, Words({"static_html_bounded"}))
    @@ Fields({"html_lang"}, Nullable(Text))
    @@ Fields({"total_alternates", "valid_alternate_count", "invalid_alternate_count",
               "duplicate_hreflang_count"}, Number)
    @@ Fields({"has_x_default", "has_self_reference"}, Boolean)
    @@ Fields({"alternates"}, Lists)

TechnologyDetectorResponse ==
    PageAnswer("webdiag.tool.technology_detector.v1")
    @@ Fields({"scan_mode"}, Words({"static_html_bounded"}))
    @@ Fields({"detected_count"}, Number)
    @@ Fields({"technologies"}, Lists)
    @@ Fields({"server_header", "powered_by_header", "generator_meta"}, Nullable(Text))

isIndexabilityResponse ==
    IndexabilityResponse

isHreflangResponse ==
    HreflangResponse

isTechnologyDetectorResponse ==
    TechnologyDetectorResponse

-------------------------------------------------------------------------------
\* features/tools/canonical-checker-tool.tsx

CanonicalToolResponse ==
    PageAnswer("webdiag.tool.canonical.v1")
    @@ Fields({"content_type", "canonical_url", "resolved_canonical_url"}, Nullable(Text))
    @@ Fields({"canonical_present", "has_noindex"}, Boolean)
    @@ Fields({"canonical_is_absolute", "canonical_matches_final_url",
               "canonical_host_matches_final_url"}, Nullable(Boolean))
    @@ Fields({"redirect_count"}, Number)

isCanonicalToolResponse ==
    CanonicalToolResponse

-------------------------------------------------------------------------------
\* features/tools/robots-txt-tool.tsx

RobotsTxtRuleResult ==
    Fields({"user_agent", "value"}, Text)
    @@ Fields({"directive"}, Words({"allow", "disallow"}))

RobotsTxtSitemapResult ==
    Fields({"url"}, Text)

RobotsTxtToolResponse ==
    Contract("webdiag.tool.robots_txt.v1")
    @@ Fields({"generated_at", "requested_url", "target_url", "target_path",
               "robots_url", "user_agent", "recommendation"}, Text)
    @@ Fields({"status_code"}, Nullable(Number))
    @@ Fields({"available"}, Boolean)
    @@ Fields({"allows_target"}, Nullable(Boolean))
    @@ Fields({"matched_allow_rule", "matched_disallow_rule"}, Nullable(Text))
    @@ Fields({"disallow_count", "sitemap_count"}, Number)
    @@ ListOf("disallow_rules", RobotsTxtRuleResult)
    @@ ListOf("sitemap_urls", RobotsTxtSitemapResult)

isRobotsRule ==
    RobotsTxtRuleResult

isSitemap ==
    RobotsTxtSitemapResult

isRobotsTxtToolResponse ==
    ListOf("disallow_rules", isRobotsRule)
    @@ ListOf("sitemap_urls", isSitemap)
    @@ RobotsTxtToolResponse

-------------------------------------------------------------------------------
\* features/tools/sitemap-validator-tool.tsx

SitemapLocResult ==
    Fields({"url"}, Text)

SitemapXmlToolResponse ==
    Contract("webdiag.tool.sitemap_xml.v1")
    @@ Fields({"generated_at", "requested_url", "sitemap_url", "recommendation"}, Text)
    @@ Fields({"target_url", "content_type", "parse_error", "fetch_error"},
              Nullable(Text))
    @@ Fields({"status_code"}, Nullable(Number))
    @@ Fields({"available", "valid_xml"}, Boolean)
    @@ Fields({"kind"}, Words({"urlset", "sitemapindex", "unknown"}))
    @@ Fields({"url_count", "sitemap_count"}, Number)
    @@ Fields({"contains_target"}, Nullable(Boolean))
    @@ ListOf("sample_urls", SitemapLocResult)
    @@ ListOf("sample_sitemaps", SitemapLocResult)

isLoc ==
    SitemapLocResult

isSitemapXmlToolResponse ==
    ListOf("sample_urls", isLoc)
    @@ ListOf("sample_sitemaps", isLoc)
    @@ SitemapXmlToolResponse
===============================================================================
