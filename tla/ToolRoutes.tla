------------------------------ MODULE ToolRoutes -------------------------------
(***************************************************************************)
(* The handlers the forms of the server tools post to: every POST under    *)
(* src/apps/web/app/api/tools/, that of app/api/audits/, and the proxies   *)
(* in src/apps/web/src/features/tools/ which the short ones are made of.   *)
(*                                                                         *)
(* A handler is the function from the body it gets and from what happens   *)
(* upstream to what it replies.  Of a body it matters whether it is an     *)
(* object and which fields it has of the type, and in the form, they must  *)
(* have; of what happens upstream, how long it takes, the status, and      *)
(* whether the payload is no JSON, an error payload, what the endpoint     *)
(* that was called promises (known by that endpoint), or anything else.    *)
(***************************************************************************)
EXTENDS Naturals

NoReply == [code |-> "none", of |-> "none", about |-> {}]

\* toJsonResponse of an error payload; the refusal is the API's own.
Failure(code) == [NoReply EXCEPT !.code = code]
BadRequest == Failure("tool_bad_request")

\* What a handler does from its fetch on, and its catch: the answer must come
\* within the limit, be JSON and, unless it is an error, meet the contract.
Relay(endpoint, asked, upstream, limit) ==
    IF upstream.after >= limit THEN Failure("tool_api_timeout")
    ELSE IF upstream.status = "down" THEN Failure("tool_api_unavailable")
    ELSE IF upstream.says = "noise" THEN Failure("tool_api_invalid_response")
    ELSE IF upstream.status = "error" /\ upstream.says = "error payload"
      THEN Failure("refusal")
    ELSE IF upstream.status = "error" THEN Failure("tool_api_error")
    ELSE IF upstream.says # endpoint THEN Failure("tool_api_invalid_response")
    ELSE [code |-> "result", of |-> endpoint, about |-> asked]

-----------------------------------------------------------------------------
(***************************************************************************)
(* Handlers that need a url and pass nothing else on, but for the strategy *)
(* of two and the optional fields of two others.                           *)
(***************************************************************************)
CachePolicyRoute(body, upstream) ==
    IF "url" \in body.fields THEN Relay("cache-policy", {"url"}, upstream, 15)
    ELSE BadRequest

CanonicalRoute(body, upstream) ==
    IF "url" \in body.fields THEN Relay("canonical", {"url"}, upstream, 15)
    ELSE BadRequest

HtmlValidatorRoute(body, upstream) ==
    IF "url" \in body.fields THEN Relay("html-validator", {"url"}, upstream, 15)
    ELSE BadRequest

MetaTagsRoute(body, upstream) ==
    IF "url" \in body.fields THEN Relay("meta-tags", {"url"}, upstream, 15)
    ELSE BadRequest

RedirectChainRoute(body, upstream) ==
    IF "url" \in body.fields THEN Relay("http-status", {"url"}, upstream, 15)
    ELSE BadRequest

SecurityHeadersRoute(body, upstream) ==
    IF "url" \in body.fields THEN Relay("security-headers", {"url"}, upstream, 15)
    ELSE BadRequest

SerpPreviewRoute(body, upstream) ==
    IF "url" \in body.fields THEN Relay("serp-preview", {"url"}, upstream, 15)
    ELSE BadRequest

SocialPreviewRoute(body, upstream) ==
    IF "url" \in body.fields THEN Relay("social-preview", {"url"}, upstream, 15)
    ELSE BadRequest

StructuredDataRoute(body, upstream) ==
    IF "url" \in body.fields THEN Relay("structured-data", {"url"}, upstream, 15)
    ELSE BadRequest

FaviconRoute(body, upstream) ==
    IF "url" \in body.fields THEN Relay("favicon", {"url"}, upstream, 20)
    ELSE BadRequest

ImagePerformanceRoute(body, upstream) ==
    IF "url" \in body.fields THEN Relay("image-performance", {"url"}, upstream, 20)
    ELSE BadRequest

ImageSeoRoute(body, upstream) ==
    IF "url" \in body.fields THEN Relay("image-seo", {"url"}, upstream, 20)
    ELSE BadRequest

PageWeightRoute(body, upstream) ==
    IF "url" \in body.fields THEN Relay("page-weight", {"url"}, upstream, 20)
    ELSE BadRequest

BrokenImagesRoute(body, upstream) ==
    IF "url" \in body.fields THEN Relay("broken-images", {"url"}, upstream, 25)
    ELSE BadRequest

BrokenLinksRoute(body, upstream) ==
    IF "url" \in body.fields THEN Relay("broken-links", {"url"}, upstream, 25)
    ELSE BadRequest

HeadingStructureRoute(body, upstream) ==
    IF "url" \in body.fields THEN Relay("heading-structure", {"url"}, upstream, 25)
    ELSE BadRequest

HreflangRoute(body, upstream) ==
    IF "url" \in body.fields THEN Relay("hreflang", {"url"}, upstream, 25)
    ELSE BadRequest

IndexabilityRoute(body, upstream) ==
    IF "url" \in body.fields THEN Relay("indexability", {"url"}, upstream, 25)
    ELSE BadRequest

KeywordDensityRoute(body, upstream) ==
    IF "url" \in body.fields THEN Relay("keyword-density", {"url"}, upstream, 25)
    ELSE BadRequest

LinkAnalyzerRoute(body, upstream) ==
    IF "url" \in body.fields THEN Relay("link-analyzer", {"url"}, upstream, 25)
    ELSE BadRequest

ReadabilityRoute(body, upstream) ==
    IF "url" \in body.fields THEN Relay("readability", {"url"}, upstream, 25)
    ELSE BadRequest

TechnologyRoute(body, upstream) ==
    IF "url" \in body.fields THEN Relay("technology-detector", {"url"}, upstream, 25)
    ELSE BadRequest

RobotsTxtRoute(body, upstream) ==
    IF "url" \in body.fields
    THEN Relay("robots-txt", body.fields \cap {"url", "user_agent"}, upstream, 15)
    ELSE BadRequest

SitemapRoute(body, upstream) ==
    IF "url" \in body.fields
    THEN Relay("sitemap", body.fields \cap {"url", "target_url"}, upstream, 15)
    ELSE BadRequest

\* A strategy is "mobile" or "desktop"; any other string is an odd one.
CoreWebVitalsRoute(body, upstream) ==
    IF "url" \in body.fields
    THEN Relay("core-web-vitals", body.fields \cap {"url", "strategy", "odd_strategy"},
               upstream, 45)
    ELSE BadRequest

LighthouseRoute(body, upstream) ==
    IF "url" \in body.fields /\ "odd_strategy" \notin body.fields
    THEN Relay("lighthouse-network", {"url", "strategy"}, upstream, 45)
    ELSE BadRequest

-----------------------------------------------------------------------------
\* Handlers that need a domain, or no more than an object, and pass the body
\* on as it is: an array is an object to them, and theirs to refuse the API's.

DnsLookupRoute(body, upstream) ==
    IF "domain" \in body.fields THEN Relay("dns-lookup", body.fields, upstream, 20)
    ELSE BadRequest

DkimRoute(body, upstream) ==
    IF "domain" \in body.fields THEN Relay("dkim", body.fields, upstream, 20)
    ELSE BadRequest

DmarcRoute(body, upstream) ==
    IF "domain" \in body.fields THEN Relay("dmarc", body.fields, upstream, 20)
    ELSE BadRequest

DnssecRoute(body, upstream) ==
    IF "domain" \in body.fields THEN Relay("dnssec", body.fields, upstream, 20)
    ELSE BadRequest

MxRecordsRoute(body, upstream) ==
    IF "domain" \in body.fields THEN Relay("mx-records", body.fields, upstream, 20)
    ELSE BadRequest

SpfRoute(body, upstream) ==
    IF "domain" \in body.fields THEN Relay("spf", body.fields, upstream, 20)
    ELSE BadRequest

CookiePolicyRoute(body, upstream) ==
    IF body.object THEN Relay("cookie-policy", body.fields, upstream, 20)
    ELSE BadRequest

CorsRoute(body, upstream) ==
    IF body.object THEN Relay("cors", body.fields, upstream, 20)
    ELSE BadRequest

HttpCompressionRoute(body, upstream) ==
    IF body.object THEN Relay("http-compression", body.fields, upstream, 20)
    ELSE BadRequest

HttpHeadersRoute(body, upstream) ==
    IF body.object THEN Relay("http-headers", body.fields, upstream, 20)
    ELSE BadRequest

HttpProtocolRoute(body, upstream) ==
    IF body.object THEN Relay("http-protocol", body.fields, upstream, 20)
    ELSE BadRequest

MixedContentRoute(body, upstream) ==
    IF body.object THEN Relay("mixed-content", body.fields, upstream, 20)
    ELSE BadRequest

ServerTimingRoute(body, upstream) ==
    IF body.object THEN Relay("server-timing", body.fields, upstream, 20)
    ELSE BadRequest

SslCertificateRoute(body, upstream) ==
    IF body.object THEN Relay("ssl-certificate", body.fields, upstream, 20)
    ELSE BadRequest

TlsConfigurationRoute(body, upstream) ==
    IF body.object THEN Relay("tls-configuration", body.fields, upstream, 20)
    ELSE BadRequest

-----------------------------------------------------------------------------
(***************************************************************************)
(* createAccessibilityStaticProxy and its like, and the handlers they are  *)
(* for: the values are parsed again, by the function the form uses.        *)
(***************************************************************************)
AccessibilityProxy(endpoint, body, upstream) ==
    IF "url" \in body.fields THEN Relay(endpoint, {"url"}, upstream, 20)
    ELSE BadRequest

LandmarkStructureRoute(body, upstream) == AccessibilityProxy("landmark-structure", body, upstream)
FormAccessibilityRoute(body, upstream) == AccessibilityProxy("form-accessibility", body, upstream)
InteractiveNamesRoute(body, upstream) == AccessibilityProxy("interactive-accessible-names", body, upstream)

AssetDeliveryProxy(endpoint, body, upstream) ==
    IF "url" \in body.fields THEN Relay(endpoint, {"url"}, upstream, 30)
    ELSE BadRequest

JavascriptBundleRoute(body, upstream) == AssetDeliveryProxy("javascript-bundle-surface", body, upstream)
CssDeliveryRoute(body, upstream) == AssetDeliveryProxy("css-delivery", body, upstream)
FontLoadingRoute(body, upstream) == AssetDeliveryProxy("font-loading", body, upstream)

ClientDeliveryProxy(endpoint, body, upstream) ==
    IF "url" \in body.fields THEN Relay(endpoint, {"url"}, upstream, 20)
    ELSE BadRequest

CspRoute(body, upstream) == ClientDeliveryProxy("csp", body, upstream)
ThirdPartyScriptsRoute(body, upstream) == ClientDeliveryProxy("third-party-scripts", body, upstream)
ResourceHintsRoute(body, upstream) == ClientDeliveryProxy("resource-hints", body, upstream)

\* sanitizePayload keeps the fields its kind of lookup takes.
IntelligenceProxy(endpoint, wanted, body, upstream) ==
    IF wanted \subseteq body.fields THEN Relay(endpoint, wanted, upstream, 20)
    ELSE BadRequest

DomainRdapRoute(body, upstream) ==
    IntelligenceProxy("domain-rdap", {"domain"}, body, upstream)
IpRdapRoute(body, upstream) ==
    IntelligenceProxy("ip-rdap", {"ip"}, body, upstream)
ResolverComparisonRoute(body, upstream) ==
    IntelligenceProxy("dns-resolver-comparison", {"domain", "record_type"}, body, upstream)

\* 1 to 25 entries, each normalised.
RedirectMapRoute(body, upstream) ==
    IF "entries" \in body.fields THEN Relay("redirect-map", {"entries"}, upstream, 45)
    ELSE BadRequest

-----------------------------------------------------------------------------
(***************************************************************************)
(* The two with a body of their own.  The bulk check takes nothing but 1   *)
(* to 50 URLs of at most 2048 characters, and an error that is no JSON for *)
(* an error.                                                               *)
(***************************************************************************)
BulkStatusRoute(body, upstream) ==
    IF body.fields # {"urls"} THEN BadRequest
    ELSE IF upstream.status = "error" /\ upstream.says = "noise" /\ upstream.after < 20
      THEN Failure("tool_api_error")
    ELSE Relay("http-status/bulk", {"urls"}, upstream, 20)

\* The audits route tries a second address of the API when the first is not
\* the API's; upstream is what the last one tried did, from the start on.
AuditsRoute(body, upstream) ==
    IF "url" \notin body.fields THEN Failure("audit_bad_request")
    ELSE IF upstream.after >= 45 THEN Failure("audit_api_timeout")
    ELSE IF upstream.status = "down" THEN Failure("audit_api_unavailable")
    ELSE IF upstream.status = "error" /\ upstream.says = "error payload"
      THEN Failure("refusal")
    ELSE IF upstream.status = "ok" /\ upstream.says = "audits"
      THEN [code |-> "result", of |-> "audits", about |-> {"url"}]
    ELSE Failure("audit_api_invalid_response")

-----------------------------------------------------------------------------
\* The route a form posts to is found by its path.
Posted(path, body, upstream) ==
    CASE path = "cache-policy" -> CachePolicyRoute(body, upstream)
      [] path = "canonical" -> CanonicalRoute(body, upstream)
      [] path = "html-validator" -> HtmlValidatorRoute(body, upstream)
      [] path = "meta-tags" -> MetaTagsRoute(body, upstream)
      [] path = "redirect-chain" -> RedirectChainRoute(body, upstream)
      [] path = "security-headers" -> SecurityHeadersRoute(body, upstream)
      [] path = "serp-preview" -> SerpPreviewRoute(body, upstream)
      [] path = "social-preview" -> SocialPreviewRoute(body, upstream)
      [] path = "structured-data" -> StructuredDataRoute(body, upstream)
      [] path = "favicon" -> FaviconRoute(body, upstream)
      [] path = "image-performance" -> ImagePerformanceRoute(body, upstream)
      [] path = "image-seo" -> ImageSeoRoute(body, upstream)
      [] path = "page-weight" -> PageWeightRoute(body, upstream)
      [] path = "broken-images" -> BrokenImagesRoute(body, upstream)
      [] path = "broken-links" -> BrokenLinksRoute(body, upstream)
      [] path = "heading-structure" -> HeadingStructureRoute(body, upstream)
      [] path = "hreflang" -> HreflangRoute(body, upstream)
      [] path = "indexability" -> IndexabilityRoute(body, upstream)
      [] path = "keyword-density" -> KeywordDensityRoute(body, upstream)
      [] path = "link-analyzer" -> LinkAnalyzerRoute(body, upstream)
      [] path = "readability" -> ReadabilityRoute(body, upstream)
      [] path = "technology-detector" -> TechnologyRoute(body, upstream)
      [] path = "robots-txt" -> RobotsTxtRoute(body, upstream)
      [] path = "sitemap" -> SitemapRoute(body, upstream)
      [] path = "core-web-vitals" -> CoreWebVitalsRoute(body, upstream)
      [] path = "lighthouse-network" -> LighthouseRoute(body, upstream)
      [] path = "dns-lookup" -> DnsLookupRoute(body, upstream)
      [] path = "dkim" -> DkimRoute(body, upstream)
      [] path = "dmarc" -> DmarcRoute(body, upstream)
      [] path = "dnssec" -> DnssecRoute(body, upstream)
      [] path = "mx-records" -> MxRecordsRoute(body, upstream)
      [] path = "spf" -> SpfRoute(body, upstream)
      [] path = "cookie-policy" -> CookiePolicyRoute(body, upstream)
      [] path = "cors" -> CorsRoute(body, upstream)
      [] path = "http-compression" -> HttpCompressionRoute(body, upstream)
      [] path = "http-headers" -> HttpHeadersRoute(body, upstream)
      [] path = "http-protocol" -> HttpProtocolRoute(body, upstream)
      [] path = "mixed-content" -> MixedContentRoute(body, upstream)
      [] path = "server-timing" -> ServerTimingRoute(body, upstream)
      [] path = "ssl-certificate" -> SslCertificateRoute(body, upstream)
      [] path = "tls-configuration" -> TlsConfigurationRoute(body, upstream)
      [] path = "landmark-structure" -> LandmarkStructureRoute(body, upstream)
      [] path = "form-accessibility" -> FormAccessibilityRoute(body, upstream)
      [] path = "interactive-accessible-names" -> InteractiveNamesRoute(body, upstream)
      [] path = "javascript-bundle-surface" -> JavascriptBundleRoute(body, upstream)
      [] path = "css-delivery" -> CssDeliveryRoute(body, upstream)
      [] path = "font-loading" -> FontLoadingRoute(body, upstream)
      [] path = "csp" -> CspRoute(body, upstream)
      [] path = "third-party-scripts" -> ThirdPartyScriptsRoute(body, upstream)
      [] path = "resource-hints" -> ResourceHintsRoute(body, upstream)
      [] path = "domain-rdap" -> DomainRdapRoute(body, upstream)
      [] path = "ip-rdap" -> IpRdapRoute(body, upstream)
      [] path = "dns-resolver-comparison" -> ResolverComparisonRoute(body, upstream)
      [] path = "redirect-map" -> RedirectMapRoute(body, upstream)
      [] path = "bulk-http-status" -> BulkStatusRoute(body, upstream)
      [] path = "audits" -> AuditsRoute(body, upstream)
=============================================================================
