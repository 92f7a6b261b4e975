------------------------- MODULE ToolRequests_proofs -------------------------
(***************************************************************************)
(* Theorems about the forms of the server tools and the routes they post   *)
(* to, for any latencies of the API and any number of requests.            *)
(***************************************************************************)
EXTENDS ToolRequests, TLAPS

-----------------------------------------------------------------------------
(***************************************************************************)
(* Routes.                                                                 *)
(***************************************************************************)

\* Every path has the route that was written for it.
LEMMA PostedArms ==
    ASSUME NEW b, NEW u
    PROVE  /\ Posted("cache-policy", b, u) = CachePolicyRoute(b, u)
           /\ Posted("canonical", b, u) = CanonicalRoute(b, u)
           /\ Posted("html-validator", b, u) = HtmlValidatorRoute(b, u)
           /\ Posted("meta-tags", b, u) = MetaTagsRoute(b, u)
           /\ Posted("redirect-chain", b, u) = RedirectChainRoute(b, u)
           /\ Posted("security-headers", b, u) = SecurityHeadersRoute(b, u)
           /\ Posted("serp-preview", b, u) = SerpPreviewRoute(b, u)
           /\ Posted("social-preview", b, u) = SocialPreviewRoute(b, u)
           /\ Posted("structured-data", b, u) = StructuredDataRoute(b, u)
           /\ Posted("favicon", b, u) = FaviconRoute(b, u)
           /\ Posted("image-performance", b, u) = ImagePerformanceRoute(b, u)
           /\ Posted("image-seo", b, u) = ImageSeoRoute(b, u)
           /\ Posted("page-weight", b, u) = PageWeightRoute(b, u)
           /\ Posted("broken-images", b, u) = BrokenImagesRoute(b, u)
           /\ Posted("broken-links", b, u) = BrokenLinksRoute(b, u)
           /\ Posted("heading-structure", b, u) = HeadingStructureRoute(b, u)
           /\ Posted("hreflang", b, u) = HreflangRoute(b, u)
           /\ Posted("indexability", b, u) = IndexabilityRoute(b, u)
           /\ Posted("keyword-density", b, u) = KeywordDensityRoute(b, u)
           /\ Posted("link-analyzer", b, u) = LinkAnalyzerRoute(b, u)
           /\ Posted("readability", b, u) = ReadabilityRoute(b, u)
           /\ Posted("technology-detector", b, u) = TechnologyRoute(b, u)
           /\ Posted("robots-txt", b, u) = RobotsTxtRoute(b, u)
           /\ Posted("sitemap", b, u) = SitemapRoute(b, u)
           /\ Posted("core-web-vitals", b, u) = CoreWebVitalsRoute(b, u)
           /\ Posted("lighthouse-network", b, u) = LighthouseRoute(b, u)
           /\ Posted("dns-lookup", b, u) = DnsLookupRoute(b, u)
           /\ Posted("dkim", b, u) = DkimRoute(b, u)
           /\ Posted("dmarc", b, u) = DmarcRoute(b, u)
           /\ Posted("dnssec", b, u) = DnssecRoute(b, u)
           /\ Posted("mx-records", b, u) = MxRecordsRoute(b, u)
           /\ Posted("spf", b, u) = SpfRoute(b, u)
           /\ Posted("cookie-policy", b, u) = CookiePolicyRoute(b, u)
           /\ Posted("cors", b, u) = CorsRoute(b, u)
           /\ Posted("http-compression", b, u) = HttpCompressionRoute(b, u)
           /\ Posted("http-headers", b, u) = HttpHeadersRoute(b, u)
           /\ Posted("http-protocol", b, u) = HttpProtocolRoute(b, u)
           /\ Posted("mixed-content", b, u) = MixedContentRoute(b, u)
           /\ Posted("server-timing", b, u) = ServerTimingRoute(b, u)
           /\ Posted("ssl-certificate", b, u) = SslCertificateRoute(b, u)
           /\ Posted("tls-configuration", b, u) = TlsConfigurationRoute(b, u)
           /\ Posted("landmark-structure", b, u) = LandmarkStructureRoute(b, u)
           /\ Posted("form-accessibility", b, u) = FormAccessibilityRoute(b, u)
           /\ Posted("interactive-accessible-names", b, u) = InteractiveNamesRoute(b, u)
           /\ Posted("javascript-bundle-surface", b, u) = JavascriptBundleRoute(b, u)
           /\ Posted("css-delivery", b, u) = CssDeliveryRoute(b, u)
           /\ Posted("font-loading", b, u) = FontLoadingRoute(b, u)
           /\ Posted("csp", b, u) = CspRoute(b, u)
           /\ Posted("third-party-scripts", b, u) = ThirdPartyScriptsRoute(b, u)
           /\ Posted("resource-hints", b, u) = ResourceHintsRoute(b, u)
           /\ Posted("domain-rdap", b, u) = DomainRdapRoute(b, u)
           /\ Posted("ip-rdap", b, u) = IpRdapRoute(b, u)
           /\ Posted("dns-resolver-comparison", b, u) = ResolverComparisonRoute(b, u)
           /\ Posted("redirect-map", b, u) = RedirectMapRoute(b, u)
           /\ Posted("bulk-http-status", b, u) = BulkStatusRoute(b, u)
           /\ Posted("audits", b, u) = AuditsRoute(b, u)
BY DEF Posted

\* What a reply is worth to a form that sent this along this path: a result
\* keeps the contract of the path and is about all that was sent; no body is
\* refused but that of URLs that grew; the bulk check is not timed out.
Serves(path, sends, r) ==
    /\ r.code # "none"
    /\ r.code = "result" => r.of = Contract(path) /\ r.about = sends
    /\ r.code \in {"tool_bad_request", "audit_bad_request"} => sends = {"long_urls"}
    /\ r.code = "tool_api_timeout" => path # "bulk-http-status"

Sent(sends) == [object |-> TRUE, fields |-> sends]

LEMMA FailureIs == \A code : Failure(code).code = code
BY DEF Failure, NoReply

LEMMA RelayCases ==
    ASSUME NEW endpoint, NEW about, NEW u, NEW limit
    PROVE  \/ Relay(endpoint, about, u, limit)
                = [code |-> "result", of |-> endpoint, about |-> about]
           \/ Relay(endpoint, about, u, limit) = Failure("tool_api_unavailable")
           \/ Relay(endpoint, about, u, limit) = Failure("tool_api_invalid_response")
           \/ Relay(endpoint, about, u, limit) = Failure("refusal")
           \/ Relay(endpoint, about, u, limit) = Failure("tool_api_error")
           \/ /\ Relay(endpoint, about, u, limit) = Failure("tool_api_timeout")
              /\ u.after >= limit
BY Zenon DEF Relay

\* Failures other than a timeout and a refusal of the body are for any form.
LEMMA FailureServes ==
    ASSUME NEW path, NEW sends,
           NEW code \in {"tool_api_unavailable", "tool_api_invalid_response",
                        "refusal", "tool_api_error", "lost", "audit_api_timeout",
                        "audit_api_unavailable", "audit_api_invalid_response"}
    PROVE  Serves(path, sends, Failure(code))
BY FailureIs DEF Serves

LEMMA ResultServes ==
    ASSUME NEW path, NEW sends
    PROVE  Serves(path, sends, [code |-> "result", of |-> Contract(path), about |-> sends])
BY DEF Serves

\* A route that relays what was sent serves the form.
LEMMA RelayServes ==
    ASSUME NEW path, NEW sends, NEW u, NEW limit,
           path # "bulk-http-status" \/ ~(u.after >= limit)
    PROVE  Serves(path, sends, Relay(Contract(path), sends, u, limit))
<1>1. CASE Relay(Contract(path), sends, u, limit) = Failure("tool_api_timeout")
           /\ path # "bulk-http-status"
  BY <1>1, FailureIs DEF Serves
<1>2. QED
  BY <1>1, RelayCases, FailureServes, ResultServes

LEMMA SentIs == \A sends : Sent(sends).object = TRUE /\ Sent(sends).fields = sends
BY DEF Sent

LEMMA ContractIs ==
    /\ Contract("redirect-chain") = "http-status"
    /\ Contract("bulk-http-status") = "http-status/bulk"
    /\ \A path : path \notin {"redirect-chain", "bulk-http-status"} => Contract(path) = path
BY DEF Contract

(***************************************************************************)
(* The routes by what they are sent and how long they wait.                *)
(***************************************************************************)
LEMMA UrlRoutes15 ==
    ASSUME NEW u,
           NEW path \in {"cache-policy", "canonical", "html-validator", "meta-tags",
                        "redirect-chain", "security-headers", "serp-preview",
                        "social-preview", "structured-data", "sitemap"}
    PROVE  Serves(path, {"url"}, Posted(path, Sent({"url"}), u))
<1>1. {"url"} \cap {"url", "target_url"} = {"url"}
  OBVIOUS
<1>2. Posted(path, Sent({"url"}), u) = Relay(Contract(path), {"url"}, u, 15)
  BY <1>1, PostedArms, ContractIs
  DEF Sent, CachePolicyRoute, CanonicalRoute, HtmlValidatorRoute, MetaTagsRoute,
      RedirectChainRoute, SecurityHeadersRoute, SerpPreviewRoute,
      SocialPreviewRoute, StructuredDataRoute, SitemapRoute
<1>3. QED
  BY <1>2, RelayServes

LEMMA UrlRoutes20 ==
    ASSUME NEW u,
           NEW path \in {"favicon", "image-performance", "image-seo", "page-weight",
                        "cookie-policy", "http-compression", "http-headers",
                        "http-protocol", "mixed-content", "server-timing",
                        "landmark-structure", "form-accessibility",
                        "interactive-accessible-names", "csp",
                        "third-party-scripts", "resource-hints"}
    PROVE  Serves(path, {"url"}, Posted(path, Sent({"url"}), u))
<1>1. Posted(path, Sent({"url"}), u) = Relay(Contract(path), {"url"}, u, 20)
  BY PostedArms, ContractIs
  DEF Sent, FaviconRoute, ImagePerformanceRoute, ImageSeoRoute, PageWeightRoute,
      CookiePolicyRoute, HttpCompressionRoute, HttpHeadersRoute,
      HttpProtocolRoute, MixedContentRoute, ServerTimingRoute,
      LandmarkStructureRoute, FormAccessibilityRoute, InteractiveNamesRoute,
      CspRoute, ThirdPartyScriptsRoute, ResourceHintsRoute, AccessibilityProxy,
      ClientDeliveryProxy
<1>2. QED
  BY <1>1, RelayServes

LEMMA UrlRoutes25 ==
    ASSUME NEW u,
           NEW path \in {"broken-images", "broken-links", "heading-structure",
                        "hreflang", "indexability", "keyword-density",
                        "link-analyzer", "readability", "technology-detector"}
    PROVE  Serves(path, {"url"}, Posted(path, Sent({"url"}), u))
<1>1. Posted(path, Sent({"url"}), u) = Relay(Contract(path), {"url"}, u, 25)
  BY PostedArms, ContractIs
  DEF Sent, BrokenImagesRoute, BrokenLinksRoute, HeadingStructureRoute,
      HreflangRoute, IndexabilityRoute, KeywordDensityRoute, LinkAnalyzerRoute,
      ReadabilityRoute, TechnologyRoute
<1>2. QED
  BY <1>1, RelayServes

LEMMA UrlRoutes30 ==
    ASSUME NEW u,
           NEW path \in {"javascript-bundle-surface", "css-delivery", "font-loading"}
    PROVE  Serves(path, {"url"}, Posted(path, Sent({"url"}), u))
<1>1. Posted(path, Sent({"url"}), u) = Relay(Contract(path), {"url"}, u, 30)
  BY PostedArms, ContractIs
  DEF Sent, JavascriptBundleRoute, CssDeliveryRoute, FontLoadingRoute,
      AssetDeliveryProxy
<1>2. QED
  BY <1>1, RelayServes

\* Routes that pass more than a URL on, as far as the form sends it.
LEMMA UrlAndMoreRoutes ==
    ASSUME NEW u
    PROVE  /\ LET sends == {"url", "user_agent"} IN
              Serves("robots-txt", sends, Posted("robots-txt", Sent(sends), u))
           /\ LET sends == {"url", "target_url"} IN
              Serves("sitemap", sends, Posted("sitemap", Sent(sends), u))
           /\ LET sends == {"url", "strategy"} IN
              Serves("core-web-vitals", sends, Posted("core-web-vitals", Sent(sends), u))
           /\ LET sends == {"url", "odd_strategy"} IN
              Serves("core-web-vitals", sends, Posted("core-web-vitals", Sent(sends), u))
           /\ LET sends == {"url", "strategy"} IN
              Serves("lighthouse-network", sends,
                     Posted("lighthouse-network", Sent(sends), u))
           /\ LET sends == {"url", "origin"} IN
              Serves("cors", sends, Posted("cors", Sent(sends), u))
<1>1. /\ {"url", "user_agent"} \cap {"url", "user_agent"} = {"url", "user_agent"}
      /\ {"url", "target_url"} \cap {"url", "target_url"} = {"url", "target_url"}
      /\ {"url", "strategy"} \cap {"url", "strategy", "odd_strategy"}
           = {"url", "strategy"}
      /\ {"url", "odd_strategy"} \cap {"url", "strategy", "odd_strategy"}
           = {"url", "odd_strategy"}
  OBVIOUS
<1>2. /\ LET sends == {"url", "user_agent"} IN
         Posted("robots-txt", Sent(sends), u)
           = Relay(Contract("robots-txt"), sends, u, 15)
      /\ LET sends == {"url", "target_url"} IN
         Posted("sitemap", Sent(sends), u) = Relay(Contract("sitemap"), sends, u, 15)
  <2>1. Contract("robots-txt") = "robots-txt" /\ Contract("sitemap") = "sitemap"
    BY ContractIs
  <2>2. /\ "url" \in {"url", "user_agent"}
        /\ "url" \in {"url", "target_url"}
    OBVIOUS
  <2>3. /\ Posted("robots-txt", Sent({"url", "user_agent"}), u)
             = RobotsTxtRoute(Sent({"url", "user_agent"}), u)
        /\ Posted("sitemap", Sent({"url", "target_url"}), u)
             = SitemapRoute(Sent({"url", "target_url"}), u)
    BY PostedArms
  <2>4. RobotsTxtRoute(Sent({"url", "user_agent"}), u)
          = Relay("robots-txt", {"url", "user_agent"}, u, 15)
    BY <1>1, <2>2, SentIs DEF RobotsTxtRoute
  <2>5. SitemapRoute(Sent({"url", "target_url"}), u)
          = Relay("sitemap", {"url", "target_url"}, u, 15)
    BY <1>1, <2>2, SentIs DEF SitemapRoute
  <2>6. QED
    BY <2>1, <2>3, <2>4, <2>5
<1>3. /\ LET sends == {"url", "strategy"} IN
         Posted("core-web-vitals", Sent(sends), u)
           = Relay(Contract("core-web-vitals"), sends, u, 45)
      /\ LET sends == {"url", "odd_strategy"} IN
         Posted("core-web-vitals", Sent(sends), u)
           = Relay(Contract("core-web-vitals"), sends, u, 45)
  BY <1>1, PostedArms, ContractIs DEF Sent, CoreWebVitalsRoute
<1>4. /\ LET sends == {"url", "strategy"} IN
         Posted("lighthouse-network", Sent(sends), u)
           = Relay(Contract("lighthouse-network"), sends, u, 45)
      /\ LET sends == {"url", "origin"} IN
         Posted("cors", Sent(sends), u) = Relay(Contract("cors"), sends, u, 20)
  <2>1. Contract("lighthouse-network") = "lighthouse-network" /\ Contract("cors") = "cors"
    BY ContractIs
  <2>2. "url" \in {"url", "strategy"} /\ "odd_strategy" \notin {"url", "strategy"}
    OBVIOUS
  <2>3. QED
    BY <2>1, <2>2, PostedArms, SentIs DEF LighthouseRoute, CorsRoute
<1>5. QED
  BY <1>2, <1>3, <1>4, RelayServes

\* Routes that need no URL.
LEMMA NameRoutes ==
    ASSUME NEW u
    PROVE  /\ \A path \in {"dns-lookup", "mx-records", "spf", "dmarc", "dnssec",
                           "domain-rdap"} :
                Serves(path, {"domain"}, Posted(path, Sent({"domain"}), u))
           /\ LET sends == {"domain", "selector"} IN
              Serves("dkim", sends, Posted("dkim", Sent(sends), u))
           /\ \A path \in {"ssl-certificate", "tls-configuration"} :
                LET sends == {"hostname", "port"} IN
                Serves(path, sends, Posted(path, Sent(sends), u))
           /\ Serves("ip-rdap", {"ip"}, Posted("ip-rdap", Sent({"ip"}), u))
           /\ LET sends == {"domain", "record_type"} IN
              Serves("dns-resolver-comparison", sends,
                     Posted("dns-resolver-comparison", Sent(sends), u))
           /\ Serves("redirect-map", {"entries"},
                     Posted("redirect-map", Sent({"entries"}), u))
<1>1. \A path \in {"dns-lookup", "mx-records", "spf", "dmarc", "dnssec",
                   "domain-rdap"} :
        Posted(path, Sent({"domain"}), u) = Relay(Contract(path), {"domain"}, u, 20)
  BY PostedArms, ContractIs
  DEF Sent, DnsLookupRoute, MxRecordsRoute, SpfRoute, DmarcRoute, DnssecRoute,
      DomainRdapRoute, IntelligenceProxy
<1>2. LET sends == {"domain", "selector"} IN
      Posted("dkim", Sent(sends), u) = Relay(Contract("dkim"), sends, u, 20)
  <2>1. Contract("dkim") = "dkim"
    BY ContractIs
  <2>2. "domain" \in {"domain", "selector"}
    OBVIOUS
  <2>3. QED
    BY <2>1, <2>2, PostedArms, SentIs DEF DkimRoute
<1>3. \A path \in {"ssl-certificate", "tls-configuration"} :
        LET sends == {"hostname", "port"} IN
        Posted(path, Sent(sends), u) = Relay(Contract(path), sends, u, 20)
  BY PostedArms, ContractIs DEF Sent, SslCertificateRoute, TlsConfigurationRoute
<1>4. /\ Posted("ip-rdap", Sent({"ip"}), u) = Relay(Contract("ip-rdap"), {"ip"}, u, 20)
      /\ LET sends == {"domain", "record_type"} IN
         Posted("dns-resolver-comparison", Sent(sends), u)
           = Relay(Contract("dns-resolver-comparison"), sends, u, 20)
  BY PostedArms, ContractIs
  DEF Sent, IpRdapRoute, ResolverComparisonRoute, IntelligenceProxy
<1>5. Posted("redirect-map", Sent({"entries"}), u)
        = Relay(Contract("redirect-map"), {"entries"}, u, 45)
  BY PostedArms, ContractIs DEF Sent, RedirectMapRoute
<1>6. QED
  BY <1>1, <1>2, <1>3, <1>4, <1>5, RelayServes

\* The bulk check, whose answers come before the route gives up, and audits.
LEMMA OwnBodyRoutes ==
    ASSUME NEW u, u.after \in Nat
    PROVE  /\ u.after <= BulkDeadline =>
                /\ Serves("bulk-http-status", {"urls"},
                          Posted("bulk-http-status", Sent({"urls"}), u))
                /\ Serves("bulk-http-status", {"long_urls"},
                          Posted("bulk-http-status", Sent({"long_urls"}), u))
           /\ Serves("audits", {"url"}, Posted("audits", Sent({"url"}), u))
<1>1. ASSUME u.after <= BulkDeadline
      PROVE  Serves("bulk-http-status", {"urls"},
                    Posted("bulk-http-status", Sent({"urls"}), u))
  <2>1. /\ u.after <= 15 /\ ~(u.after >= 20)
        /\ Posted("bulk-http-status", Sent({"urls"}), u)
             = BulkStatusRoute(Sent({"urls"}), u)
    BY <1>1, PostedArms DEF BulkDeadline
  <2>2. \/ Posted("bulk-http-status", Sent({"urls"}), u) = Failure("tool_api_error")
        \/ Posted("bulk-http-status", Sent({"urls"}), u)
             = Relay(Contract("bulk-http-status"), {"urls"}, u, 20)
    BY <2>1, ContractIs, SentIs DEF BulkStatusRoute
  <2>3. QED
    BY <2>1, <2>2, FailureServes, RelayServes
<1>2. Serves("bulk-http-status", {"long_urls"},
             Posted("bulk-http-status", Sent({"long_urls"}), u))
  <2>1. "long_urls" \in {"long_urls"} /\ "long_urls" \notin {"urls"}
    OBVIOUS
  <2>2. Posted("bulk-http-status", Sent({"long_urls"}), u) = BadRequest
    BY <2>1, PostedArms DEF Sent, BulkStatusRoute
  <2>3. QED
    BY <2>2, FailureIs DEF BadRequest, Serves
<1>3. Serves("audits", {"url"}, Posted("audits", Sent({"url"}), u))
  <2>1. /\ Posted("audits", Sent({"url"}), u) = AuditsRoute(Sent({"url"}), u)
        /\ Contract("audits") = "audits" /\ "url" \in {"url"}
    BY PostedArms, ContractIs
  <2>2. \/ AuditsRoute(Sent({"url"}), u) = Failure("audit_api_timeout")
        \/ AuditsRoute(Sent({"url"}), u) = Failure("audit_api_unavailable")
        \/ AuditsRoute(Sent({"url"}), u) = Failure("refusal")
        \/ AuditsRoute(Sent({"url"}), u) = Failure("audit_api_invalid_response")
        \/ AuditsRoute(Sent({"url"}), u)
             = [code |-> "result", of |-> "audits", about |-> {"url"}]
    BY <2>1, SentIs, Zenon DEF AuditsRoute
  <2>3. QED
    BY <2>1, <2>2, FailureServes, ResultServes
<1>4. QED
  BY <1>1, <1>2, <1>3

-----------------------------------------------------------------------------
(***************************************************************************)
(* The tools, family by family.                                            *)
(***************************************************************************)
LEMMA OnIs ==
    ASSUME NEW form, NEW sends, NEW paths, NEW t \in On(form, sends, paths)
    PROVE  t.form = form /\ t.sends = sends /\ t.path \in paths
BY DEF On

\* Whatever the API does, the route a form posts to serves it: it drops nothing
\* of what the form sent, refuses no body of its (but URLs that grew), replies
\* with a result of the form's own contract, and does not time the bulk check
\* out (the POST handlers under app/api, as the forms call them).
THEOREM RoutesServeForms ==
    ASSUME NEW t \in Tools, NEW u \in Upstreams(t.path), Keeps(t.path, u.after)
    PROVE  Serves(t.path, t.sends, Posted(t.path, Body(t), u))
<1>1. u.after \in Nat /\ (t.path = "bulk-http-status" => u.after <= BulkDeadline)
  <2>1. u.after \in Latencies
    BY DEF Upstreams
  <2>2. u.after \in Nat
    BY <2>1, ToolAssumption
  <2>3. t.path = "bulk-http-status" => Deadline(t.path) = 15
    BY DEF Deadline, BulkDeadline
  <2>4. QED
    BY <2>2, <2>3 DEF Keeps, BulkDeadline
<1> SUFFICES Serves(t.path, t.sends, Posted(t.path, Sent(t.sends), u))
  BY DEF Body, Sent
<1>2. CASE t \in CanonicalTools \/ t \in RedirectChainTools \/ t \in SecurityHeadersTools
           \/ t \in MetadataTools \/ t \in MarkupTools
  <2>1. t.sends = {"url"} /\ t.path \in {"canonical", "redirect-chain",
          "security-headers", "meta-tags", "serp-preview", "social-preview",
          "html-validator", "structured-data"}
    BY <1>2, OnIs
    DEF CanonicalTools, RedirectChainTools, SecurityHeadersTools, MetadataTools,
        MarkupTools
  <2>2. QED
    BY <2>1, UrlRoutes15
<1>3. CASE t \in TechnicalSeoTools \/ t \in ContentTools \/ t \in LinkHealthTools
  <2>1. t.sends = {"url"} /\ t.path \in {"hreflang", "indexability",
          "technology-detector", "heading-structure", "keyword-density",
          "readability", "broken-images", "broken-links", "link-analyzer"}
    BY <1>3, OnIs DEF TechnicalSeoTools, ContentTools, LinkHealthTools
  <2>2. QED
    BY <2>1, UrlRoutes25
<1>4. CASE t \in ImageAuditTools \/ t \in AccessibilityTools \/ t \in ClientDeliveryTools
  <2>1. t.sends = {"url"} /\ t.path \in {"favicon", "image-performance", "image-seo",
          "landmark-structure", "form-accessibility",
          "interactive-accessible-names", "csp", "third-party-scripts",
          "resource-hints"}
    BY <1>4, OnIs DEF ImageAuditTools, AccessibilityTools, ClientDeliveryTools
  <2>2. QED
    BY <2>1, UrlRoutes20
<1>5. CASE t \in AssetDeliveryTools
  <2>1. t.sends = {"url"} /\ t.path \in {"javascript-bundle-surface", "css-delivery",
          "font-loading"}
    BY <1>5, OnIs DEF AssetDeliveryTools
  <2>2. QED
    BY <2>1, UrlRoutes30
<1>6. CASE t \in AuditTools
  <2>1. t.sends = {"url"} /\ t.path = "audits"
    BY <1>6, OnIs DEF AuditTools
  <2>2. QED
    BY <1>1, <2>1, OwnBodyRoutes
<1>7. CASE t \in BulkStatusTools
  <2>1. t.path = "bulk-http-status" /\ t.sends \in {{"urls"}, {"long_urls"}}
    BY <1>7, OnIs DEF BulkStatusTools
  <2>2. QED
    BY <1>1, <2>1, OwnBodyRoutes
<1>8. CASE t \in SitemapTools \/ t \in RobotsTxtTools
  <2>1. \/ t.sends = {"url"} /\ t.path = "sitemap"
        \/ t.sends = {"url", "target_url"} /\ t.path = "sitemap"
        \/ t.sends = {"url", "user_agent"} /\ t.path = "robots-txt"
    BY <1>8, OnIs DEF SitemapTools, RobotsTxtTools
  <2>2. QED
    BY <2>1, UrlRoutes15, UrlAndMoreRoutes
<1>9. CASE t \in PerformanceTools
  <2>1. \/ t.sends = {"url"} /\ t.path = "cache-policy"
        \/ t.sends = {"url"} /\ t.path = "page-weight"
        \/ t.sends = {"url", "strategy"} /\ t.path = "core-web-vitals"
        \/ t.sends = {"url", "strategy"} /\ t.path = "lighthouse-network"
        \/ t.sends = {"url", "odd_strategy"} /\ t.path = "core-web-vitals"
    BY <1>9, OnIs DEF PerformanceTools
  <2>2. QED
    BY <2>1, UrlRoutes15, UrlRoutes20, UrlAndMoreRoutes
<1>10. CASE t \in RedirectMapTools
  <2>1. t.sends = {"entries"} /\ t.path = "redirect-map"
    BY <1>10, OnIs DEF RedirectMapTools
  <2>2. QED
    BY <2>1, NameRoutes
<1>11. CASE t \in NetworkDnsTools
  <2>1. \/ t.sends = {"domain"} /\ t.path \in {"dns-lookup", "mx-records", "spf",
                                             "dmarc", "dnssec"}
        \/ t.sends = {"domain", "selector"} /\ t.path = "dkim"
    BY <1>11, OnIs DEF NetworkDnsTools
  <2>2. QED
    BY <2>1, NameRoutes
<1>12. CASE t \in ProtocolTools
  <2>1. \/ t.sends = {"hostname", "port"} /\ t.path \in {"ssl-certificate",
                                                       "tls-configuration"}
        \/ t.sends = {"url", "origin"} /\ t.path = "cors"
        \/ t.sends = {"url"} /\ t.path \in {"cookie-policy", "http-compression",
             "http-headers", "http-protocol", "mixed-content", "server-timing"}
    BY <1>12, OnIs DEF ProtocolTools
  <2>2. QED
    BY <2>1, NameRoutes, UrlAndMoreRoutes, UrlRoutes20
<1>13. CASE t \in IntelligenceTools
  <2>1. \/ t.sends = {"domain"} /\ t.path = "domain-rdap"
        \/ t.sends = {"ip"} /\ t.path = "ip-rdap"
        \/ t.sends = {"domain", "record_type"} /\ t.path = "dns-resolver-comparison"
    BY <1>13, OnIs DEF IntelligenceTools
  <2>2. QED
    BY <2>1, NameRoutes
<1>14. QED
  BY <1>2, <1>3, <1>4, <1>5, <1>6, <1>7, <1>8, <1>9, <1>10, <1>11, <1>12, <1>13
  DEF Tools

\* What may come back to a form.
LEMMA RepliesServe ==
    ASSUME NEW t \in Tools, NEW r \in RepliesOf[t]
    PROVE  Serves(t.path, t.sends, r)
<1>1. CASE r = Failure("lost")
  BY <1>1, FailureServes
<1>2. ASSUME NEW u \in Upstreams(t.path), Keeps(t.path, u.after),
             r = Posted(t.path, Body(t), u)
      PROVE  Serves(t.path, t.sends, r)
  BY <1>2, RoutesServeForms
<1>3. QED
  BY <1>1, <1>2 DEF RepliesOf

-----------------------------------------------------------------------------
(***************************************************************************)
(* Forms.                                                                  *)
(***************************************************************************)

\* A request under way is the last one sent, and no error is shown beside it;
\* a route replies to nothing else.
RequestIsLast ==
    /\ pending # 0 => pending = sent /\ ~failed
    /\ reply # NoReply => pending # 0

\* The parts of FormShowsLastOutcome that are about the form.
OutcomeShown ==
    /\ pending = 0 =>
         CASE last = "answered" -> result = sent /\ ~failed
           [] last = "failed"   -> failed
           [] OTHER             -> result = 0 /\ ~failed
    /\ pending # 0 => result # pending

\* What is proved inductive: the form's state is typed, its request is the
\* last one, and what it shows is what came of the last submit.
ToolInv == ToolTypeOK /\ RequestIsLast /\ OutcomeShown

\* A reply that is there is one of the tool's, so it serves the form.
LEMMA OutcomeParts == ToolInv => FormShowsLastOutcome
<1> SUFFICES ASSUME ToolInv PROVE FormShowsLastOutcome
  OBVIOUS
<1>1. NoReply.code = "none"
  BY DEF NoReply
<1>2. reply = NoReply \/ Serves(tool.path, tool.sends, reply)
  BY RepliesServe DEF ToolInv, ToolTypeOK
<1>3. QED
  BY <1>1, <1>2 DEF ToolInv, FormShowsLastOutcome, OutcomeShown, Serves

LEMMA ToolInitInv == ToolInit => ToolInv
<1> SUFFICES ASSUME ToolInit PROVE ToolInv
  OBVIOUS
<1>1. failed \in BOOLEAN
  BY Zenon DEF ToolInit
<1>2. ToolTypeOK
  BY <1>1, ToolAssumption DEF ToolInit, ToolTypeOK
<1>3. RequestIsLast /\ OutcomeShown
  BY DEF ToolInit, RequestIsLast, OutcomeShown
<1>4. QED
  BY <1>2, <1>3 DEF ToolInv

\* What a step may do to the screen, whichever form it is.
LEMMA ToolStepInv == ToolInv /\ [ToolNext]_toolVars => ToolInv'
<1> SUFFICES ASSUME ToolInv, [ToolNext]_toolVars PROVE ToolInv'
  OBVIOUS
<1>1. CASE RefuseInput
  <2>1. failed' \in BOOLEAN
    BY <1>1, Zenon DEF RefuseInput
  <2>2. result' \in 0 .. sent'
    BY <1>1, ToolAssumption DEF RefuseInput, Unless, ToolInv, ToolTypeOK
  <2>3. ToolTypeOK'
    BY <1>1, <2>1, <2>2 DEF RefuseInput, ToolInv, ToolTypeOK
  <2>4. RequestIsLast' /\ OutcomeShown'
    BY <1>1 DEF RefuseInput, ToolInv, RequestIsLast, OutcomeShown
  <2>5. QED
    BY <2>3, <2>4 DEF ToolInv
<1>2. CASE SubmitTool
  <2>1. failed' \in BOOLEAN
    BY <1>2, Zenon DEF SubmitTool
  <2>2. /\ sent' \in 0 .. MaxRequests /\ pending' \in 0 .. MaxRequests
        /\ sent \in Nat /\ result' \in 0 .. sent
    BY <1>2, ToolAssumption DEF SubmitTool, Unless, ToolInv, ToolTypeOK
  <2>3. ToolTypeOK'
    BY <1>2, <2>1, <2>2 DEF SubmitTool, ToolInv, ToolTypeOK
  <2>4. RequestIsLast'
    BY <1>2, <2>2 DEF SubmitTool, ToolInv, RequestIsLast
  <2>5. OutcomeShown'
    BY <1>2, <2>2 DEF SubmitTool, OutcomeShown
  <2>6. QED
    BY <2>3, <2>4, <2>5 DEF ToolInv
<1>3. CASE EditInput
  <2>1. failed' \in BOOLEAN
    BY <1>3, Zenon DEF EditInput
  <2>2. ToolTypeOK'
    BY <1>3, <2>1, ToolAssumption DEF EditInput, ToolInv, ToolTypeOK
  <2>3. RequestIsLast' /\ OutcomeShown'
    BY <1>3 DEF EditInput, ToolInv, RequestIsLast, OutcomeShown
  <2>4. QED
    BY <2>2, <2>3 DEF ToolInv
<1>4. CASE RouteReplies
  <2>1. ToolTypeOK'
    BY <1>4 DEF RouteReplies, ToolInv, ToolTypeOK
  <2>2. RequestIsLast' /\ OutcomeShown'
    BY <1>4 DEF RouteReplies, ToolInv, RequestIsLast, OutcomeShown
  <2>3. QED
    BY <2>1, <2>2 DEF ToolInv
<1>5. CASE ShowReply
  <2>1. pending = sent /\ pending # 0 /\ sent' = sent /\ pending' = 0 /\ ~failed
    BY <1>5 DEF ShowReply, ToolInv, RequestIsLast
  <2>2. CASE reply.code = "result" /\ reply.of = Contract(tool.path)
    <3>1. /\ result' = sent /\ last' = "answered" /\ failed' = failed
          /\ reply' = NoReply /\ tool' = tool
      BY <1>5, <2>1, <2>2 DEF ShowReply
    <3>2. ToolTypeOK'
      BY <2>1, <3>1, ToolAssumption DEF ToolInv, ToolTypeOK
    <3>3. RequestIsLast' /\ OutcomeShown'
      BY <2>1, <3>1 DEF RequestIsLast, OutcomeShown
    <3>4. QED
      BY <3>2, <3>3 DEF ToolInv
  <2>3. CASE ~(reply.code = "result" /\ reply.of = Contract(tool.path))
    <3>1. /\ last' = "failed" /\ reply' = NoReply /\ tool' = tool
          /\ failed' = TRUE /\ (result' = 0 \/ result' = result)
      BY <1>5, <2>3 DEF ShowReply, Noticed, Unless
    <3>2. failed' \in BOOLEAN
      BY <3>1, Zenon
    <3>3. ToolTypeOK'
      BY <2>1, <3>1, <3>2, ToolAssumption DEF ToolInv, ToolTypeOK
    <3>4. RequestIsLast' /\ OutcomeShown'
      BY <2>1, <3>1 DEF RequestIsLast, OutcomeShown
    <3>5. QED
      BY <3>3, <3>4 DEF ToolInv
  <2>4. QED
    BY <2>2, <2>3
<1>6. CASE UNCHANGED toolVars
  BY <1>6 DEF toolVars, ToolInv, ToolTypeOK, RequestIsLast, OutcomeShown
<1>7. QED
  BY <1>1, <1>2, <1>3, <1>4, <1>5, <1>6 DEF ToolNext

\* Of whatever latencies and however many requests, what a form shows once no
\* request is under way is what came of the last submit, a reply keeps the
\* contract of the tool that asked, and the bulk check is never timed out by
\* its own route (onSubmit of the forms, and the routes they post to).
THEOREM FormsShowLastOutcome == ToolSpec => [](ToolTypeOK /\ FormShowsLastOutcome)
<1>1. ToolInit => ToolInv
  BY ToolInitInv
<1>2. ToolInv /\ [ToolNext]_toolVars => ToolInv'
  BY ToolStepInv
<1>3. ToolInv => ToolTypeOK /\ FormShowsLastOutcome
  BY OutcomeParts DEF ToolInv
<1>4. QED
  BY <1>1, <1>2, <1>3, PTL DEF ToolSpec
=============================================================================
