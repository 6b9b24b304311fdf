---------------------------- MODULE ResourceQueries ----------------------------
(***************************************************************************)
(* sql_templates/chrome_resources.rs: the rows that                        *)
(* chrome_page_load_resource_hotspots, _summary and _pipeline give for a   *)
(* trace, and the probe for evidence of the phases of a request.           *)
(***************************************************************************)
EXTENDS SliceQueries

CONSTANT AncestorDepth    \* how far up the pipeline looks for a resource: 6

ASSUME AncestorAssumption == AncestorDepth \in Nat

\* Names the SQL takes for resources, less the events that only look like it, and what
\* some of them say about a request.
ResourceNames == {"ScheduledResourceRequest", "Resource::Create", "URLLoader::OnReceiveResponse",
                  "Cache::GetResource", "PageLoadMetricsResource"}
NotResources  == {"PageLoadMetricsResource"}
NotDetailed   == {"ScheduledResourceRequest", "Resource::Create", "URLLoader::OnReceiveResponse"}
RequestNames  == {"ScheduledResourceRequest"}
ResultNames   == {"DiskResult"}                           \* with a debug.source
BackgroundParse == {"parseOnBackground"}
Evaluations     == {"EvaluateScript"}
Callbacks       == {"FunctionCall"}
-----------------------------------------------------------------------------
\* chrome_url_arg_priority_expr: how likely an argument is to be the URL of its slice; 99
\* is no URL at all, 90 one that stands for none.
Unisolated == 3
KeyPriority(key) ==
  CASE key = "url"             -> 1
    [] key = "frame.url"       -> 2
    [] key = "site_url"        -> 8
    [] key = "request.0.url"   -> 3
    [] key = "some_url"        -> 5
    [] OTHER                   -> 99
Priority(arg) == IF arg.url = Unisolated THEN 90 ELSE KeyPriority(arg.key)

\* The URL of the likeliest argument, the first of them when there are several.
IsUrl(arg) == Priority(arg) < 99
AnyUrl(s)  == LET own == {a \in s.args : IsUrl(a)} IN IF own = {} THEN None ELSE Min({a.url : a \in own})
SelectedUrl(s) ==
  LET own  == {a \in s.args : IsUrl(a)}
      best == {a \in own : \A b \in own : Priority(a) <= Priority(b)}
  IN  IF own = {} THEN None ELSE Min({a.url : a \in best})

\* chrome_resource_url_key_expr.
At(tokens, t)     == SelectInSeq(tokens, LAMBDA x : x = t)
UpTo(tokens, t)   == IF At(tokens, t) > 0 THEN SubSeq(tokens, 1, At(tokens, t) - 1) ELSE tokens
UrlKey(url, grouping) == IF grouping = "without_query" THEN UpTo(Urls[url], "?") ELSE Urls[url]

\* chrome_resource_url_authority_expr and _origin_expr: whichever separator comes first.
Authority(rest) ==
  LET slash == At(rest, "/")  query == At(rest, "?")  hash == At(rest, "#")
  IN  CASE slash = 0 /\ query = 0 /\ hash = 0 -> rest
        [] slash > 0 /\ (query = 0 \/ slash < query) /\ (hash = 0 \/ slash < hash) -> UpTo(rest, "/")
        [] OTHER -> IF query > 0 /\ (hash = 0 \/ query < hash) THEN UpTo(rest, "?") ELSE UpTo(rest, "#")

Origin(key) ==
  LET i == At(key, "://") IN IF i > 0 THEN SubSeq(key, 1, i) \o Authority(SubSeq(key, i + 1, Len(key))) ELSE <<>>
-----------------------------------------------------------------------------
\* The process of a slice, by whichever of its tracks has one.
ProcessOf(track) ==
  LET own == SelectSeq(<<ThreadProcess[track], TrackProcess[track], ParentThreadProcess[track],
                         ParentTrackProcess[track]>>,
                       LAMBDA p : p # None)
  IN  IF own = <<>> THEN None ELSE Head(own)

InRenderer(track) == ProcessOf(track) # None /\ ProcessName[ProcessOf(track)] = "Renderer"

\* resource_candidates: the slices about resources in the window that name a URL.
Candidates(trace, w, min) ==
  {i \in DOMAIN trace :
     /\ trace[i].name \in ResourceNames \ NotResources
     /\ ResourceTouches(trace[i], w)
     /\ ResourceOverlap(trace[i], w) >= min
     /\ SelectedUrl(trace[i]) # None}

ByOverlap(trace, w, ids) ==
  First([i \in ids |-> <<ResourceOverlap(trace[i], w), trace[i].dur>>])

\* chrome_page_load_resource_hotspots.
ResourcesAllowed(q) == WindowAllowed(q) /\ LimitAllowed(q.limit)

HotspotRows(trace, w, q) ==
  {[id |-> i, overlap |-> ResourceOverlap(trace[i], w), dur |-> trace[i].dur, start |-> trace[i].ts] :
     i \in Candidates(trace, w, q.min)}

HotspotRank(rows) == [r \in rows |-> <<r.overlap, r.dur, -r.start>>]
-----------------------------------------------------------------------------
\* The page load that the resources of the summary are compared with: that of the window,
\* else the ones that were under way in it, else the latest.
Milestones(nav)  == {nav.fcp, nav.dcl, nav.load} \ {None}
ObservedLoad(nav) == IF nav.load = None THEN TraceEnd ELSE nav.load
ObservedEnd(nav)  == IF Milestones(nav) = {} THEN TraceEnd ELSE Max(Milestones(nav))

RawWindowLoads(q, navs) ==
  {n \in DOMAIN navs : /\ q.to = None \/ navs[n].start < q.to
                       /\ q.from = None \/ ObservedEnd(navs[n]) > q.from}

Context(q, navs) ==
  LET loads    == RawWindowLoads(q, navs)
      latest(S) == IF S = {} THEN None ELSE navs[Max(S)].url
  IN  IF Phase(q) # None THEN
        [status |-> "explicit_page_load_window", count |-> 1, url |-> latest(Matching(q, navs))]
      ELSE IF q.from = None /\ q.to = None THEN
        [status |-> "latest_navigation_fallback", count |-> 1, url |-> latest(DOMAIN navs)]
      ELSE [status |-> IF loads = {} THEN "none" ELSE IF Cardinality(loads) = 1 THEN "single" ELSE "ambiguous",
            count |-> Cardinality(loads), url |-> latest(loads)]

Certain(context) == context.status \notin {"none", "ambiguous"} /\ context.url # None

\* renderer_navigation_candidates and fallback_target_renderer_candidates: the renderers
\* that have said they are loading the page, else those that fetched its URL.
SaysItLoads(trace, w, context) ==
  {ThreadProcess[trace[i].track] :
     i \in {j \in DOMAIN trace :
              /\ ThreadProcess[trace[j].track] # None /\ InRenderer(trace[j].track)
              /\ \E a \in trace[j].args : a.url = context.url /\ IsUrl(a)
              /\ ~w.empty /\ StartsBefore(trace[j], w)
              /\ w.start = None \/ (IF trace[j].dur >= 0 THEN End(trace[j]) ELSE TraceEnd) > w.start}}

Fetched(trace, w, context) ==
  {ProcessOf(trace[i].track) :
     i \in {j \in Candidates(trace, w, 0) : SelectedUrl(trace[j]) = context.url /\ InRenderer(trace[j].track)}}

Targets(trace, w, context) ==
  IF ~Certain(context) THEN [upids |-> {}, source |-> None]
  ELSE IF SaysItLoads(trace, w, context) # {} THEN
    [upids |-> SaysItLoads(trace, w, context), source |-> "renderer_navigation_url_slice"]
  ELSE IF Fetched(trace, w, context) # {} THEN
    [upids |-> Fetched(trace, w, context), source |-> "resource_candidate_url_slice"]
  ELSE [upids |-> {}, source |-> None]

Relation(key, context, grouping) ==
  IF At(key, "chrome") = 1 THEN "browser_ui_or_extension"
  ELSE IF ~Certain(context) THEN "unknown"
  ELSE IF key = UrlKey(context.url, grouping) THEN "navigation_url"
  ELSE IF Origin(key) = <<>> THEN "unknown"
  ELSE IF Origin(key) = Origin(Urls[context.url]) THEN "same_origin" ELSE "cross_origin"

\* What the processes of a URL's slices have to do with the page, and how sure that is.
RendererRelation(upids, renderer, targets) ==
  IF targets.upids = {} THEN [is |-> "unknown", confidence |-> "low"]
  ELSE IF upids \cap targets.upids # {} THEN
    [is |-> "target_renderer",
     confidence |-> IF targets.source = "renderer_navigation_url_slice" THEN "high" ELSE "medium"]
  ELSE IF renderer THEN [is |-> "other_renderer", confidence |-> "medium"]
  ELSE [is |-> "browser_or_service_only", confidence |-> "low"]
-----------------------------------------------------------------------------
\* chrome_page_load_resource_summary: the resources of the window by URL.
SummaryRows(trace, navs, w, q) ==
  LET rows    == Candidates(trace, w, 0)
      context == Context(q, navs)
      targets == Targets(trace, w, context)
      key(i)  == UrlKey(SelectedUrl(trace[i]), q.grouping)
      of(k)   == {i \in rows : key(i) = k}
      lap(i)  == ResourceOverlap(trace[i], w)
      upids(k) == {ProcessOf(trace[i].track) : i \in of(k)} \ {None}
      row(k)  == [key      |-> k,
                  context  |-> context.status,
                  relation |-> Relation(k, context, q.grouping),
                  upids    |-> upids(k),
                  renderer |-> RendererRelation(upids(k), \E i \in of(k) : InRenderer(trace[i].track), targets),
                  count    |-> Cardinality(of(k)),
                  unended  |-> Cardinality({i \in of(k) : trace[i].dur < 0}),
                  max      |-> Max({lap(i) : i \in of(k)}),
                  summed   |-> SumFunction([i \in of(k) |-> lap(i)]),
                  span     |-> Max({ResourceEnd(trace[i], w) : i \in of(k)})
                               - Min({OverlapStart(trace[i], w) : i \in of(k)}),
                  first    |-> Min({OverlapStart(trace[i], w) : i \in of(k)}),
                  example  |-> ByOverlap(trace, w, of(k)),
                  detail   |-> ByOverlap(trace, w, {i \in of(k) : trace[i].name \notin NotDetailed})]
  IN  {r \in {row(key(i)) : i \in rows} : r.max >= q.min}

SummaryRank(rows) == [r \in rows |-> <<r.max, r.span, -r.first>>]
-----------------------------------------------------------------------------
\* chrome_page_load_resource_pipeline: one resource, by a part of its URL or by the URL of
\* an example slice, and the scripts that came with it.
PipelineAllowed(q) ==
  /\ None # q.part \/ None # q.example
  /\ q.part # ""
  /\ WindowAllowed(q) /\ LimitAllowed(q.limit)

HasPart(url, q)       == q.part # None /\ At(Urls[url], q.part) > 0
AnyUrlOf(trace, i)    == IF i \in DOMAIN trace THEN AnyUrl(trace[i]) ELSE None
UrlOf(trace, i)       == IF i \in DOMAIN trace THEN SelectedUrl(trace[i]) ELSE None
LikeExample(trace, url, q) ==
  /\ q.example # None
  /\ UrlOf(trace, q.example) # None
  /\ UrlKey(url, q.grouping) = UrlKey(UrlOf(trace, q.example), q.grouping)

MatchedBy(trace, url, q) ==
  CASE HasPart(url, q) /\ LikeExample(trace, url, q)  -> "url_substring+example_slice_id"
    [] HasPart(url, q) /\ ~LikeExample(trace, url, q) -> "url_substring"
    [] ~HasPart(url, q)                               -> "example_slice_id"

MatchRank(by) == CASE by = "url_substring+example_slice_id" -> 2 [] by = "url_substring" -> 1 [] OTHER -> 0

PipelineResources(trace, w, q) ==
  {i \in Candidates(trace, w, 0) :
     HasPart(SelectedUrl(trace[i]), q) \/ LikeExample(trace, SelectedUrl(trace[i]), q)}

\* script_slices: on any thread, also those that only parse, as far as their URL matches.
PipelineScripts(trace, w, keys, q) ==
  {i \in DOMAIN trace :
     /\ trace[i].dur > 0 /\ trace[i].name \in ScriptNames \cup BackgroundParse
     /\ TaskTouches(trace[i], w)
     /\ SelectedUrl(trace[i]) # None /\ UrlKey(SelectedUrl(trace[i]), q.grouping) \in keys}

\* The patterns of the pipeline are not those of the script hotspots.
PipelineWork ==
  [forced |-> {"ForcedStyleAndLayout"}, style |-> {"UpdateStyleAndLayout", "StyleRecalc"}, layout |-> {"Layout"}]

\* resource_result_rows: what the cache or the network said, found below a slice that a
\* resource of the URL is part of.
ResultsOf(trace, resources) ==
  LET roots == {i \in UNION {Above(trace, r, AncestorDepth) : r \in resources} : trace[i].name \in ResourceNames}
  IN  {i \in DOMAIN trace : trace[i].name \in ResultNames /\ trace[i].parent \in roots}

PipelineRows(trace, w, q) ==
  LET rows    == PipelineResources(trace, w, q)
      key(i)  == UrlKey(SelectedUrl(trace[i]), q.grouping)
      keys    == {key(i) : i \in rows}
      scripts == PipelineScripts(trace, w, keys, q)
      of(k)   == {i \in rows : key(i) = k}
      runs(k) == {i \in scripts : key(i) = k}
      lap(i)  == ResourceOverlap(trace[i], w)
      ran(i)  == TaskOverlap(trace[i], w)
      by(i)   == MatchedBy(trace, SelectedUrl(trace[i]), q)
      best(k) == First([i \in of(k) |-> <<MatchRank(by(i)), lap(i), trace[i].dur>>])
      named(S, names) == {i \in S : trace[i].name \in names}
      work(k, kind)   == Rollup(trace, w, runs(k), scripts, PipelineWork[kind])
      row(k)  == [key        |-> k,
                  matched    |-> by(best(k)),
                  count      |-> Cardinality(of(k)),
                  max        |-> Max({lap(i) : i \in of(k)}),
                  first      |-> Min({trace[i].ts : i \in of(k)}),
                  request    |-> Largest({lap(i) : i \in named(of(k), RequestNames)}),
                  example    |-> ByOverlap(trace, w, of(k)),
                  detail     |-> ByOverlap(trace, w, {i \in of(k) : trace[i].name \notin NotDetailed}),
                  results    |-> ResultsOf(trace, of(k)),
                  scripts    |-> Cardinality(runs(k)),
                  background |-> SumFunction([i \in named(runs(k), BackgroundParse) |-> ran(i)]),
                  evaluated  |-> SumFunction([i \in named(runs(k), Evaluations) |-> ran(i)]),
                  callback   |-> Largest({ran(i) : i \in named(runs(k), Callbacks)}),
                  forced     |-> work(k, "forced"),
                  style      |-> work(k, "style"),
                  layout     |-> work(k, "layout"),
                  script     |-> First([i \in runs(k) |-> <<ran(i), trace[i].dur>>])]
  IN  {row(k) : k \in keys}

PipelineRank(rows) == [r \in rows |-> <<r.max, -r.first>>]
-----------------------------------------------------------------------------
\* chrome_page_load_resource_timing_evidence_sql: whether anything in the window speaks of
\* the phases of a request, and how many resources had not ended.
PhaseNames  == {"Cache::GetResource", "URLLoader::OnReceiveResponse"}
ProbedNames == {"ScheduledResourceRequest", "Resource::Create", "Cache::GetResource", "PageLoadMetricsResource",
                "URLLoader::OnReceiveResponse"}
PhaseKeys   == {"http_status"}

Evidence(trace, w) ==
  LET seen    == {i \in DOMAIN trace : ResourceTouches(trace[i], w)}
      phases  == {i \in seen : trace[i].name \in PhaseNames}
      phased  == {i \in seen : \E a \in trace[i].args : a.key \in PhaseKeys}
  IN  [phases  |-> Cardinality(phases),
       unended |-> Cardinality({i \in seen : /\ trace[i].dur < 0 /\ trace[i].name \in ProbedNames
                                             /\ \E a \in trace[i].args : a.key \in UrlKeys}),
       available |-> phases # {} \/ phased # {}]
================================================================================
