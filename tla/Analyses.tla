------------------------------- MODULE Analyses -------------------------------
(***************************************************************************)
(* A trace is recorded, then asked about: the questions of the analysis    *)
(* tools, and the one that follows another, about the example it gave.     *)
(***************************************************************************)
EXTENDS ResourceQueries

CONSTANT MaxEvents        \* bound: the slices and page loads of a trace

\* The milestones and the bounds of the questions below lie within the recording.
ASSUME AnalysesAssumption == MaxEvents \in Nat /\ TraceEnd >= 3

VARIABLES
  purpose,  \* the tool it is recorded for
  trace,    \* the slices, in the order in which they started
  navs,     \* the page loads, in the order in which they started
  asked,    \* the tool and the parameters of the last question
  answer    \* its rows, and what is said beside them

vars == <<purpose, trace, navs, asked, answer>>

Tools == {"main_thread_hotspots", "script_hotspots", "slice_descendants_breakdown",
          "resource_hotspots", "resource_summary", "resource_pipeline"}

ASSUME NullAssumption == None \notin Tools \cup DOMAIN Phases \cup {""}
-----------------------------------------------------------------------------
Arg(key, url) == [key |-> key, url |-> url]
Kind(track, name, args) == [track |-> track, name |-> name, args |-> args]

\* The slices of the traces a tool is asked about.
Kinds(tool) ==
  CASE tool = "main_thread_hotspots" -> {Kind(t, "RunTask", {}) : t \in {1, 2, 3}}
    [] tool = "script_hotspots" ->
         {Kind(1, n, {}) : n \in {"FunctionCall", "UpdateStyleAndLayout", "Layout", "RunTask"}}
         \cup {Kind(1, "EvaluateScript", {Arg("url", 4), Arg("site_url", 7)})}
    [] tool = "slice_descendants_breakdown" -> {Kind(1, "RunTask", {}), Kind(1, "Layout", {})}
    [] tool = "resource_hotspots" ->
         {Kind(3, "ScheduledResourceRequest", {Arg("url", 5), Arg("site_url", 4)}),
          Kind(5, "Cache::GetResource", {Arg("url", 3), Arg("some_url", 7)}),
          Kind(1, "PageLoadMetricsResource", {Arg("url", 4)})}
    [] tool = "resource_summary" ->
         {Kind(4, "ScheduledResourceRequest", {Arg("url", 4), Arg("site_url", 7)}),
          Kind(3, "Cache::GetResource", {Arg("request.0.url", 6), Arg("src", 1)}),
          Kind(1, "RunTask", {Arg("frame.url", 4)}),
          Kind(6, "URLLoader::OnReceiveResponse", {Arg("some_url", 5), Arg("http_status", None)})}
    [] tool = "resource_pipeline" ->
         {Kind(1, "Cache::GetResource", {Arg("url", 5), Arg("site_url", 4)}),
          Kind(1, "EvaluateScript", {Arg("url", 4)}),
          Kind(1, "FunctionCall", {Arg("url", 5)}),
          Kind(1, "StyleRecalc", {}),
          Kind(1, "DiskResult", {Arg("source", None)})}

\* How many slices that takes: two of the tools look at each of them by itself.
Slices(tool) ==
  IF tool \notin {"main_thread_hotspots", "resource_hotspots"} THEN MaxEvents
  ELSE IF navs = <<>> THEN 2 ELSE 1

\* What runs on a track nests: a slice starts within what is still running there, and ends
\* before it does.
Running(ts, track) == Largest({i \in DOMAIN trace : trace[i].track = track /\ ts \in Instants(trace[i])})
Fits(ts, dur, parent) ==
  IF parent = None THEN TRUE
  ELSE trace[parent].dur = Incomplete \/ (dur # Incomplete /\ ts + dur <= End(trace[parent]))

Question == [page |-> None, nav |-> None, phase |-> None, from |-> None, to |-> None,
             min |-> 0, limit |-> None, upid |-> None, ids |-> {}, depth |-> None,
             part |-> None, example |-> None, grouping |-> "full"]
Asking(tool, q) == [tool |-> tool, q |-> q]
NoAnswer == [ok |-> FALSE, rows |-> {}, unended |-> 0, evidence |-> None]

Spans   == {[Question EXCEPT !.from = f, !.to = t] : f \in {None, 1}, t \in {None, 2}}
Windows == Spans
  \cup {[Question EXCEPT !.page = i, !.nav = n] : i \in {None, 1}, n \in {None, 2}}
  \cup {[Question EXCEPT !.phase = p] : p \in DOMAIN Phases}
  \cup {[Question EXCEPT !.phase = "navigation_to_load", !.from = 1],
        [Question EXCEPT !.from = 2, !.to = 1], [Question EXCEPT !.from = -1]}

Grouped(questions) == {[q EXCEPT !.grouping = g] : q \in questions, g \in {"full", "without_query"}}
OneRow == [Question EXCEPT !.limit = 1]

Questions(tool) ==
  CASE tool = "main_thread_hotspots" ->
         {[w EXCEPT !.min = m] : w \in Windows, m \in {0, 2}}
         \cup {[Question EXCEPT !.limit = 0], [Question EXCEPT !.upid = 1], OneRow}
    [] tool = "script_hotspots" -> {[w EXCEPT !.min = m] : w \in Spans, m \in {0, 2}}
                                   \cup {[Question EXCEPT !.from = 2], OneRow}
    [] tool = "slice_descendants_breakdown" ->
         {[Question EXCEPT !.ids = i, !.depth = d] :
            i \in {{}, {1}, {1, 2}, {-1}, 1 .. MaxRoots + 1}, d \in {None, 0, 1, MaxDepth, MaxDepth + 1}}
         \cup {[Question EXCEPT !.ids = {1}, !.min = 2], [OneRow EXCEPT !.ids = {1, MaxEvents + 1}]}
    [] tool = "resource_hotspots" -> {[w EXCEPT !.min = m] : w \in Windows, m \in {0, 2}} \cup {OneRow}
    [] tool = "resource_summary" ->
         Grouped(Spans \cup {[OneRow EXCEPT !.min = 2]})
         \cup {[Question EXCEPT !.page = 1], [Question EXCEPT !.phase = "fcp_to_load"]}
    [] tool = "resource_pipeline" ->
         Grouped({[Question EXCEPT !.part = p, !.example = e] : p \in {None, "doc"}, e \in {None, 1}})
         \cup {[Question EXCEPT !.part = ""],
               [Question EXCEPT !.part = "a", !.from = 1, !.to = 2], [OneRow EXCEPT !.part = "https"]}
-----------------------------------------------------------------------------
\* A row counts and measures what there is: nothing is negative, and a slice has not been
\* in more than one place.
Measures == {"overlap", "count", "total", "self", "max", "forced", "style", "layout", "summed", "span",
             "background", "evaluated"}

TypeOK ==
  /\ purpose \in Tools
  /\ Len(trace) + Len(navs) <= MaxEvents
  /\ \A i \in DOMAIN trace : /\ trace[i].ts \in 0 .. TraceEnd - 1
                             /\ trace[i].dur \in {Incomplete} \cup 0 .. TraceEnd - trace[i].ts
                             /\ trace[i].parent \in {None} \cup 1 .. i - 1
  /\ asked.tool \in Tools \cup {None}
  /\ \A r \in answer.rows : \A m \in Measures \cap DOMAIN r : r[m] \in Nat

Init ==
  /\ purpose \in Tools
  /\ trace = <<>> /\ navs = <<>>
  /\ asked = Asking(None, Question) /\ answer = NoAnswer
-----------------------------------------------------------------------------
Recording == asked.tool = None

AddSlice ==
  /\ Recording
  /\ Len(trace) + Len(navs) < MaxEvents /\ Len(trace) < Slices(purpose)
  /\ \E k \in Kinds(purpose), ts \in 0 .. TraceEnd - 1 : \E dur \in {Incomplete} \cup 0 .. TraceEnd - ts :
       /\ trace # <<>> => ts >= Last(trace).ts
       /\ Fits(ts, dur, Running(ts, k.track))
       /\ trace' = Append(trace, [ts |-> ts, dur |-> dur, parent |-> Running(ts, k.track),
                                  track |-> k.track, name |-> k.name, args |-> k.args])
  /\ UNCHANGED <<purpose, navs, asked, answer>>

\* Loads == the pages that are loaded, with the milestones they reach.
AddLoad ==
  /\ Recording /\ trace = <<>> /\ Len(navs) < Smaller(2, MaxEvents)
  /\ purpose \in {"main_thread_hotspots", "resource_hotspots", "resource_summary"}
  /\ \E start \in 0 .. TraceEnd - 1, m \in {<<None, None, None>>, <<1, 2, 2>>, <<2, 1, 3>>, <<None, 1, None>>} :
       /\ navs # <<>> => start > Last(navs).start
       /\ \A i \in 1..3 : m[i] # None => m[i] > start
       /\ navs' = Append(navs, [start |-> start, url |-> IF start = 0 THEN 4 ELSE 7,
                                fcp |-> m[1], dcl |-> m[2], load |-> m[3]])
  /\ UNCHANGED <<purpose, trace, asked, answer>>
-----------------------------------------------------------------------------
Refuse == answer' = NoAnswer
Show(rank, limit, default, unended, evidence) ==
  \E top \in Tops(rank, RowsUpTo(limit, default)) :
    answer' = [ok |-> TRUE, rows |-> top, unended |-> unended, evidence |-> evidence]

\* The handlers' queries, for parameters that are allowed.
MainThread(q) ==
  IF MainThreadAllowed(q)
  THEN Show(MainThreadRank(MainThreadRows(trace, Window(q, navs), q)), q.limit, 100, 0, None) ELSE Refuse

ScriptHotspots(q) ==
  IF ScriptsAllowed(q)
  THEN Show(ScriptRank(ScriptRows(trace, Window(q, navs), q)), q.limit, 100, 0, None) ELSE Refuse

Descendants(q) ==
  IF DescendantsAllowed(q)
  THEN Show(DescendantRank(DescendantRows(trace, q)), q.limit, 100, IncompleteBelow(trace, q), None) ELSE Refuse

ResourceHotspots(q) ==
  IF ResourcesAllowed(q)
  THEN Show(HotspotRank(HotspotRows(trace, Window(q, navs), q)), q.limit, 100, 0, None) ELSE Refuse

ResourceSummary(q) ==
  LET w == Window(q, navs)
  IN  IF ResourcesAllowed(q)
      THEN Show(SummaryRank(SummaryRows(trace, navs, w, q)), q.limit, 25, 0, Evidence(trace, w)) ELSE Refuse

ResourcePipeline(q) ==
  IF PipelineAllowed(q)
  THEN Show(PipelineRank(PipelineRows(trace, Window(q, navs), q)), q.limit, 30, 0, None) ELSE Refuse

Answer(tool, q) ==
  /\ asked' = Asking(tool, q)
  /\ \/ tool = "main_thread_hotspots" /\ MainThread(q)
     \/ tool = "script_hotspots" /\ ScriptHotspots(q)
     \/ tool = "slice_descendants_breakdown" /\ Descendants(q)
     \/ tool = "resource_hotspots" /\ ResourceHotspots(q)
     \/ tool = "resource_summary" /\ ResourceSummary(q)
     \/ tool = "resource_pipeline" /\ ResourcePipeline(q)
  /\ UNCHANGED <<purpose, trace, navs>>

Ask == Recording /\ \E q \in Questions(purpose) : Answer(purpose, q)

\* A resource of the summary or of the hotspots is looked into, by its example, for the
\* same window.
Follow ==
  /\ asked.tool \in {"resource_summary", "resource_hotspots"}
  /\ \E r \in answer.rows :
       Answer("resource_pipeline",
              [asked.q EXCEPT !.example = IF asked.tool = "resource_summary" THEN r.example ELSE r.id,
                              !.min = 0, !.limit = None])

Done == ~Recording /\ asked' = Asking(None, Question) /\ answer' = NoAnswer /\ UNCHANGED <<purpose, trace, navs>>

Next == AddSlice \/ AddLoad \/ Ask \/ Follow \/ Done

Spec == Init /\ [][Next]_vars
-----------------------------------------------------------------------------
\* The instants a question is about, and those of them at which a slice was running.
Asked(q) ==
  LET phase == Phases[Phase(q)]
      loads == {n \in DOMAIN navs : q.page \in {None, n} /\ q.nav \in {None, n}}
      meant == {n \in loads : \A m \in loads : navs[m].start <= navs[n].start}
  IN  {t \in 0 .. TraceEnd - 1 :
         /\ q.from = None \/ q.from <= t
         /\ q.to = None \/ t < q.to
         /\ Phase(q) = None
            \/ \E n \in meant : /\ None \notin {navs[n][phase[1]], navs[n][phase[2]]}
                              /\ navs[n][phase[1]] <= t /\ t < navs[n][phase[2]]}
Shared(i, q) == Cardinality(Instants(trace[i]) \cap Asked(q))

\* The time a row says a slice took of the window is the time it was running in it, and no
\* slice that ran in it long enough is left out (chrome_main_thread.rs:47,
\* chrome_resources.rs:23, chrome_common.rs:87): tasks that have ended, and requests
\* whether they have or not.
Due(tool, q) ==
  {i \in DOMAIN trace :
     IF tool = "main_thread_hotspots"
     THEN /\ trace[i].name = "RunTask" /\ trace[i].track \in {1, 2} /\ trace[i].dur # Incomplete
          /\ q.upid \in {None, trace[i].track}
     ELSE trace[i].name \in {"ScheduledResourceRequest", "Cache::GetResource"}}

OverlapExact ==
  asked.tool \in {"main_thread_hotspots", "resource_hotspots"} /\ answer.ok /\ asked.q.limit = None =>
    {<<r.id, r.overlap>> : r \in {s \in answer.rows : s.overlap > 0}}
      = {<<i, Shared(i, asked.q)>> :
           i \in {j \in Due(asked.tool, asked.q) : Shared(j, asked.q) > 0 /\ Shared(j, asked.q) >= asked.q.min}}

\* The scripts a slice is part of, the nearest first; and whether one is near enough, with
\* nothing on the way that had not ended.
IsScript(i) == trace[i].name \in {"EvaluateScript", "FunctionCall"} /\ trace[i].dur > 0
Enclosing[i \in 1..MaxEvents] ==
  IF i \notin DOMAIN trace \/ trace[i].parent = None THEN <<>>
  ELSE <<trace[i].parent>> \o Enclosing[trace[i].parent]
Cause(i) ==
  LET up == Enclosing[i]
      at == {n \in DOMAIN up : n <= WalkDepth /\ IsScript(up[n])
                              /\ trace[i].dur > 0 /\ \A m \in 1..n : trace[up[m]].dur > 0}
  IN  IF at = {} THEN None ELSE up[Min(at)]

\* Rendering work is put down to one script, the nearest around it, and for the time it
\* took of the window (chrome_scripts.rs:155; CHANGELOG.md:55 on double counting).
Rendered(r) == r.forced + r.style + r.layout
RenderWorkOnce ==
  /\ asked.tool = "script_hotspots" =>
       \A r \in answer.rows :
         LET caused == {i \in DOMAIN trace : /\ trace[i].name \in RenderWork /\ Cause(i) # None
                                             /\ ScriptGroup(trace[Cause(i)]) = r.group}
         IN  Rendered(r) = SumFunction([i \in caused |-> Shared(i, asked.q)])
  /\ asked.tool = "resource_pipeline" =>
       LET work == {i \in DOMAIN trace : trace[i].name \in RenderWork}
       IN  SumFunction([r \in answer.rows |-> Rendered(r)]) <= SumFunction([i \in work |-> Shared(i, asked.q)])

\* What a row of slice_descendants_breakdown calls self is the time at which its slices ran
\* and none of their children did, so that the rows of a root add up to no more than its
\* duration; and what had not ended is counted beside them (slice_descendants.rs:119,
\* response.rs:971).
SelfOnly(i) == Instants(trace[i]) \ UNION {Instants(trace[j]) : j \in {k \in DOMAIN trace : trace[k].parent = i}}
DepthBelow(root, i) == LET up == Enclosing[i] IN SelectInSeq(up, LAMBDA p : p = root)
DescendantsExact ==
  asked.tool = "slice_descendants_breakdown" /\ answer.ok =>
    /\ \A r \in answer.rows :
         LET members == {i \in DOMAIN trace : /\ DepthBelow(r.root, i) = r.depth /\ trace[i].name = r.name
                                              /\ trace[i].dur >= asked.q.min}
         IN  r.self = SumFunction([i \in members |-> Cardinality(SelfOnly(i))])
    /\ answer.unended =
         Cardinality({p \in asked.q.ids \X DOMAIN trace :
                        DepthBelow(p[1], p[2]) \in 1 .. WalkTo(asked.q) /\ trace[p[2]].dur = Incomplete})

\* The page loads that were under way at some instant of the window: until their last
\* milestone, or for good when they reached none.
UnderWay(q) ==
  LET reached(n) == {navs[n].fcp, navs[n].dcl, navs[n].load} \ {None}
  IN  {n \in DOMAIN navs :
         \E t \in Asked(q) : navs[n].start <= t /\ (reached(n) = {} \/ \E m \in reached(n) : t < m)}
Site(tokens) == {i \in DOMAIN tokens : \A j \in 1..i : tokens[j] \notin {"/", "?", "#"}}
SameSite(key, url) == Restrict(key, Site(key)) = Restrict(Urls[url], Site(Urls[url]))

\* A resource is related to a page only when that page, and no other, was being loaded in
\* the window that was asked about; it is said to be of the same origin just when it is;
\* and a renderer is named with high confidence only when it said in that window that it
\* was loading that page (chrome_resources.rs:380-485, 1270).
RelationTrue ==
  asked.tool = "resource_summary" /\ Phase(asked.q) = None /\ {asked.q.from, asked.q.to} # {None} =>
    \A r \in answer.rows :
      LET loads == UnderWay(asked.q) IN
      IF Cardinality(loads) # 1 THEN r.relation = "unknown" /\ r.renderer.is = "unknown"
      ELSE LET page == navs[CHOOSE n \in loads : TRUE].url IN
           /\ (r.relation \in {"navigation_url", "same_origin"}) = SameSite(r.key, page)
           /\ r.renderer.confidence = "high" =>
                \E i \in DOMAIN trace : /\ \E a \in trace[i].args : a.url = page
                                        /\ ThreadProcess[trace[i].track] \in r.upids
                                        /\ Shared(i, asked.q) > 0 \/ trace[i].dur = 0

\* A resource that is looked into by its example, in the same window, is found again: the
\* URL with as many slices and the same longest one (the tool descriptions at
\* server/mod.rs:919 and :1014).
DrillDown ==
  [][asked'.tool = "resource_pipeline" /\ asked.tool # None =>
       \A r \in answer.rows :
         /\ asked.tool = "resource_summary" /\ r.example = asked'.q.example =>
              \E p \in answer'.rows : p.key = r.key /\ p.count = r.count /\ p.max = r.max /\ p.example = r.example
         /\ asked.tool = "resource_hotspots" /\ r.id = asked'.q.example =>
              \E p \in answer'.rows : p.max >= r.overlap]_vars
===============================================================================
