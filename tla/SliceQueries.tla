----------------------------- MODULE SliceQueries -----------------------------
(***************************************************************************)
(* sql_templates/chrome_main_thread.rs, chrome_scripts.rs and              *)
(* slice_descendants.rs: the rows that chrome_main_thread_hotspots,        *)
(* chrome_page_load_script_hotspots and slice_descendants_breakdown give   *)
(* for a trace.                                                            *)
(***************************************************************************)
EXTENDS PageWindow

CONSTANTS WalkDepth,     \* how far down the walks go: 8
          MaxDepth,      \* the largest max_depth of slice_descendants_breakdown: 64
          MaxRoots       \* how many slice_ids it takes: 100

ASSUME DepthAssumption == WalkDepth \in 1..MaxDepth /\ MaxDepth \in Nat /\ MaxRoots \in Nat \ {0}

OfProcess(s, q) == q.upid = None \/ ThreadProcess[s.track] = q.upid
-----------------------------------------------------------------------------
\* chrome_main_thread_hotspots: the tasks that took long enough of the window.
MainThreadAllowed(q) == WindowAllowed(q) /\ LimitAllowed(q.limit)

MainThreadRows(trace, w, q) ==
  {[id |-> i, overlap |-> TaskOverlap(trace[i], w), dur |-> trace[i].dur] :
     i \in {j \in DOMAIN trace :
              /\ trace[j].name = "RunTask" /\ IsMain(trace[j].track) /\ OfProcess(trace[j], q)
              /\ TaskTouches(trace[j], w)
              /\ TaskOverlap(trace[j], w) >= q.min}}

MainThreadRank(rows) == [r \in rows |-> <<r.overlap, r.dur>>]
-----------------------------------------------------------------------------
\* The kinds of rendering work a script may have caused.  A name that is of several kinds
\* is counted as the first one.
ScriptNames == {"EvaluateScript", "FunctionCall"}
ForcedWork  == {"ForcedStyleAndLayout", "UpdateStyleAndLayout"}
StyleWork   == {"UpdateStyleAndLayout", "StyleRecalc"}
LayoutWork  == {"ForcedStyleAndLayout", "UpdateStyleAndLayout", "Layout"}
RenderWork  == ForcedWork \cup StyleWork \cup LayoutWork

Work ==
  [forced |-> ForcedWork, style |-> StyleWork \ ForcedWork, layout |-> LayoutWork \ (ForcedWork \cup StyleWork)]

\* The time of a slice within the part of another one that is in the window.
TimeWithin(d, root, w) ==
  LET from == Larger(d.ts, OverlapStart(root, w))
      to   == Smaller(End(d), TaskEnd(root, w))
  IN  IF from < to THEN to - from ELSE 0

\* script_descendants: down through what has ended, and not into another script, which
\* answers for its own.
WalksInto(trace, roots, i)       == trace[i].dur > 0
StopsAtScripts(trace, roots, i)  == trace[i].dur > 0 /\ i \notin roots
CausedBy(trace, root, roots) ==
  UNION Range(Below(trace, root, WalkDepth, {i \in DOMAIN trace : StopsAtScripts(trace, roots, i)}))

\* How long the scripts of a group kept the renderer at work of these names.
Rollup(trace, w, group, roots, names) ==
  SumFunction([r \in group |->
    SumFunction([d \in {c \in CausedBy(trace, r, roots) : trace[c].name \in names} |->
                   TimeWithin(trace[d], trace[r], w)])])
-----------------------------------------------------------------------------
\* The URL of a script: of an argument that is known to be one, else of any whose name
\* says so.
ExactKeys == {"url"}
UrlKeys   == {"url", "frame.url", "site_url", "request.0.url", "some_url"}
ArgUrls(s, keys) == {a.url : a \in {b \in s.args : b.key \in keys}}
ScriptUrl(s) ==
  IF ArgUrls(s, ExactKeys) # {} THEN Max(ArgUrls(s, ExactKeys)) ELSE Largest(ArgUrls(s, UrlKeys))

ScriptSlices(trace, w, q) ==
  {i \in DOMAIN trace :
     /\ trace[i].dur > 0 /\ trace[i].name \in ScriptNames
     /\ IsMain(trace[i].track) /\ OfProcess(trace[i], q)
     /\ TaskTouches(trace[i], w)}

ScriptGroup(s) == [url |-> ScriptUrl(s), name |-> s.name, track |-> s.track]

\* script_slices to the last SELECT: the scripts of the window, by URL, name and thread,
\* with what they made the renderer do.
ScriptsAllowed(q) == WindowAllowed(q) /\ LimitAllowed(q.limit)

ScriptRows(trace, w, q) ==
  LET scripts     == ScriptSlices(trace, w, q)
      overlap(i)  == TaskOverlap(trace[i], w)
      members(g)  == {i \in scripts : ScriptGroup(trace[i]) = g}
      work(g, k)  == Rollup(trace, w, members(g), scripts, Work[k])
      row(g)      == [group   |-> g,
                      count   |-> Cardinality(members(g)),
                      total   |-> SumFunction([i \in members(g) |-> overlap(i)]),
                      max     |-> Max({overlap(i) : i \in members(g)}),
                      forced  |-> work(g, "forced"),
                      style   |-> work(g, "style"),
                      layout  |-> work(g, "layout"),
                      first   |-> Min({OverlapStart(trace[i], w) : i \in members(g)}),
                      example |-> First([i \in members(g) |-> <<overlap(i), trace[i].dur>>])]
  IN  {r \in {row(ScriptGroup(trace[i])) : i \in scripts} : r.total >= q.min}

ScriptRank(rows) == [r \in rows |-> <<r.total, r.max, -r.first>>]
-----------------------------------------------------------------------------
\* slice_descendants_breakdown: what ran below each of the roots, by depth and name.
WalkTo(q) == IF q.depth = None THEN WalkDepth ELSE q.depth
DescendantsAllowed(q) ==
  /\ q.ids # {} /\ -1 \notin q.ids /\ Cardinality(q.ids) <= MaxRoots
  /\ WalkTo(q) \in 1..MaxDepth
  /\ LimitAllowed(q.limit)

\* The time of a slice less that of its children.
InclusiveTime(trace, i) == trace[i].dur
SelfTime(trace, i) ==
  Larger(0, trace[i].dur - SumFunction([j \in {c \in ChildrenOf(trace, i) : trace[c].dur > 0} |-> trace[j].dur]))

DescendantRows(trace, q) ==
  LET levels[r \in q.ids \cap DOMAIN trace] == Below(trace, r, WalkTo(q), DOMAIN trace)
      members(r, d, n) == {i \in levels[r][d] : trace[i].name = n /\ trace[i].dur >= q.min}
      row(r, d, n) == [root    |-> r, depth |-> d, name |-> n,
                       count   |-> Cardinality(members(r, d, n)),
                       total   |-> SumFunction([i \in members(r, d, n) |-> trace[i].dur]),
                       self    |-> SumFunction([i \in members(r, d, n) |-> SelfTime(trace, i)]),
                       max     |-> Max({trace[i].dur : i \in members(r, d, n)}),
                       first   |-> Min({trace[i].ts : i \in members(r, d, n)}),
                       example |-> First([i \in members(r, d, n) |-> <<trace[i].dur>>])]
  IN  UNION {UNION {{row(r, d, trace[i].name) : i \in {j \in levels[r][d] : trace[j].dur >= q.min}} :
                      d \in 1 .. WalkTo(q)} : r \in DOMAIN levels}

\* Names, by which the last ties are broken, are not in any order here.
DescendantRank(rows) == [r \in rows |-> <<r.total, r.max, r.count, -r.root, -r.depth>>]

\* fetch_incomplete_slice_descendant_count, which asks for those that had not ended.
IncompleteBelow(trace, q) ==
  SumFunction([r \in q.ids \cap DOMAIN trace |->
    Cardinality({i \in UNION Range(Below(trace, r, WalkTo(q), DOMAIN trace)) : trace[i].dur < 0})])
=============================================================================
