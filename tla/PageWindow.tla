------------------------------ MODULE PageWindow ------------------------------
(***************************************************************************)
(* sql_templates/chrome_common.rs and the window expressions of the chrome *)
(* tools: the part of a trace a question is about, given by a page load, a *)
(* phase of it, raw timestamps, or both, and how long a slice was running  *)
(* in it.                                                                  *)
(***************************************************************************)
EXTENDS TraceSlices

\* A page load: when it started, its URL, its milestones (None when not reached).  Page
\* loads are in the order in which they started.
Phases == [navigation_to_fcp  |-> <<"start", "fcp">>,  navigation_to_load |-> <<"start", "load">>,
           dcl_to_fcp         |-> <<"dcl", "fcp">>,    fcp_to_load        |-> <<"fcp", "load">>]

\* validate_chrome_page_load_window.
WindowAllowed(q) ==
  /\ {q.page, q.nav, q.from, q.to} \cap {-1} = {}
  /\ None \in {q.page, q.nav}
  /\ None \notin {q.from, q.to} => q.to > q.from

Phase(q) ==
  IF q.phase = None /\ {q.page, q.nav} # {None} THEN "navigation_to_fcp" ELSE q.phase

\* The page load a window is taken from: the latest of those that match.
Matching(q, navs) == {n \in DOMAIN navs : q.page \in {None, n} /\ q.nav \in {None, n}}
Earliest(q, navs) == Min(Matching(q, navs))
Latest(q, navs)   == Max(Matching(q, navs))

\* The bounds of the window; a milestone that is missing, or bounds that leave nothing,
\* make it empty.
Closed == [empty |-> TRUE, start |-> None, end |-> None]
Larger(a, b)  == IF a > b THEN a ELSE b
Smaller(a, b) == IF a < b THEN a ELSE b
Later(bound, raw) ==
  IF raw = None THEN bound ELSE IF bound = None THEN raw ELSE Larger(bound, raw)
Earlier(bound, raw) ==
  IF raw = None THEN bound ELSE IF bound = None THEN raw ELSE Smaller(bound, raw)

Window(q, navs) ==
  LET phase == Phase(q)
      nav   == navs[Latest(q, navs)]
      from  == nav[Phases[phase][1]]
      to    == nav[Phases[phase][2]]
      start == IF phase = None THEN q.from ELSE Later(from, q.from)
      end   == IF phase = None THEN q.to ELSE Earlier(to, q.to)
  IN  IF phase # None /\ (Matching(q, navs) = {} \/ None \in {from, to}) THEN Closed
      ELSE IF None \notin {start, end} /\ end <= start THEN Closed
      ELSE [empty |-> FALSE, start |-> start, end |-> end]
-----------------------------------------------------------------------------
\* The part of a slice in the window.  What has not ended lasts until the window does, or
\* the trace, where the query is about resources; elsewhere it has no part in anything.
OverlapStart(s, w) == Later(s.ts, w.start)
ResourceEnd(s, w)  ==
  IF s.dur >= 0 THEN Earlier(End(s), w.end) ELSE IF w.end # None THEN w.end ELSE TraceEnd
TaskEnd(s, w)      == Earlier(End(s), w.end)

ResourceOverlap(s, w) == ResourceEnd(s, w) - OverlapStart(s, w)
TaskOverlap(s, w)     ==
  IF w.start = None /\ w.end = None THEN s.dur ELSE TaskEnd(s, w) - OverlapStart(s, w)

StartsBefore(s, w) == w.end = None \/ s.ts < w.end
TaskTouches(s, w)     == ~w.empty /\ StartsBefore(s, w) /\ (w.start = None \/ End(s) > w.start)
ResourceTouches(s, w) == ~w.empty /\ StartsBefore(s, w) /\ (w.start = None \/ ResourceEnd(s, w) > w.start)

\* chrome_tool_row_limit_with_default, of a cap no trace of the model reaches.
LimitAllowed(limit)     == limit # 0
RowsUpTo(limit, default) == IF limit = None THEN default ELSE limit
=============================================================================
