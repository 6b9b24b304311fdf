------------------------------ MODULE ToolCalls ------------------------------
(***************************************************************************)
(* server/mod.rs: the tools, from the parameters of a call to its answer.  *)
(* A handler is a sequence of steps, some of which query the trace         *)
(* processor; each of them may fail and end the call with an error.  Which *)
(* trace a call selects, and what happens when it changes, is TraceServer. *)
(***************************************************************************)
EXTENDS Responses

CONSTANTS MaxTraceRows,   \* bound: the rows a query can have
          MaxFaults       \* bound: how many queries fail for no reason of the call's

ASSUME TraceRowsAssumption == MaxTraceRows \in Nat /\ MaxFaults \in Nat

VARIABLES
  trace,    \* the trace file and the trace processor that reads it
  loaded,   \* load_trace has succeeded
  call,     \* the call being handled: the tool and its parameters
  todo,     \* the steps still to be done
  got,      \* what the steps so far have found out
  answer,   \* the last answer
  advice,   \* the tools load_trace has recommended
  seen,     \* the rows the caller has put together from pages
  faults

vars == <<trace, loaded, call, todo, got, answer, advice, seen, faults>>

Summaries == {"scroll_jank_summary", "page_load_summary", "startup_summary", "web_content_interactions"}
Hotspots  == {"resource_hotspots", "resource_pipeline", "script_hotspots", "main_thread_hotspots"}
Chrome    == Summaries \cup Hotspots \cup {"resource_summary"}
Limited   == Chrome \cup {"slice_descendants_breakdown", "list_threads_in_process"}
ToolNames == Limited \cup {"execute_sql", "list_tables", "list_processes", "list_stdlib_modules", "load_trace"}

ASSUME NoneAssumption == None \notin ToolNames \cup {"NotChrome"}

\* The handlers, step by step.
ExecuteSql            == <<"shape", "open", "rows", "format">>
ListTables            == <<"selector", "open", "rows", "format">>
ListProcesses         == <<"open", "column", "rows", "format">>
ListThreadsInProcess  == <<"selector", "open", "column", "count", "groups", "limit", "rows", "format">>
ScrollJankSummary     == <<"limit", "open", "preflight", "rows", "count", "text", "format">>
PageLoadSummary       == ScrollJankSummary
StartupSummary        == ScrollJankSummary
WebContentInteractions == ScrollJankSummary
ResourceHotspots      == <<"open", "preflight", "column", "limit", "build", "rows", "count", "text", "format">>
ResourcePipeline      == ResourceHotspots
ScriptHotspots        == ResourceHotspots
MainThreadHotspots    == ResourceHotspots
ResourceSummary       ==
  <<"open", "preflight", "column", "limit", "build", "evidence", "rows", "count", "text", "format">>
SliceDescendantsBreakdown ==
  <<"text", "limit", "open", "missing", "incomplete", "build", "rows", "count", "format">>
ListStdlibModules     == <<"limit", "format">>
LoadTrace             == <<"selector", "open", "status", "summary", "format">>

Steps ==
  [execute_sql |-> ExecuteSql, list_tables |-> ListTables, list_processes |-> ListProcesses,
   list_threads_in_process |-> ListThreadsInProcess, scroll_jank_summary |-> ScrollJankSummary,
   page_load_summary |-> PageLoadSummary, startup_summary |-> StartupSummary,
   web_content_interactions |-> WebContentInteractions, resource_hotspots |-> ResourceHotspots,
   resource_pipeline |-> ResourcePipeline, script_hotspots |-> ScriptHotspots,
   main_thread_hotspots |-> MainThreadHotspots, resource_summary |-> ResourceSummary,
   slice_descendants_breakdown |-> SliceDescendantsBreakdown,
   list_stdlib_modules |-> ListStdlibModules, load_trace |-> LoadTrace]
-----------------------------------------------------------------------------
\* The rows that a query of the tool has, without a limit: of two columns, the second of
\* a type that varies.  "float" stands for the numbers and for those JSON has no number
\* for, which become text.
Types == <<"string", "null", "blob", "odd", "float">>
Row(i) == <<Cell("varint", i), Cell(Types[((i - 1) % 5) + 1], i)>>
Rows   == [i \in 1 .. trace.rows |-> Row(i)]
Shown(rows) == [i \in DOMAIN rows |->
                  <<rows[i][1], IF rows[i][2].type = "odd" THEN Cell("null", 0) ELSE rows[i][2]>>]

\* One row per process: the threads are those of one process, or of as many as there are.
Groups == IF trace.spread THEN [i \in 1 .. trace.rows |-> 1] ELSE <<trace.rows>>
GroupRows == [i \in DOMAIN Groups |-> <<Cell("varint", i), Cell("varint", Groups[i])>>]

\* A trace with the args Chrome writes, with its metadata only, of Android, of neither.
Kinds  == {[chrome |-> c, metadata |-> m, android |-> a] : c, m, a \in BOOLEAN}
Traces == {[rows |-> n, size |-> s, spread |-> s = 1, redact |-> s = 1, lacks |-> l,
            chrome |-> k.chrome, metadata |-> k.metadata, android |-> k.android] :
             n \in 0..MaxTraceRows, s \in 1..2, k \in Kinds,
             l \in {None, "MissingTable", "MissingModule", "MissingColumn"}}

Plain == [limit |-> None, head |-> None, text |-> None, columns_only |-> FALSE, summary |-> FALSE,
          counted |-> FALSE, good |-> TRUE, page |-> FALSE, offset |-> 0, ids |-> "there", fails |-> None]

RowLimits == {None, 0, 1, MaxRows, MaxRows + 1}
Shapes ==
  [limit : RowLimits, head : {None, 1}, text : {None, 0, 1},
   columns_only : BOOLEAN, summary : BOOLEAN, counted : BOOLEAN]

SqlParams ==
  {[Plain EXCEPT !.limit = f.limit, !.head = f.head, !.text = f.text,
                 !.columns_only = f.columns_only, !.summary = f.summary, !.counted = f.counted] : f \in Shapes}
  \cup {[Plain EXCEPT !.fails = kind] :
          kind \in {"MissingTable", "MissingColumn", "AmbiguousColumn", "MissingModule", "MultipleOutputs"}}

Params(tool) ==
  CASE tool = "execute_sql" -> SqlParams
    [] tool \in {"list_tables", "load_trace"} -> {[Plain EXCEPT !.good = g] : g \in BOOLEAN}
    [] tool = "list_processes" -> {Plain}
    [] tool = "list_stdlib_modules" ->
         {[Plain EXCEPT !.limit = f.limit, !.good = f.good] : f \in [limit : RowLimits, good : BOOLEAN]}
    [] tool = "list_threads_in_process" ->
         {[Plain EXCEPT !.limit = f.limit, !.good = f.good, !.offset = f.offset] :
            f \in [limit : RowLimits, good : BOOLEAN, offset : {0, Len(seen)}]}
    [] tool \in Summaries ->
         {[Plain EXCEPT !.limit = f.limit, !.text = f.text] : f \in [limit : RowLimits, text : {None, 0}]}
    [] tool = "slice_descendants_breakdown" ->
         {[Plain EXCEPT !.limit = f.limit, !.text = f.text, !.good = f.good, !.ids = f.ids] :
            f \in [limit : RowLimits, text : {None, 0}, good : BOOLEAN, ids : {"there", "some", "missing"}]}
    [] OTHER ->
         {[Plain EXCEPT !.limit = f.limit, !.text = f.text, !.good = f.good, !.page = f.page] :
            f \in [limit : RowLimits, text : {None, 0}, good : BOOLEAN, page : BOOLEAN]}
-----------------------------------------------------------------------------
NoCall   == [tool |-> None, p |-> Plain]
Nothing  == [limit |-> None, table |-> Table(<<>>, 0, FALSE), count |-> None, groups |-> <<>>, summary |-> None]
Fault    == faults < MaxFaults /\ faults' = faults + 1
NoFault  == UNCHANGED faults
Tool     == call.tool
At(step) == todo # <<>> /\ Head(todo) = step

TypeOK ==
  /\ trace \in Traces
  /\ loaded \in BOOLEAN
  /\ Tool \in ToolNames \cup {None}
  /\ todo # <<>> => Tool # None /\ IsSuffix(todo, Steps[Tool]) /\ answer = NoAnswer
  /\ got.limit \in {None} \cup 0..MaxRows
  /\ got.count \in {None} \cup Nat
  /\ answer.status \in {"none", "ok", "error"}
  /\ advice \subseteq ToolNames \cup {"list_table_structure"}
  /\ IsPrefix(seen, Shown(Rows))
  /\ faults \in 0..MaxFaults

\* What is left out of the product: the sizes matter to traces that lack nothing.
Init ==
  /\ trace \in {t \in Traces : t.lacks = None \/ (t.rows = 1 /\ t.size = 1)}
  /\ loaded = FALSE
  /\ call = NoCall /\ todo = <<>> /\ got = Nothing
  /\ answer = NoAnswer /\ advice = {} /\ seen = <<>> /\ faults = 0

Begin(tool, p) ==
  /\ Tool = None
  /\ call' = [tool |-> tool, p |-> p]
  /\ todo' = Steps[tool]
  /\ seen' = IF p.offset = 0 THEN <<>> ELSE seen
  /\ UNCHANGED <<trace, loaded, got, answer, advice, faults>>

\* The caller has read the answer.
Return ==
  /\ answer.status # "none"
  /\ call' = NoCall /\ answer' = NoAnswer
  /\ UNCHANGED <<trace, loaded, todo, got, advice, seen, faults>>

\* A step ends the call, or the next one is up.
End(a) == todo' = <<>> /\ got' = Nothing /\ answer' = a /\ UNCHANGED <<trace, loaded, call, advice, seen>>
Go(g)  == todo' = Tail(todo) /\ got' = g /\ UNCHANGED <<trace, loaded, call, answer, advice, seen>>
Check(allowed, g) == NoFault /\ IF allowed THEN Go(g) ELSE End(Refusal("BadParam", {}))

\* The checks of parameters, wherever in the handler they are made.
CheckShape    == At("shape") /\ Check(ShapeAllowed(call.p), [got EXCEPT !.limit = Shape(call.p).limit])
CheckSelector == At("selector") /\ Check(call.p.good, got)
CheckText     == At("text") /\ Check(TextAllowed(call.p.text), got)
CheckLimit    ==
  /\ At("limit")
  /\ IF Tool = "list_stdlib_modules"
     THEN Check(call.p.good /\ call.p.limit # 0, got)       \* no cap; the domain goes with it
     ELSE Check(ToolLimit(call.p.limit).ok, [got EXCEPT !.limit = ToolLimit(call.p.limit).value])
\* The window and the thresholds, which the SQL builders check.
Build         == At("build") /\ Check(call.p.good, got)
-----------------------------------------------------------------------------
\* client_for_selected: the trace that load_trace made current, and its trace processor.
Open ==
  /\ At("open")
  /\ IF Tool # "load_trace" /\ ~loaded
     THEN End(Refusal("NoTrace", {"load_trace"})) /\ NoFault
     ELSE \/ Go(got) /\ NoFault
          \/ End(Refusal("Query", {})) /\ Fault

\* Queries that only have to work: the columns of process, the evidence of resource
\* timing, the incomplete descendants; the status of the trace processor.
Ask ==
  /\ \E step \in {"column", "evidence", "incomplete", "status"} : At(step)
  /\ \/ Go(got) /\ NoFault
     \/ End(Refusal("Query", {})) /\ Fault

\* ensure_chrome_trace.
Preflight ==
  /\ At("preflight")
  /\ \/ Go(got) /\ trace.chrome /\ NoFault
     \/ End(Refusal("NotChrome", {"list_stdlib_modules", "execute_sql"})) /\ ~trace.chrome /\ NoFault
     \/ End(Refusal("Query", {})) /\ Fault

\* fetch_missing_slice_ids: nothing to expand when all of them are gone.
Missing ==
  /\ At("missing")
  /\ \/ /\ IF call.p.ids = "missing"
           THEN End(Refusal("NoSlices", {"main_thread_hotspots", "execute_sql"})) ELSE Go(got)
        /\ NoFault
     \/ End(Refusal("Query", {})) /\ Fault

\* list_threads_in_process: the threads of every process.
CountGroups ==
  /\ At("groups")
  /\ LET table == Decode(Reply(GroupRows, 2, trace.size), None)
     IN  \/ /\ IF table.ok THEN Go([got EXCEPT !.groups = [i \in DOMAIN table.rows |-> table.rows[i][2].n]])
                           ELSE End(Refusal(table.kind, {}))
            /\ NoFault
         \/ End(Refusal("Query", {})) /\ Fault

\* collect_load_trace_summary fails and load_trace does not; a query that fails leaves
\* the trace without recommendations.
SummaryFailure == Go([got EXCEPT !.summary = "unavailable"])

Summarize ==
  /\ At("summary")
  /\ \/ Go([got EXCEPT !.summary = Profile(trace)]) /\ NoFault
     \/ SummaryFailure /\ Fault

\* The rows of the query: the limit is part of the SQL, but execute_sql's is the decoder's.
SqlLimit ==
  IF Tool = "list_threads_in_process" THEN got.limit
  ELSE IF Tool \in Summaries THEN got.limit
  ELSE IF Tool \in Limited THEN Probe(got.limit) ELSE None

Asked ==
  LET from == SubSeq(Rows, call.p.offset + 1, Len(Rows))
  IN  IF SqlLimit = None THEN from ELSE SubSeq(from, 1, Smaller(SqlLimit, Len(from)))

Lacking == IF Tool = "execute_sql" THEN call.p.fails ELSE IF Tool \in Chrome THEN trace.lacks ELSE None
Hints(kind) ==
  IF Tool = "execute_sql" THEN SqlHints(kind)
  ELSE IF Tool \in Chrome THEN ChromeHints(kind)
  ELSE IF Tool = "slice_descendants_breakdown" THEN SliceHints(kind) ELSE {}

Received(reply) ==
  LET table == Decode(reply, IF Tool = "execute_sql" THEN got.limit ELSE None)
  IN  IF table.ok THEN Go([got EXCEPT !.table = table]) ELSE End(Refusal(table.kind, Hints(table.kind)))

GetRows ==
  /\ At("rows")
  /\ LET reply == Reply(Asked, 2, trace.size)
     IN  \/ Received(IF Lacking # None THEN ErrorReply(Lacking) ELSE reply) /\ NoFault
         \/ Asked # <<>> /\ Received(Cut(reply)) /\ Fault
         \/ End(Refusal("Query", {})) /\ Fault

\* The tables of the summaries: the one whose rows a summary shows, the one it counts.  The
\* trace has rows of what the tool shows.
Listed  == [scroll_jank_summary |-> "chrome_janky_frames", page_load_summary |-> "chrome_page_loads",
            startup_summary |-> "chrome_startups",
            web_content_interactions |-> "chrome_web_content_interactions"]
Counted == [scroll_jank_summary |-> "chrome_janky_frames", page_load_summary |-> "chrome_page_loads",
            startup_summary |-> "chrome_startups",
            web_content_interactions |-> "chrome_web_content_interactions"]
RowsOfTable(table) == IF table = Listed[Tool] THEN trace.rows ELSE 0

\* The count: a query of its own for the summaries and for threads, derived from the SQL
\* for the others, which is an error when it does not work.
CountRows ==
  LET sql == CountSql(ToolSql(Tool, call.p.page))
  IN  IF Tool \in Summaries THEN Good(RowsOfTable(Counted[Tool]))
      ELSE IF Tool = "list_threads_in_process" THEN Good(trace.rows)
      ELSE IF sql.ok /\ Sound(sql.value) THEN Good(trace.rows) ELSE Bad

GetCount ==
  /\ At("count")
  /\ \/ /\ IF ~CountRows.ok THEN End(Refusal("BadSql", {}))
           ELSE IF Tool = "list_threads_in_process" /\ CountRows.value = 0
           THEN End(Refusal("NoThreads", {"list_processes"}))
           ELSE Go([got EXCEPT !.count = CountRows.value])
        /\ NoFault
     \/ End(Refusal("Query", {})) /\ Fault
-----------------------------------------------------------------------------
Domain == IF call.p.limit = None THEN None ELSE "chrome"

Formatted ==
  CASE Tool = "execute_sql" -> SqlAnswer(got.table, call.p, trace.redact)
    [] Tool \in {"list_tables", "list_processes"} -> Answer(got.table.rows, None, FALSE)
    [] Tool = "list_threads_in_process" -> PageAnswer(got.table, call.p.offset, got.count)
    [] Tool = "list_stdlib_modules" -> CatalogAnswer(Domain, call.p.limit)
    [] Tool = "load_trace" -> Answer(<<>>, None, FALSE)
    [] OTHER -> LimitedAnswer(got.table, got.limit, got.count)

Format ==
  /\ At("format")
  /\ todo' = <<>> /\ got' = Nothing /\ answer' = Formatted
  /\ loaded' = (loaded \/ Tool = "load_trace")
  /\ advice' = IF Tool # "load_trace" THEN advice
               ELSE IF got.summary = "unavailable" THEN {} ELSE RecommendedTools(got.summary)
  /\ seen' = IF Tool = "list_threads_in_process" THEN seen \o answer'.rows ELSE seen
  /\ NoFault
  /\ UNCHANGED <<trace, call>>

Next ==
  \/ \E tool \in ToolNames : \E p \in Params(tool) : Begin(tool, p)
  \/ Return \/ CheckShape \/ CheckSelector \/ CheckText \/ CheckLimit \/ Build
  \/ Open \/ Ask \/ Preflight \/ Missing \/ CountGroups \/ Summarize
  \/ GetRows \/ GetCount \/ Format

Spec == Init /\ [][Next]_vars
-----------------------------------------------------------------------------
Answered(tools) == answer.status = "ok" /\ Tool \in tools

\* A limit of rows, with what an answer within it is for this trace.
Exact(limit) ==
  /\ answer.rows = SubSeq(Shown(Rows), 1, Smaller(limit, trace.rows))
  /\ answer.count = trace.rows
  /\ answer.truncated <=> trace.rows > Len(answer.rows)

\* An answer is never a wrong one: whatever batches the reply came in, whatever went
\* missing of it and however the limit lies to the cap, the rows are the first ones of
\* the query, the count is that of the query without the limit, and "truncated" says that
\* rows are missing.  Without a limit there are all the rows or an error.
AnswersExact ==
  /\ Answered(Limited \ {"list_threads_in_process"}) => Exact(ToolLimit(call.p.limit).value)
  /\ Answered({"list_tables", "list_processes"}) => answer.rows = Shown(Rows)
  /\ Answered({"execute_sql"}) =>
       CASE Shape(call.p).mode = "columns" -> answer.rows = <<>> /\ answer.count = trace.rows
         [] Shape(call.p).mode # "columns" /\ Shape(call.p).limit # None -> Exact(Shape(call.p).limit)
         [] OTHER -> answer.rows = Shown(Rows) /\ answer.count \in {None, trace.rows}

\* A tool with a limit of its own never fails for the cap on rows or for SQL of its own
\* making: not with a limit at the cap, not when its SQL has limits within it.
\* list_threads_in_process does for a name of more processes than the cap.
OwnSqlWorks ==
  answer.status = "error" /\ Tool \in Limited =>
    /\ answer.why # "BadSql"
    /\ answer.why = "TooManyRows" => Tool = "list_threads_in_process" /\ Len(Groups) > MaxRows

\* The caller who asks for the next page until there is none has had every thread once.
PagesCover == Answered({"list_threads_in_process"}) /\ ~answer.truncated => seen = Shown(Rows)

\* No tool that load_trace recommended turns the trace down, and of the tools that an
\* error names there is one that does not need what the failed one was missing.
TurnsDown(tool, why) ==
  \/ tool \in Chrome /\ ~trace.chrome
  \/ why \in {"MissingTable", "MissingModule"} /\ tool \in Chrome
  \/ why = "NoTrace" /\ tool \notin {"load_trace", "list_stdlib_modules"}

AdviceFits ==
  /\ answer.why = "NotChrome" => Tool \notin advice
  /\ answer.hints # {} => \E tool \in answer.hints : ~TurnsDown(tool, answer.why)
=============================================================================
