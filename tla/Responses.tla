------------------------------ MODULE Responses ------------------------------
(***************************************************************************)
(* What the tool handlers compute between their queries: server/mod.rs and *)
(* response.rs (limits, the shape of execute_sql, the SQL that counts what *)
(* a limited query would have returned, the answers), errors.rs (which     *)
(* tools an error message points at), trace_summary.rs (which tools a      *)
(* loaded trace calls for) and resources.rs (the stdlib catalog).          *)
(***************************************************************************)
EXTENDS QueryRows, FiniteSets

CONSTANTS DefaultRows,   \* the rows a tool returns when no limit is given
          SummaryRows    \* DEFAULT_EXECUTE_SQL_SUMMARY_ROWS

ASSUME DefaultsAssumption == {DefaultRows, SummaryRows} \subseteq 1..MaxRows

Good(value) == [ok |-> TRUE, value |-> value]
Bad         == [ok |-> FALSE, value |-> None]

Smaller(a, b) == IF a < b THEN a ELSE b

\* bounded_tool_limit, slice_descendants_effective_limit.
ToolLimit(limit) ==
  IF limit = 0 THEN Bad ELSE Good(IF limit = None THEN DefaultRows ELSE Smaller(limit, MaxRows))

\* extra_row_probe_limit: one row more tells whether there are more, within the cap.
ProbeUncapped(limit) == limit + 1
Probe(limit)         == IF limit < MaxRows THEN limit + 1 ELSE MaxRows

TextAllowed(text) == text # 0                          \* tool_max_string_len
-----------------------------------------------------------------------------
\* execute_sql_output_shape: the mode of the answer and how many rows it is to show.
RowLimit(p) == IF p.head # None THEN p.head ELSE p.limit

ShapeAllowed(p) ==
  /\ p.head = None \/ p.limit = None
  /\ RowLimit(p) # 0
  /\ TextAllowed(p.text)
  /\ ~(p.columns_only /\ (p.summary \/ RowLimit(p) # None))

Shape(p) ==
  LET limit == IF RowLimit(p) = None THEN None ELSE Smaller(RowLimit(p), MaxRows)
  IN  CASE p.columns_only                -> [mode |-> "columns", limit |-> 0]
        [] ~p.columns_only /\ p.summary  -> [mode |-> "summary", limit |-> IF limit = None THEN SummaryRows ELSE limit]
        [] OTHER                         -> [mode |-> "rows", limit |-> limit]

\* Without any shaping the table is returned as it is, without its metadata.
ShapeActive(p, redact) ==
  p.columns_only \/ p.summary \/ RowLimit(p) # None \/ p.counted \/ p.text # None \/ redact
-----------------------------------------------------------------------------
\* The SQL of a tool, as far as counting goes: INCLUDE statements, the window of a page
\* load, which one navigation gives, the SELECT, which may pick single rows of its own,
\* and the limit on what is shown.
Picking == {"resource_summary", "resource_pipeline", "script_hotspots"}
ToolSql(tool, page) ==
  (IF tool = "main_thread_hotspots" THEN <<"include">> ELSE <<>>)
  \o (IF page THEN <<"include", "window", "limit">> ELSE <<>>)
  \o (IF tool \in Picking THEN <<"select", "limit">> ELSE <<"select">>)
  \o <<"limit">>

Limits(sql) == {i \in DOMAIN sql : sql[i] = "limit"}
Leading(sql) == {i \in DOMAIN sql : \A j \in 1..i : sql[j] = "include"}

\* count_sql_for_limited_query: everything before the last LIMIT, with the INCLUDEs kept
\* in front of the statement that counts.
OuterLimit(sql) == CHOOSE i \in Limits(sql) : \A j \in Limits(sql) : j <= i

CountSql(sql) ==
  IF Limits(sql) = {} THEN Bad
  ELSE LET body == SubSeq(sql, 1, OuterLimit(sql) - 1)
           lead == Cardinality(Leading(body))
       IN  IF lead = Len(body) THEN Bad
           ELSE Good(SubSeq(body, 1, lead) \o <<"count">> \o SubSeq(body, lead + 1, Len(body)))

\* trace_processor_shell: an INCLUDE within a statement, a count of two, a window of two
\* navigations or a SELECT left out do not do what the tool means.
Sound(sql) ==
  /\ \A i \in DOMAIN sql : sql[i] = "include" => i \in Leading(sql)
  /\ \E i \in DOMAIN sql : sql[i] = "select"
  /\ \A i \in DOMAIN sql : sql[i] = "window" => i < Len(sql) /\ sql[i + 1] = "limit"
-----------------------------------------------------------------------------
\* What an answer says: the rows shown, how many there are, whether that is known, and
\* whether rows are missing.
Answer(rows, count, truncated) ==
  [status |-> "ok", why |-> None, rows |-> rows, count |-> count, truncated |-> truncated, hints |-> {}]
Refusal(why, hints) ==
  [status |-> "error", why |-> why, rows |-> <<>>, count |-> None, truncated |-> FALSE, hints |-> hints]
NoAnswer == [Answer(<<>>, None, FALSE) EXCEPT !.status = "none"]

\* format_execute_sql_decoded_response_with_redaction.
SqlAnswer(table, p, redact) ==
  LET shape == Shape(p)
  IN  IF ~ShapeActive(p, redact) THEN Answer(table.rows, None, FALSE)
      ELSE CASE shape.mode = "columns" -> Answer(<<>>, table.count, FALSE)
             [] shape.mode = "summary" \/ (shape.mode = "rows" /\ shape.limit # None) ->
                  Answer(SubSeq(table.rows, 1, Smaller(shape.limit, Len(table.rows))), table.count,
                         table.truncated \/ table.count > shape.limit)
             [] OTHER -> Answer(table.rows, table.count, FALSE)

\* The answers of the chrome tools and of slice_descendants_breakdown: the rows up to the
\* limit, against the count that a query of its own gave.
LimitedAnswer(table, limit, count) ==
  LET rows == SubSeq(table.rows, 1, Smaller(limit, Len(table.rows)))
  IN  Answer(rows, count, count > Len(rows))

\* format_list_threads_response, for one page.
MoreWhenFull(count, offset, returned) == returned > DefaultRows
More(count, offset, returned)         == count > offset + returned
PageAnswer(table, offset, count) ==
  Answer(table.rows, count, More(count, offset, Len(table.rows)))
-----------------------------------------------------------------------------
\* errors.rs, chrome.rs, mod.rs: the tools that the message of an error names.
SqlHints(kind) ==
  CASE kind = "MissingTable"                       -> {"list_tables", "list_table_structure"}
    [] kind \in {"MissingColumn", "AmbiguousColumn"} -> {"list_table_structure"}
    [] kind = "MissingModule"                      -> {"list_stdlib_modules"}
    [] kind = "MultipleOutputs"                    -> {"execute_sql"}
    [] OTHER                                       -> {}

ChromeHints(kind) ==
  CASE kind = "MissingTable"  -> {"list_tables"}
    [] kind = "MissingModule" -> {"execute_sql"}
    [] kind = "MissingColumn" -> {"list_table_structure"}
    [] OTHER                  -> {}

SliceHints(kind) ==
  CASE kind = "MissingTable"  -> {"list_tables", "execute_sql"}
    [] kind = "MissingColumn" -> {"list_table_structure"}
    [] OTHER                  -> {}

\* build_load_trace_summary and recommended_tools.
ProfileOfMetadata(trace) == IF trace.metadata THEN "chrome" ELSE IF trace.android THEN "android" ELSE "generic"
Profile(trace)           == IF trace.chrome THEN "chrome" ELSE IF trace.android THEN "android" ELSE "generic"

RecommendedTools(profile) ==
  CASE profile = "chrome"  -> {"page_load_summary", "resource_summary", "resource_pipeline", "resource_hotspots",
                               "script_hotspots", "scroll_jank_summary", "main_thread_hotspots",
                               "web_content_interactions", "list_processes", "execute_sql"}
    [] profile = "android" -> {"list_stdlib_modules", "list_processes", "list_threads_in_process", "execute_sql"}
    [] OTHER               -> {"list_tables", "list_table_structure", "list_processes", "execute_sql"}

\* filtered_stdlib_modules_json: the entries that match, and of those the first ones.
Catalog == <<"chrome", "chrome", "android", "generic">>      \* the domains of the entries
CatalogAnswer(domain, limit) ==
  LET matching == SelectSeq([i \in DOMAIN Catalog |-> <<i, Catalog[i]>>],
                            LAMBDA e : domain = None \/ e[2] = domain)
  IN  Answer(SubSeq(matching, 1, IF limit = None THEN Len(matching) ELSE Smaller(limit, Len(matching))),
             None, FALSE)
=============================================================================
