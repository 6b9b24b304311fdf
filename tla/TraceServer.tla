---------------------------- MODULE TraceServer ----------------------------
(***************************************************************************)
(* PerfettoMcpServer (server/mod.rs): concurrent load_trace, execute_sql   *)
(* and list_table_structure calls over TracePool, the abstraction of the   *)
(* trace processor manager that InstanceManager implements.                *)
(*                                                                         *)
(* A trace_id is the hash of a trace key, and a key is what identifies the *)
(* content of a file: its canonical path and its version.  Trace paths are *)
(* names, which may be symbolic links.  A step is what a call does between *)
(* two awaits or two looks at the file system.                             *)
(***************************************************************************)
EXTENDS Naturals, Sequences, SequencesExt

CONSTANTS Names,         \* trace paths as users write them
          Files,         \* canonical paths
          Loads,         \* load_trace calls
          Queries,       \* execute_sql calls
          Structures,    \* list_table_structure calls
          Slots,         \* slots of the pool
          Batches,       \* bound: the path lists load_trace is called with
          Link,          \* the file each name leads to at first
          MaxVersion,    \* bound: how often a file is rewritten
          MaxRetargets,  \* bound: how often symbolic links are retargeted
          None           \* no trace

Requests == Loads \cup Queries \cup Structures

ASSUME ServerAssumption ==
  /\ Link \in [Names -> Files]
  /\ Batches \subseteq Seq(Names) \ {<<>>}
  /\ MaxVersion \in Nat /\ MaxRetargets \in Nat /\ None \notin Names
  /\ Loads \cap Queries = {} /\ Loads \cap Structures = {} /\ Queries \cap Structures = {}

VARIABLES
  version,    \* the version of each file on disk
  target,     \* the file each name leads to
  retargets,  \* how many links were retargeted
  ledBack,    \* history: calls, and the key of each, whose link was led back to the
              \* file selected while get_client ran
  session,    \* the client each call has from the pool
  made,       \* the slots whose process has the view a query made
  kept,       \* the idle processes the pool keeps
  current,    \* current_trace
  loaded,     \* loaded_traces: the path behind each trace_id
  schema,     \* schema_cache: whose table structure is kept under each key
  pc,         \* where each call stands
  batch,      \* the paths of a load_trace call
  reports,    \* the keys it has reports for
  count,      \* how many of them it has registered
  name,       \* the path a call works on
  key         \* the key it selected; None for a query of the current trace

links == <<target, retargets, ledBack>>
disk  == <<version, links>>
pool  == <<version, session, made, kept>>
state == <<current, loaded, schema>>
load  == <<batch, reports, count>>
vars  == <<version, target, retargets, ledBack, session, made, kept, current, loaded,
           schema, pc, batch, reports, count, name, key>>

Keys == [file : Files, version : 0..MaxVersion]
Pool == INSTANCE TracePool WITH Paths <- Files, Tasks <- Requests

ASSUME NoneAssumption == None \notin Keys
-----------------------------------------------------------------------------
KeptProcess == [file : Files, version : 0..MaxVersion, made : BOOLEAN]

PCs == {"new", "fetch", "screen", "lookup", "verify", "ask", "wait", "check", "use",
        "recheck", "register", "publish", "store", "done"}

TypeOK ==
  /\ Pool!PoolTypeOK
  /\ target \in [Names -> Files]
  /\ retargets \in 0..MaxRetargets
  /\ ledBack \subseteq Requests \X Keys
  /\ made \subseteq Slots
  /\ kept \subseteq KeptProcess
  /\ current \in Names \cup {None}
  /\ loaded \in [Keys -> Names \cup {None}]
  /\ schema \in [Keys -> Keys \cup {None}]
  /\ pc \in [Requests -> PCs]
  /\ batch \in [Loads -> Batches \cup {<<>>}]
  /\ reports \in [Loads -> Seq(Keys)]
  /\ count \in [Loads -> Nat]
  /\ name \in [Requests -> Names \cup {None}]
  /\ key \in [Requests -> Keys \cup {None}]
  /\ \A r \in Requests : pc[r] \notin {"new", "fetch", "done"} => name[r] # None

Init ==
  /\ Pool!PoolInit
  /\ target = Link
  /\ retargets = 0
  /\ ledBack = {}
  /\ made = {}
  /\ kept = {}
  /\ current = None
  /\ loaded = [k \in Keys |-> None]
  /\ schema = [k \in Keys |-> None]
  /\ pc = [r \in Requests |-> "new"]
  /\ batch = [r \in Loads |-> <<>>]
  /\ reports = [r \in Loads |-> <<>>]
  /\ count = [r \in Loads |-> 0]
  /\ name = [r \in Requests |-> None]
  /\ key = [r \in Requests |-> None]
-----------------------------------------------------------------------------
\* The environment: files are rewritten, links retargeted, idle processes evicted.
WriteFile(f) ==
  /\ version[f] < MaxVersion
  /\ Pool!Rewrite(f)
  /\ UNCHANGED <<links, made, kept, state, pc, load, name, key>>

WaitsFor(n, f) == {r \in Requests : /\ pc[r] \in {"wait", "check"} /\ name[r] = n
                                    /\ key[r] # None /\ key[r].file = f}

Retarget(n, f) ==
  /\ retargets < MaxRetargets
  /\ target[n] # f
  /\ target' = [target EXCEPT ![n] = f]
  /\ retargets' = retargets + 1
  /\ ledBack' = ledBack \cup {<<r, key[r]>> : r \in WaitsFor(n, f)}
  /\ UNCHANGED <<pool, state, pc, load, name, key>>

Evict(k) ==
  /\ kept' = kept \ {k}
  /\ UNCHANGED <<disk, session, made, state, pc, load, name, key>>

\* trace_schema_cache_key and ensure_trace_key_matches.
KeyOf(n)      == [file |-> target[n], version |-> version[target[n]]]
KeyAnyway(r)  == TRUE
KeyMatches(r) == KeyOf(name[r]) = key[r]

\* The content the client of a call reads, and the calls on its process.
Content(r)   == [file |-> session[r].path, version |-> session[r].from]
Connected(r) == session[r] \in Pool!Open
Sharing(s)   == {u \in Requests : Connected(u) /\ session[u].slot = s}

\* The client is dropped: the last one of a process leaves it idle (to be evicted at
\* once if the pool no longer has it registered).
HangUp(r) ==
  /\ session' = [session EXCEPT ![r] = Pool!Closed]
  /\ IF Connected(r) /\ Sharing(session[r].slot) = {r}
     THEN /\ kept' = kept \cup {[file |-> session[r].path, version |-> session[r].from,
                                 made |-> session[r].slot \in made]}
          /\ made' = made \ {session[r].slot}
     ELSE UNCHANGED <<kept, made>>

\* The call returns, with an answer or an error, or its future is dropped.
Return(r) ==
  /\ HangUp(r)
  /\ pc' = [pc EXCEPT ![r] = "done"]

Goto(r, l) == pc' = [pc EXCEPT ![r] = l]

\* ensure_trace_key_matches(...)?
EnsureThen(r, l) ==
  IF KeyMatches(r) THEN Goto(r, l) /\ UNCHANGED <<session, made, kept>>
                   ELSE Return(r)
-----------------------------------------------------------------------------
\* load_trace: prepare_loaded_trace for one path after the other.
LoadTrace(r, b) ==
  /\ pc[r] = "new"
  /\ batch' = [batch EXCEPT ![r] = b]
  /\ Goto(r, "fetch")
  /\ UNCHANGED <<disk, session, made, kept, state, reports, count, name, key>>

FetchKey(r) ==
  /\ pc[r] = "fetch"
  /\ LET n == batch[r][Len(reports[r]) + 1] IN
       /\ name' = [name EXCEPT ![r] = n]
       /\ key' = [key EXCEPT ![r] = KeyOf(n)]
  /\ Goto(r, "ask")
  /\ UNCHANGED <<disk, session, made, kept, state, load>>

\* The status query, then the best-effort summary.
ReadStatus(r) ==
  /\ pc[r] = "use"
  /\ \/ Goto(r, "recheck") /\ UNCHANGED <<session, made, kept>>
     \/ Return(r)
  /\ UNCHANGED <<disk, state, load, name, key>>

\* The report is complete, and the client goes before the next path's turn.
ClientKept(r) == UNCHANGED <<session, made, kept>>
Released(r)   == HangUp(r)

\* Only when every trace of the batch is open is any of them registered.
AfterReportEach(r) == "register"
AfterReport(r)     == IF Len(reports'[r]) < Len(batch[r]) THEN "fetch" ELSE "register"

Report(r) ==
  /\ pc[r] = "recheck"
  /\ IF KeyMatches(r)
     THEN /\ reports' = [reports EXCEPT ![r] = Append(@, key[r])]
          /\ Goto(r, AfterReport(r))
          /\ Released(r)
     ELSE Return(r) /\ UNCHANGED reports
  /\ UNCHANGED <<disk, state, batch, count, name, key>>

\* register_loaded_trace for each, then current_trace.

Register(r) ==
  /\ pc[r] = "register"
  /\ count' = [count EXCEPT ![r] = @ + 1]
  /\ loaded' = [loaded EXCEPT ![reports[r][count'[r]]] = batch[r][count'[r]]]
  /\ Goto(r, IF count'[r] < Len(reports[r]) THEN "register" ELSE "publish")
  /\ UNCHANGED <<disk, session, made, kept, current, schema, batch, reports, name, key>>

Publish(r) ==
  /\ pc[r] = "publish"
  /\ current' = Last(batch[r])
  /\ Return(r)
  /\ UNCHANGED <<disk, loaded, schema, load, name, key>>
-----------------------------------------------------------------------------
\* execute_sql and list_table_structure: trace_for_selector.
SelectCurrent(r) ==
  /\ pc[r] = "new"
  /\ IF current = None
     THEN Return(r) /\ UNCHANGED <<name, key>>
     ELSE /\ name' = [name EXCEPT ![r] = current]
          /\ key' = [key EXCEPT ![r] = IF r \in Structures THEN KeyOf(current) ELSE None]
          /\ Goto(r, IF r \in Structures THEN "lookup" ELSE "ask")
          /\ UNCHANGED <<session, made, kept>>
  /\ UNCHANGED <<disk, state, load>>

Known(id) == loaded[id] # None

SelectId(r, id) ==
  /\ pc[r] = "new"
  /\ IF ~Known(id)
     THEN Return(r) /\ UNCHANGED <<name, key>>
     ELSE /\ name' = [name EXCEPT ![r] = loaded[id]]
          /\ key' = [key EXCEPT ![r] = id]
          /\ Goto(r, IF r \in Structures THEN "screen" ELSE "verify")
          /\ UNCHANGED <<session, made, kept>>
  /\ UNCHANGED <<disk, state, load>>

\* list_table_structure checks an id before it looks into the cache.
Screen(r) ==
  /\ pc[r] = "screen"
  /\ EnsureThen(r, "lookup")
  /\ UNCHANGED <<disk, state, load, name, key>>

Lookup(r) ==
  /\ pc[r] = "lookup"
  /\ IF schema[key[r]] # None THEN Return(r)
                              ELSE Goto(r, "verify") /\ UNCHANGED <<session, made, kept>>
  /\ UNCHANGED <<disk, state, load, name, key>>

\* client_for_trace: the key is compared before and after get_client.
Verify(r) ==
  /\ pc[r] = "verify"
  /\ EnsureThen(r, "ask")
  /\ UNCHANGED <<disk, state, load, name, key>>

\* client_for: get_client resolves the path anew.
Ask(r) ==
  /\ pc[r] = "ask"
  /\ Pool!Ask(r, target[name[r]])
  /\ Goto(r, "wait")
  /\ UNCHANGED <<links, made, kept, state, load, name, key>>

\* A process in use is shared; else an idle one is reused, or a new one takes its place.
Connect(r) ==
  /\ pc[r] = "wait"
  /\ \E s \in Slots :
       /\ Pool!Connect(r, s)
       /\ \/ Sharing(s) # {} /\ UNCHANGED <<made, kept>>
          \/ \E k \in kept : /\ Sharing(s) = {}
                             /\ k.file = session'[r].path /\ k.version = session'[r].from
                             /\ kept' = kept \ {k}
                             /\ made' = IF k.made THEN made \cup {s} ELSE made
          \/ /\ Sharing(s) = {}
             /\ kept' = {k \in kept : k.file # session[r].path}
             /\ UNCHANGED made
  /\ Goto(r, IF key[r] = None THEN "use" ELSE "check")
  /\ UNCHANGED <<links, state, load, name, key>>

GetClientFails(r) ==
  /\ pc[r] \in {"ask", "wait"}
  /\ Return(r)
  /\ UNCHANGED <<disk, state, load, name, key>>

Check(r) ==
  /\ pc[r] = "check"
  /\ EnsureThen(r, "use")
  /\ UNCHANGED <<disk, state, load, name, key>>

\* A statement may include a stdlib module, which makes views in the process; the
\* answer is of that process.
IncludeModule(r) ==
  /\ pc[r] = "use"
  /\ session[r].slot \notin made
  /\ made' = made \cup {session[r].slot}
  /\ UNCHANGED <<disk, session, kept, state, pc, load, name, key>>

Answer(r) ==
  /\ pc[r] = "use"
  /\ Return(r)
  /\ UNCHANGED <<disk, state, load, name, key>>

\* PRAGMA table_info of a view: its columns, or an error when the process has none.
TableInfo(r) ==
  /\ pc[r] = "use"
  /\ \/ session[r].slot \in made /\ Goto(r, "store") /\ UNCHANGED <<session, made, kept>>
     \/ Return(r)
  /\ UNCHANGED <<disk, state, load, name, key>>

StoreStructure(r) ==
  /\ pc[r] = "store"
  /\ schema' = [schema EXCEPT ![key[r]] = Content(r)]
  /\ Return(r)
  /\ UNCHANGED <<disk, current, loaded, load, name, key>>

\* The caller cancels the request or goes away.
Cancel(r) ==
  /\ pc[r] \notin {"new", "done"}
  /\ Return(r)
  /\ UNCHANGED <<disk, state, load, name, key>>
-----------------------------------------------------------------------------
Begin(r) ==
  \/ r \in Loads /\ \E b \in Batches : LoadTrace(r, b)
  \/ r \notin Loads /\ (SelectCurrent(r) \/ \E id \in Keys : SelectId(r, id))

Proceed(r) ==
  \/ Verify(r) \/ Ask(r) \/ Connect(r) \/ Check(r)
  \/ r \in Loads /\ (FetchKey(r) \/ ReadStatus(r) \/ Report(r) \/ Register(r) \/ Publish(r))
  \/ r \in Queries /\ (IncludeModule(r) \/ Answer(r))
  \/ r \in Structures /\ (Screen(r) \/ Lookup(r) \/ TableInfo(r) \/ StoreStructure(r))

Next ==
  \/ \E f \in Files : WriteFile(f)
  \/ \E n \in Names, f \in Files : Retarget(n, f)
  \/ \E k \in kept : Evict(k)
  \/ \E r \in Requests : Begin(r) \/ Proceed(r) \/ GetClientFails(r) \/ Cancel(r)

Spec == Init /\ [][Next]_vars

\* A call that can run does; one that waits for a slot gets one that is free again
\* and again, as InstanceManager!CallsReturn says of get_client.
Fairness == \A r \in Requests : SF_vars(Proceed(r))

FairSpec == Spec /\ Fairness
-----------------------------------------------------------------------------
\* A call that selected a content reads that content, and nothing that replaced it
\* before, while or after it waited for its client, and no other file its link leads to;
\* but for a link that leaves the file and is led back to it while get_client runs, which
\* the key checks around it cannot see.
ReadsSelected ==
  \A r \in Requests :
    pc[r] \in {"use", "recheck", "store"} /\ key[r] # None /\ <<r, key[r]>> \notin ledBack =>
      Content(r) = key[r]

\* A table structure is cached under the content it was read from: the cache never
\* answers for a trace with the columns of another, or of its past.  The one call that
\* can store another content's is one whose link was led back as above.
SchemaExact ==
  [][\A k \in Keys :
       \/ schema'[k] \in {schema[k], k}
       \/ \E r \in Structures : pc[r] = "store" /\ key[r] = k /\ <<r, k>> \in ledBack]_vars

Prepared(r) == Len(reports[r]) = Len(batch[r])

\* "A failed batch must not redirect subsequent tools to a half-loaded trace": only
\* a load with all its clients found healthy registers or selects anything, and
\* what becomes current has its id, with those of the whole batch.
BatchAtomic ==
  [][/\ loaded' # loaded => \E r \in Loads : pc[r] = "register" /\ Prepared(r)
     /\ current' # current =>
          \E r \in Loads : /\ pc[r] = "publish" /\ Prepared(r)
                           /\ \A i \in DOMAIN batch[r] : loaded[reports[r][i]] # None]_vars

\* A load_trace of more traces than the pool has slots ends, also when others run:
\* no call waits for a slot with a client of another trace in its hands.
CallsEnd == \A r \in Requests : pc[r] # "new" ~> pc[r] = "done"

\* README.md:139 "If a loaded file changes on disk, its old id is rejected", and
\* CHANGELOG.md:19 says so of a retargeted link "instead of silently querying new
\* contents": not when the link is back before get_client returns.
IdNeverServesOthers ==
  \A r \in Queries : pc[r] = "use" /\ key[r] # None => Content(r) = key[r]

\* "Errors when: the table doesn't exist" (list_table_structure): not when its
\* structure was cached before the process that had the view was evicted.
StructureOfExisting ==
  \A r \in Structures : pc[r] = "lookup" /\ schema[key[r]] # None =>
    \/ \E k \in kept : k.made /\ k.file = key[r].file /\ k.version = key[r].version
    \/ \E u \in Requests : Connected(u) /\ Content(u) = key[r] /\ session[u].slot \in made
=============================================================================
