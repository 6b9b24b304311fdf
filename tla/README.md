# perfetto-mcp-rs: TLA+ models and proofs

perfetto-mcp-rs is an MCP server. A client (an LLM agent) asks it to load Perfetto
traces and to run SQL on them; it keeps one `trace_processor_shell` child process
per trace and talks HTTP to it. This directory models the server in TLA+ (its concurrent
core, the tools and what their SQL selects, the identity of trace files, the binary it
downloads, its installation), model-checks it with TLC, and proves its safety properties
with TLAPS: for any number of traces, callers, permits, servers, rows and slices.

## 1. The system

| Part (source) | State it keeps | Operations | Correct when | Modelled |
|---|---|---|---|---|
| Trace processor manager (`src/tp_manager.rs` 461-930) | registry of instances by canonical path with fingerprint, lease count and permit; LRU of idle paths; semaphore of active generations; map of per-path spawn locks | `get_client`, drop of the client (lease) | one process per path and fingerprint; never killed in use; bounded processes; never older content than asked for; calls return | `InstanceManager`, `TracePool` |
| MCP server (`src/server/mod.rs`) | `current_trace`, `loaded_traces` by id, `schema_cache` by trace key | `load_trace`, `execute_sql`, `list_table_structure`, some twenty read-only tools | an id is answered from the content it names; a failed batch changes nothing; batches do not deadlock | `TraceServer` (the three with shared state), `ToolCalls` (all handlers) |
| Child startup (`tp_manager.rs` 282-439, 969-1161) | readiness state from stderr, `/status` fallback with a stability window, deadline | `spawn`, `wait_ready`, output drains | ready only when our child has the port and serves our trace; a quiet window before an unmarked success; a bounded wait | `Startup`; one step of `InstanceManager` |
| Ports (`tp_manager.rs` 931-967) | `next_port` | sweep with wrap-around, probe | every port tried once, never below the first; two children in startup on two ports | `PortSweep`, `Loading` |
| Fingerprint and trace key (`tp_manager.rs` 75-252, `server/mod.rs`) | none | metadata, head/middle/tail samples or full hash, stability check | what is loaded is what was identified, although it is read in pieces while others write | `TraceFiles`, `Loading`; a version elsewhere |
| Download cache (`src/download.rs`) | binary, sidecar digest, temp files | verify, heal, download, retry | a damaged binary is replaced; a crash between binary and sidecar heals; a good cache stays good | `BinaryCache` |
| HTTP client (`src/tp_client.rs`) | the lease behind the client | `query`, `status` | the process lives as long as a clone of the client | in `InstanceManager` (lease), `TraceServer` (use) |
| Query decoding (`src/query.rs`), response shaping (`src/server/response.rs`), parameters (`src/params.rs`), errors and summaries | none | cells to rows, limits, counts, truncation, paging, hints | rows, counts and truncation flags are exact or there is an error; advice leads somewhere | `QueryRows`, `Responses`, `ToolCalls` |
| SQL templates (`src/sql_templates/`) | none | six analyses of a window of a trace | durations are of the window; nothing is counted twice; a drill-down finds what it was given | `TraceSlices`, `PageWindow`, `SliceQueries`, `ResourceQueries`, `Analyses` |
| Install / uninstall (`src/install.rs`, `install.sh`, `uninstall.sh`), update (`src/self_update.rs`, `src/check_update.rs`), entry (`src/main.rs`) | registrations with the MCP clients, the installed binary, the cache | remove/add per client, download/place/verify, check | a partial failure is reported and leaves something usable | `Registration`, `Installation` |
| Telemetry, logging, JSON schemas, redaction, the catalog's texts | none | text | - | not modelled |

How they interact. A tool call of the server resolves a trace (by id or the current
one), reads the trace key from disk, asks the manager for a client, and reads the key
again. `get_client` computes a fingerprint, takes the spawn lock of the path, looks
into the registry, waits for a permit, looks again, and spawns a child when it must;
the client it returns holds a *lease*: an `Arc` on the instance and one on the permit.
Dropping the last clone of the client releases the lease, which may put the instance
into the idle LRU and evict another.

What is hard about it. Calls interleave at every await. The fingerprint is computed
before any lock and is old when it is used. The spawn-lock `Arc`s leave the map by
reference count while callers queue for them. Leases outlive the generation they were
given for. Futures are dropped at any await (the caller cancels), with a lock, a
permit or a half-started child in their hands. A child listens only after it has loaded
its trace, long after its port was probed, and its word on stderr races the answers of
whoever has the port. Trace files are rewritten and links
retargeted at any time. Permits are held for as long as a query runs. A trace is known by
metadata and samples that are read one after the other. Counts and "truncated" come from
other queries than the rows they describe. Slices that had not ended have a duration of -1.
Installation is a sequence of other programs' commands, any of which fails or is killed.

## 2. The modules

- **`TracePool`** states what the manager promises, with registry, LRU, locks and
  semaphore hidden: a call asks for a path at the version its fingerprint names; it
  gets a *session* with a process that began to read the trace at that version or
  later; a session occupies one of a fixed number of slots and shares it only with
  sessions of the same path, fingerprint and process.
- **`InstanceManager`** is `tp_manager.rs` step by step. Each variable is a field of
  the code (`instances`, `idle`, `spawnLocks`), or the locals of one call (`path`,
  `fp`, `lock`, `permit`, `inst`, `doomed`, with `pc` for where it stands). Arcs are
  identities: an instance, permit or lock is free when nothing refers to it, and a
  process dies with the last reference to its instance (`KillUnreferenced`, the code's
  `kill_on_drop`). `Pool` instantiates `TracePool` under the refinement mapping
  `Session`.
- **`MCInstanceManager`** gives TLC its instances: what each caller asks for, symmetry
  of callers and traces, and the view `UpToIdentity`, which names an Arc by who refers
  to it and so identifies states that differ only in which identity plays which role.
- **`InstanceManagerProofs`** proves all safety properties of `InstanceManager` and that it
  implements `TracePool` (section 5).
- **`TraceServer`** is `server/mod.rs` over the abstract pool: its steps use
  `TracePool`'s `Ask`, `Connect` and `Rewrite`, so what is checked of it holds over the
  manager as far as the manager implements the pool. A trace key is the canonical
  file and its version; a trace id is the hash of a key and is the key here. Names
  (paths as written) lead to files through links. `made` and `kept` follow the views a
  stdlib module makes in a process, and the idle processes the manager keeps.
- **`MCTraceServer`** gives TLC its names, links and batches; **`TraceServerProofs`** proves the
  safety properties.
- **`Startup`** is `TraceProcessorInstance::spawn` with `wait_ready_with_status`, the
  stderr drain (`update_startup_state`, the one send on the watch channel) and `/status`.
  The environment is the child (`Listens`, `CannotListen`, `Exits`) and one other server
  on the port (`OtherListens`, `OtherStops`). A trace name in an answer is the expected
  one, none, or another: `status_matches_expected_trace` tells no more apart.
- **`StartupProofs`** proves its safety properties.
- **`BinaryCache`** is `ensure_binary` of the server processes of one user, which share a
  cache directory. The disk is the binary and the sidecar; a call verifies, heals or
  downloads, and the OnceCell of the manager ends it for the life of the process. The
  environment damages the binary, removes either file (`clean_cache`), restarts servers
  and cancels calls. `alone`, `fresh` and `vouched` are history variables of the properties.
- **`BinaryCacheProofs`** proves its safety properties.

- **`QueryRows`** is the decoder of `query.rs` as functions: a reply is batches of cell
  types with one list of values per type; `Decode` gives rows, count and truncation, or
  the kind of the failure.
- **`Responses`** is what the handlers compute between queries: limits, the shape of
  `execute_sql`, `CountSql` (the SQL that counts is the other one cut at its last LIMIT,
  with its INCLUDEs in front), the answers, the tools an error points at and the ones a
  loaded trace calls for.
- **`ToolCalls`** is the handlers: a tool is a sequence of steps (`Steps`), each an action
  that goes on or ends the call. A caller makes any calls one after the other, turns
  pages, and follows advice. Its trace is a number of rows, which the replies carry in
  batches, and what the trace lacks. `TraceServer` has what happens when traces change;
  here they do not.
- **`TraceSlices`**, **`PageWindow`**, **`SliceQueries`**, **`ResourceQueries`** are the SQL of
  the analysis tools as set expressions, one definition per common table expression, over a
  trace that is a sequence of slices. **`Analyses`** records a trace slice by slice, asks a
  question, and asks the pipeline about an example of the answer.
- **`PortSweep`** is the choice of a port, **`TraceFiles`** one pass over a trace file, block
  by block. **`Loading`** composes them with `load_trace`, `get_client` and the registry for
  one trace: key, fingerprint, reuse or a child on a port, and the key again, each read a
  step, while others overwrite, resize or replace the file.
- **`Registration`** is the install and uninstall subcommands, one call of a client's tool per
  step. **`Installation`** puts it into the commands a user runs (install, `install.sh`,
  update, `uninstall.sh`, check-update, the server), with new releases and clients put on
  PATH between them. A failure of any step and a kill at any step count against `MaxFaults`.
- **`ToolCallsProofs`**, **`AnalysesProofs`**, **`LoadingProofs`** and **`InstallationProofs`** prove
  the safety properties of these.

Granularity. `inner` is a `std::sync::Mutex` never held across an await, so each of its
sections is one step; so is what runs between two awaits without touching shared state.
What the code does *after* unlocking is a step of its own, because other threads run in
between: dropping a removed or evicted entry (`DropRemoved`, `DropEvicted`), the fields
of a lease after its `Drop`, the instance and then the permit (`DropInstance`,
`DropPermit`), the call's own `Arc` of the path lock after
the guard (`Return`). In `Startup` the waiting task is at `check` (about to look at the
child and the watch channel), at `status` (a request in flight), or at `pause`; what it
does from one of these to the next is one step. `clock` counts poll intervals, and
advances only while the task awaits: the time a runnable task waits to be polled is taken
to be nothing. The phase of the wait is not a variable, because the clock decides it.

| `InstanceManager` action | Code |
|---|---|
| `Resolve`, `TakeSpawnLock` | `resolve_trace_identity`, `ensure_binary`, `spawn_lock` |
| `FirstLookup`, `SecondLookup` = `CachedClient`: `Miss`, `Invalidate`, `Hit`, `NeedsPermit`, `PollFails` | the two `cached_client` calls of `get_or_spawn_instance_locked` |
| `DropRemoved` | `drop(removed)` after the lock on `inner` |
| `SpawnStart`, `SpawnReady`, `SpawnFails` | `TraceProcessorInstance::spawn`, the insertion, each `?` on the way |
| `CleanupSpawnLock`, `Return` | `cleanup_spawn_lock`, the end of `get_or_spawn_instance` |
| `Cancel` | the future dropped at an await, or `ensure_binary` failing |
| `DropLease`, `DropEvicted`, `DropInstance`, `DropPermit` | `Drop for TraceProcessorInstanceLease`, `release_lease`, the lease's fields in their order |
| `WriteFile`, `Exit` | the environment: a trace rewritten, a child dying |

| `Startup` action | Code |
|---|---|
| `DrainLine` | one line read by `spawn_output_drain`, `update_startup_state`, `tx.send` and `startup_tx = None` |
| `ChildGone`, `BindFailed`, `KeepWaiting`, `AskStatus` | the loop from `try_wait` to the first await, by the state read from `startup_rx` |
| `AnswerReady`, `AnswerFallback`, `AnswerWrong`, `StatusFails` | what `check_status()` returned, `ok_since`, then the deadline (`EndIteration`) |
| `Wake`, `Tick` | the `select!` at the end of the loop; time |

| `ToolCalls` action | Code |
|---|---|
| `Begin`, `Return` | the call of a tool with its parameters; its answer read |
| `CheckShape`, `CheckSelector`, `CheckText`, `CheckLimit`, `Build` | the parameter checks, at the place in each handler where it makes them |
| `Open` | `client_for_selected` |
| `Preflight`, `Missing`, `CountGroups`, `Ask`, `Summarize` | `ensure_chrome_trace`, `fetch_missing_slice_ids`, the counts per process, queries that only have to work, `collect_load_trace_summary` |
| `GetRows`, `GetCount` | the query and its decoding; the count query |
| `Format` | the `format_*` functions of `response.rs` |

| `Loading` action | Code |
|---|---|
| `LoadTrace`, `ReadBlock`, `ReadFails`, `KeyRead` | `trace_schema_cache_key`: metadata, then `trace_file_content_sha256` block by block |
| `BeginFingerprint`, `FingerprintRead`, `FingerprintChanged` | `TraceFileFingerprint::from_path` and `ensure_trace_file_metadata_stable` |
| `Reuse`, `Allocate`, `NoFreePort`, `SpawnReady`, `SpawnFails` | `cached_client`, `allocate_next_port`, the spawn and the insertion |
| `BeginCheck`, `Loaded`, `Changed` | the last `ensure_trace_key_matches` of `load_trace` |
| `OtherSpawns`, `OtherEnds` | a child of another trace, on the same counter |
| `Overwrite`, `Resize`, `Replace`, `Tick` | the environment: the file in place, by rename, and the clock that stamps it |

| `Installation` action | Code |
|---|---|
| `Turn`, `RemoveLegacy`, `RemoveServer`, `RemoveFails`, `Add`, `CleanCache` | the steps of `run_install` and `run_uninstall` for one client, `clean_cache` |
| `Resolve`, `FetchInstaller`, `Verify` | `run_inner` of update, `verify_installed_version` |
| `Download`, `PlaceBinary`, `PlaceFails` | `install.sh` |
| `Probe`, `ProbeFails`, `Fallback`, `Unlink` | `uninstall.sh` around the subcommand: `--help`, its failure, no binary, the removal |
| `CheckBinary`, `Report` | the start and the exit status of the subcommands |
| `CheckUpdate`, `Serve` | check-update; `main` with its timeouts |
| `Release`, `ChangePath`, `ServerExits`, `Kill` | the environment |

## 3. What the runs check

| Run (cfg) | Instance | Properties | Result |
|---|---|---|---|
| `ManagerShared` | 3 callers, 2 traces, 1 permit, 1 rewrite per trace | `TypeOK`, `SpawnExclusive`, `ContentFresh`, `ProcessesBounded` | hold, about 620 thousand states |
| `ManagerPool` | 2 callers, 3 traces, 2 permits, LRU of 1, 1 rewrite | `LeasesCounted`, `IdleExact`, `PermitsCover`, `ActiveStays`, `ImplementsPool` | hold, about 850 thousand states |
| `ManagerCalls` | 3 callers (two share a trace), 1 permit, fairness | `CallsReturn` | holds, 148 thousand states |
| `ServerRouting` | a load of one or two traces, a query, a table structure; 1 slot, 1 rewrite per file, 2 retargets | `ReadsSelected`, `SchemaExact`, `BatchAtomic` | hold, 808 thousand states |
| `ServerCalls` | two loads of both traces in either order and a query, 1 slot, fairness | `CallsEnd` | holds, 43 thousand states |
| `StartupAny` | the child and the other server report any name or none, fairness | `MarkerMeansOurs`, `ReadyIsOurs`, `StableBeforeReady`, `WaitBounded`, `WaitEnds` | hold, 207 thousand states |
| `CacheShared` | 2 servers, from every state a cache can be found in, fairness | `SealedStays`, `DamageCaught`, `LeavesAgreement`, `CallsEnd` | hold, 126 thousand states |
| `Installing` | 2 commands, 2 directories, 2 scopes, 3 releases, 1 fault | `RegisteredOrReported`, `UpdateHonest`, `RemovedClean`, `KillLosesOne` | hold, 7.5 million states |
| `Tools` | 16 tools, traces of up to 5 rows with a cap of 3, 1 fault | `AnswersExact`, `OwnSqlWorks`, `PagesCover`, `AdviceFits` | hold, 1.2 million states |
| `Analyses` | traces of up to 3 slices and page loads | `OverlapExact`, `RenderWorkOnce`, `DescendantsExact`, `RelationTrue`, `DrillDown` | hold, 2.6 million states |
| `LoadTraces` | 2 loads, 2 writes, files of 3 and 7 cells with samples of 2, 2 ports | `FingerprintExact`, `LoadNamesContent`, `AgreesWhereCovered`, `PortsExact` | hold, 5.5 million states |
| `StartupBind` | the other server has the same trace | `BindFailureAborts` | violated |

The properties, and what they rule out:

- `SpawnExclusive`: two children for one trace, although the lock's Arc leaves the map
  when its last holder believes itself alone.
- `ContentFresh`: a client that reads content older than the fingerprint its own call
  computed, or an entry registered under a fingerprint newer than its content.
- `LeasesCounted`: a lease of a replaced generation counted for the replacement.
- `IdleExact`: a path without leases that the LRU forgot (never evicted), one in the LRU
  and in use (evicted under a query), or one in it twice.
- `PermitsCover`: two generations on one permit, and so (`ActiveBounded`) more active
  generations than `--max-active-instances`, detached ones included; and a permit that is
  not free although no call that could give it back has it.
- `ProcessesBounded`: more processes than the two limits, apart from the entries being
  dropped this moment. It rests on the order of the lease's fields: with the permit dropped
  before the instance, another call spawns while a detached process still runs.
- `ActiveStays`: an instance in use evicted to make room.
- `CallsReturn`: a path lock, a permit or a spawn that blocks a call for ever.
- `ReadsSelected`, `SchemaExact`: a call that selected one content and reads another, and
  a table structure stored for another trace or of the trace's past, whatever is rewritten
  and however links move. One schedule is excepted, since the code does not see it: the
  link of the very call is led away from the file selected and back to it while
  `get_client` runs, between two equal keys. `ledBack` records the calls this happens to.
- `BatchAtomic`: a batch with a failed trace that registers or selects anything.
- `CallsEnd`: loads that wait for each other's slots.
- `MarkerMeansOurs`: a usable line taken for readiness although the child has no IPv4 port
  (it goes on to serve on IPv6 and prints the line after its failure). It says that the
  child's bind succeeded, not that the child still runs.
- `ReadyIsOurs`: success by the answer of another manager's child that took the port for
  another trace, while ours cannot be the one that listens. Two exceptions are the code's. A
  server of the same trace, or one that gives no name: the code says of it "almost
  certainly from our child", but the probe this relies on is as old as the child's loading
  of the trace. And a child that dies under the last request: after the marker
  any answer ends the wait, the name in it is not compared and the child is not polled
  again (`tp_manager.rs:399-402`), so that a server which takes the port at that moment
  is taken for it, of a foreign trace too. The property confines this to a child that
  was alive when that one request was sent; a request sent without looking at the child
  (`AskUnpolled`) breaks it.
- `StableBeforeReady`: an unmarked success with a wrong answer or a failed request inside
  the stability window.
- `WaitBounded`, `WaitEnds`: a wait that outlasts its deadline by more than one request, or
  does not end.
- `SealedStays`: a cache whose two files agree that is broken, even for a moment in which a
  server may die, by anything but damage, cleaning and one kind of heal. A heal hashes the
  binary and then writes; what it writes after another server has put a good pair in place is
  the digest of the old bytes, and does break the pair until the next start. So it can
  only be the heal of a call, or one left by a call, that began before the pair was in place:
  `fresh` has the servers whose calls began under it, and none of these breaks it.
- `DamageCaught`: damaged bytes accepted although they were damaged under their sidecar.
  The exception is a heal that was in progress at that moment, in another process or left
  by a cancelled call: it hashes the damaged bytes and seals them. TLC shows the schedule
  when `vouched` forgets the heals.
- `LeavesAgreement`: a state left by crashes, other servers or stray heals from which an
  undisturbed call ends well without putting it right.
- `CallsEnd` (of `BinaryCache`): download, rename and heal failing one into another for ever.

- `RegisteredOrReported`: an install that takes a client's registration away, fails to put
  the new one in its place, and reports success.
- `UpdateHonest`: "Update complete" after an installer that put nothing, or another
  version, in place.
- `RemovedClean`: the binary removed while a client still has it registered in the scope
  named, because its removal failed, was done from another directory, or its tool was
  missing. Registrations in one scope of several directories are excepted: the uninstall is
  of one directory.
- `KillLosesOne`: more than one registration gone and unsaid at a moment in which an install
  may be killed. Clients are deregistered before they are registered again, one after the
  other: what is missing has been noted as failed, or is the one whose `add` is next.
- `AnswersExact`: a row, a count or "truncated" that is not the trace's: a value shifted by a
  miscounted cell or lost with the end of a batch, a limit at the cap, a count of the
  limited query, or (for the four summaries, which have a query of their own for it) of
  another table than the one shown (`Listed`, `Counted`).
- `OwnSqlWorks`: a tool that fails on the row it added to see whether there are more, or
  on the count it cut out of its own SQL.
- `PagesCover`: threads missing or repeated over the pages of `list_threads_in_process`.
- `AdviceFits`: a trace whose recommended tools turn it down; an error that only points back
  at tools that fail the same way.
- `OverlapExact`: a slice's time counted outside the window, a slice of the window left out,
  a window of the wrong page load.
- `RenderWorkOnce`: rendering work counted for a script and again for the one around it.
- `DescendantsExact`: self time reduced by a child that had not ended, or slices at the wrong
  depth; incomplete ones not counted.
- `RelationTrue`: a resource said to be of the page's origin, or of its renderer, when several
  page loads or none were under way in the window.
- `DrillDown`: a pipeline that, asked by an example slice of the summary or the hotspots,
  answers about another resource, or about fewer slices.
- `FingerprintExact`: samples of two states of a file under metadata of one.
- `LoadNamesContent`: a `trace_id` for content other than what the client reads.
- `AgreesWhereCovered`: a reuse of an instance that differs where the fingerprint looked: on
  systems without a change time, or with the modification time set back.
- `PortsExact`: a port left out or repeated at the wrap-around, a sweep that fails with a
  port free, and a port given again to a second child before the first has bound it (other
  than after a sweep over all the others).

Every property has a mutant, an operator of the module in which the code has a
plausible bug, that breaks it in the same run; the operators stand before the
definition they would replace (`StaleNever`, `GuardLeft`, `KeyAnyway`, ...).

### Where code and documentation differ

`BindFailureAborts` is the run `StartupBind`: a test says "bind failure must abort
startup". The state is read before `/status` is awaited: a bind failure reported while the
last request of the stability window is in flight is overtaken by the matching answer of the
server that has the port. The instance is registered with a client of the stranger.

The other disagreements met while modelling are stated in the modules where they concern a
state the model has; each can be seen by adding the property to the run's cfg:

- `ActiveStaysRegistered` (`ManagerPool`): README.md says active instances "stay registered
  until their queries finish". A caller with a new fingerprint, or one that finds the process
  gone, unregisters the instance under its leases. The detached process goes on serving.
- `IdNeverServesOthers` (`ServerRouting`): CHANGELOG.md says
  retargeting a symlink "produces an explicit reload error instead of silently querying new
  contents". `client_for_trace` compares the key before and after `get_client`, and
  `get_client` resolves the path again: a link changed after the first comparison and put
  back before the second gives a client of the other trace.
- `StructureOfExisting` (`ServerRouting` with two `Structures`): the description of
  `list_table_structure` promises an error when the table does not exist. The schema cache
  outlives the process in which a stdlib module had made the view.
- `WithinTimeout` (`StartupAny`): README.md calls
  `--startup-timeout-ms` the "Max time to wait". The deadline is compared between requests
  only, and a request has a timeout of its own, longer by default. `WaitBounded` is the bound
  the code does keep.
- `UpdateRegisters` (`Installing`): README.md says that update "re-registers the MCP server";
  `install.sh` only warns when that fails, and update completes. The comment in `install.rs`
  that a genuine error of the legacy removal comes up again in the next one does not hold of
  a transient failure.

Noted, and without consequence for a property: the comment in `list_threads_in_process`
"Validate inputs BEFORE opening the trace" does not hold of a limit of 0, which is refused
after three queries; the tools of `slice_descendants_breakdown` and the chrome tools likewise
refuse some parameters only after queries. `list_threads_in_process` counts threads for every
process of the name at once and fails when there are more processes than the row cap.
`script_hotspots` counts `UpdateStyleAndLayout` as forced work, the pipeline as style. Nested
rendering slices are summed inclusively, so forced, style and layout time of a script can
exceed its wall time. `incomplete_duration_resource_slices_are_candidates` is answered true
although the probe counts by other patterns than the candidates. A request that had not ended
lasts to a raw `end_ts` beyond the end of the trace. With several page loads and no window
`latest_navigation_fallback` still relates resources with high confidence.
README.md says that `PERFETTO_MCP_FULL_TRACE_FINGERPRINT` is used for trace cache identity:
the fingerprint of the manager is of the whole file then, the trace key of the server
(and so the `trace_id`) is of the samples always.

### Bounds

`Asks`, `MaxVersion`, `MaxRetargets`, `Batches` bound the environment; `MaxVersion` = 1
gives every pair of an old and a new generation, and in `ManagerCalls` no rewrites are
needed for calls to block one another; `MaxRetargets` = 2 leads a link away and back. Three callers are what it takes to drop a lock's
Arc, queue on it and make a new one; two permits and two callers are what it takes to
have a detached generation beside its replacement, and three traces with an LRU of one
to evict while another is in use. The identities are as many as can be referred to at a
time (processes: `MaxIdle + permits + those being dropped`; locks: traces + callers), so
no step is disabled for want of one. Requests of `TraceServer` are made once each, so the
system stops when all are done: its runs do not check deadlock, and `CallsEnd` checks
that none stops early.

`Startup` has the code's own delays in poll intervals (500 and 300 ms are 5 and 3); its
timeouts are 12 and 4 for 20 s and 30 s, so that the fallback's
window can be broken and refilled before the deadline, and a request can outlast the
window. The child writes at most three of the lines that matter, each order it can write
them in; the other server comes and goes without bound. A wait that is over has no step,
so its runs do not check deadlock, and `WaitEnds` checks that it does not stop before.

`BinaryCache` needs no bound but the code's own retry counts (2 and 5): damage, cleaning,
restarts and cancellations happen any number of times. Two servers are one to act and one
to be disturbed; a server has at most one heal of a cancelled call at a time.

`Installation`: the second of two commands meets what the first, of any kind, left behind,
from another directory or in another scope if it likes; one fault is enough for a command to
fail or be killed at any step and for the next to run into the remains. Three releases are
an old one, the one updated to and one that comes out meanwhile.

`ToolCalls`: with a cap of 3 rows (for 5000) and a default of 2, traces of up to 5 rows are
below, at and above the cap and the row more that a tool asks for; replies in batches of one
or two rows cut a row sequence at every place. Calls follow one another without bound, and
keep nothing but a page turned or an advice followed.

`Analyses`: three recorded events (slices or page loads) are a slice, one inside or beside it
and one inside or beside that; timestamps to 3 give every order of the ends, and -1 is the
unended slice. `WalkDepth` 2 stands for 8, `MaxDepth` 3 for 64, `AncestorDepth` 2 for 6: a
slice can be on either side of each of them; `MaxRoots` 2 for 100, with a question of 3.

`Loading`: samples of 2 cells (for 64 KiB), so that a file of 3 is read whole and one of 7 is
sampled at its head, middle and tail with a cell the samples do not cover between them
(`Places`). Two writes are one to change the file and one to change it back; two loads meet
one another's instance. Two ports suffice for the counter to wrap between two children. Loads
and writes are bounded, so the run ends and does not check deadlock.

Every state machine states a type invariant, and each is proved. That of `InstanceManager` is
in its run too, because `release_lease` would panic without it; the others hold when they are
added to the cfgs of the runs.

### Fairness

`InstanceManager`: strong fairness of `Proceed(t)`, what a call does by itself. A runnable
task is polled again; tokio's `Mutex` and `Semaphore` are FIFO, so a call that could be
granted its lock or a permit again and again is granted it. Nothing obliges a caller to
ask, a file to change, a process to die or a call to be cancelled. `SpawnReady` and
`SpawnFails` are both steps of `Proceed`: the startup deadline makes one of them happen.
`DropLease` is one too: queries have a timeout. `CallsReturn` further asks that some
permit is free again and again. Without that it fails, and so does the code: calls that
overlap on one trace keep its permit for ever, and another trace never gets one.

`TraceServer`: strong fairness of `Proceed(r)`, where a call that waits for a slot gets
one that is free again and again; this is `CallsReturn` of the manager. A failing
`get_client` is never relied on.

`Startup`: weak fairness of the waiting task and the clock together: time passes, a task
whose request or pause is over is polled again. The child, its output, the drain and the
other server owe nothing.

`BinaryCache`: weak fairness of what a call does by itself. Requests time out, so a
download ends or fails; neither success nor a second try by the caller is assumed.

`Installation`, `ToolCalls`, `Analyses` and `Loading` state safety only: their commands and calls
run one after the other and wait for nothing that is modelled.

## 4. What is abstract

- In `InstanceManager` and `TraceServer` a fingerprint or trace key is a version that grows with
  each rewrite and is read in one step. On Unix it includes the change time, so a version does
  not come back. `Loading` has the fingerprint itself, and says when it stands for the
  content: a write in the same clock tick as the times that were read is not seen, hence its
  condition `settled`.
- Clones of a client share one lease; a lease is dropped once.
- Poisoned mutexes, a closed semaphore and the manager's own drop are left out.
- `TraceServer` may find a new process where an idle one would do, as after an eviction.
- Registry entries carry no port and no client; child startup is `SpawnStart` followed by
  `SpawnReady` or `SpawnFails`. `Startup` has no step of `InstanceManager` in it: it shows
  that the wait ends in one of the two, which the fairness of `InstanceManager` assumes.
- In `Startup` the error texts, the stored tail of the output and the stdout drain (which
  reports no state) are left out; so is cancellation, which kills the child as a failed
  wait does. An answer comes from whoever listens when it arrives. A failing `try_wait`
  ends the wait as an exited child does.

- In `BinaryCache` digests do not collide, every mirror serves the same bytes for the pinned
  version, and the binary is not named by `PERFETTO_TP_PATH` or `PATH`. A temporary file is
  seen by no other step and is not modelled, nor is the sweep of old ones: it spares files
  younger than an hour, and a download lasts ten minutes at most. The binary is not
  verified again when it is spawned, in the code as in the model.

- In `Loading` device and inode are left out, and digests are the cells they are of. A rename
  updates the change time, as the usual file systems do. The child reads the file at one
  instant. The key is compared twice in `load_trace`, and only the last comparison is a step.
  A starting port of 0 is not a port and is left to the user (`PortAssumption`).
- In `ToolCalls` a row is its number and a cell one of a few types; rows come in one order.
  SQL text is the list of the words the handlers cut at and join. Names, patterns and URLs of
  slices are representatives of what the SQL's conditions tell apart.
- In `Analyses` tracks, threads and processes are the few the statements relate; columns of
  CPU time and thread state, and those that only repeat a slice's own fields, are left out.
- In `Registration` a client's tool is one call that works or fails; its configuration is the
  set of its registrations by place and name. Fetching and validating the installer, and
  fetching and unpacking a release, are steps that work or fail.

## 5. What is proved

`InstanceManagerProofs`, from `ManagerAssumption` (an LRU of at least one entry, as
`new_inner` clamps it; constants of the right kind) and `NoneAssumption` (`None` is no
entry and no process), for all values of the constants:

| Theorem | States | Inductive argument |
|---|---|---|
| `TypeCorrect` | `Spec => []TypeOK` | `Typed` = `TypeOK` and `CallShape`: what each local of a call holds at each point of it. `CallShape` is needed because typing an entry needs the permit the call holds. |
| `SpawnIsExclusive` | `Spec => []SpawnExclusive` | `LockInv`: one Arc per path, in the map for as long as a call that may yet lock it has it, and one holder per Arc. Two searching calls for one path would hold the same lock (`OneSearcher`); while a call searches nobody else registers its path (`NextUnregistered`). |
| `ContentIsFresh` | `Spec => []ContentFresh` | `VersionInv`: fingerprints are of the past, and what an instance read is not older than the fingerprints of the calls and the entry that hold it. It rests on where instances and entries come from (`InstanceOrigin`, `EntryOrigin`) and on held processes keeping what they read (`HeldProcessesKeep`). |
| `ActiveNeverEvicted` | `Spec => ActiveStays` | Only a lookup unregisters an active instance (`OnlyLookupUnregisters`), from typing alone: a victim has no lease. |

On these invariants, who holds what:

| Theorem | States | Inductive argument |
|---|---|---|
| `LeasesAreCounted` | `Spec => []LeasesCounted` | `OwnInv`: `GenerationInv` (an instance is of one path, one fingerprint and, until it is ready, one call), `PermitInv` (a permit is of one call or one instance) and `LeaseInv` (the count is the number of leases, and leases on one instance share its permit). Each part needs the others: a lookup that hits an entry hands on its permit, and a release counts down whatever entry has the instance. |
| `PermitsAreApart` | `Spec => []PermitsCover` | `OwnInv`. That no permit is lost needs the counted leases: a registered generation with a permit has a lease, so a call that holds it (`PermitsHaveHolders`). |

And on both, the LRU, the bounds and the refinement:

| Theorem | States | Inductive argument |
|---|---|---|
| `IdleIsExact` | `Spec => []IdleExact` | `IdleInv`: the LRU lists the idle paths without repetition. A sequence is handled by what `Pop` and `Push` do to its range (`PopExact`, `PushExact`); `OnceCounts` turns it into the counting form. |
| `ProcessesAreBounded` | with finitely many permits and calls, `Spec => []ProcessesBounded` | `AliveInv`: a process lives only while an Arc of its instance does. Every live instance is idle, covered by a permit of its own (`PermitInv`), or being dropped by a call. |
| `ActiveAreBounded` | with finitely many permits, `Spec => []ActiveBounded` | `OwnInv`: generations with a lease map injectively to permits |
| `ManagerIsAPool` | `Spec => ImplementsPool` | `PoolInv` = `OwnInv`, `VersionInv` and `OriginInv` (a held instance has a process that began to read in the past). Each action maps to a step of the pool or to a stutter under `Session`; connecting needs that sessions on one permit agree on path, fingerprint and content. |

`TraceServerProofs`, from `ServerAssumption` and `NoneAssumption`, for any traces, links, calls and
slots. `StepFrame`, `StepLocals` and `LoadLocals` say once what a step of one call does to it and
leaves alone of the others; the invariants are proved from them.

| Theorem | States | Inductive argument |
|---|---|---|
| `BatchIsAtomic` | `Spec => BatchAtomic` | `LoadInv`: reports are fewer than the paths until the last is done, and the first `count` of them are registered, in whatever order other loads register theirs |
| `ReadsAreSelected` | `Spec => []ReadsSelected` | `KeyInv`: the session asked for the key's file at its version or later, or the link leads elsewhere now, or it has been led back since (`ledBack`). The second comparison of the key excludes the second and, as what is read lies between what was asked and the present (`SessionInv`), pins the version. |
| `StructuresAreExact` | `Spec => SchemaExact` | on `KeyInv` |

| `ServerTypeCorrect` | `Spec => []TypeOK` | `ProcessInv`: a process the manager keeps is of a file, a version and a slot there are; the rest is `Shape`, which says what a call has at each point of it |
| `ServerKeepsToPool` | `Spec => Pool!PoolSpec` | `Shape`: each step of a call asks, connects, closes or gives up a session of its own, or leaves the pool alone. |

`ServerKeepsToPool` and `ManagerIsAPool` are the two sides of one interface: the server does with
clients only what `TracePool` allows, and the manager gives only what `TracePool` promises.

Rewrites and moves of links are unrestricted. The exception for a link led back is needed: the
key compared again is then the one selected, and `IdNeverServesOthers` fails (section 3).

`StartupProofs`, from `StartupAssumption` (the delays are naturals, the names are names),
for all delays and timeouts:

| Theorem | States | Inductive argument |
|---|---|---|
| `TypeCorrect` | `Spec => []TypeOK` | - |
| `WaitIsBounded` | `Spec => []WaitBounded` | `TimeInv`: a request begins before or at the deadline and time stops at its timeout; a pause begins before the deadline. |
| `MarkerIsOurs` | `Spec => []MarkerMeansOurs` | `MarkerInv`: what is left on stderr and what the drain remembers; a state of "ready" on either side of the watch channel means the child's bind succeeded. |
| `ReadyIsOursOrANamesake` | `Spec => []ReadyIsOurs` | on `MarkerInv` and `RequestInv`: while a request is in flight the child runs or exited no earlier than the request was sent; an answer comes from whoever listens, and one that is neither marked nor a namesake's is the child's |
| `ReadyIsStable` | `Spec => []StableBeforeReady` | `StableInv`: `okSince` is not before the fallback's delay nor before the last bad answer. |

`BinaryCacheProofs`, from `CacheAssumption`, for any number of servers:

| Theorem | States | Inductive argument |
|---|---|---|
| `TypeCorrect` | `Spec => []TypeOK` | `AtType`: what moving one call does to the types |
| `SealIsKept` | `Spec => SealedStays` | `FreshInv`: for as long as the pair stands, a server whose call began under it is not about to heal, has left no heal behind, and holds no digest of damaged bytes. |
| `DamageIsCaught` | `Spec => DamageCaught` | `VouchInv`: while the sidecar vouches for damaged bytes no server begins to heal or holds a digest of them (`StaysUnhealed`); a call ends well in three places (`Approvals`). |
| `AgreementIsLeft` | `Spec => LeavesAgreement` | `AloneInv`: the digest of an undisturbed call is that of the file it is about to be compared with or written for. |

`LoadingProofs`, from `LoadingAssumption` (sizes are naturals and the clock ticks at least
once) and the assumptions on samples and ports of the modules it uses, for files, samples and
port ranges of any size and any number of loads and writes between any two reads:

| Theorem | States | Inductive argument |
|---|---|---|
| `LoadNamesItsContent` | `Spec => []LoadNamesContent` | The samples play no part. Once the clock has passed a change time no later state of the file has it (`Fixed`), so wherever it is met again the content is the same. `LoadInv` follows it from the key (`KeyInv`) to the fingerprint (`FpInv`), the registered instance (`InstanceInv`), the session (`SessionInv`) and the last comparison (`CheckInv`). |
| `FingerprintsAreExact` | `Spec => []FingerprintExact` | `ContentInv`: while the file has not changed since its times were read, what was read of it is of the content it has (`Intact`, in `SampleInv`), block by block of the samples or of the whole; the comparison of the metadata afterwards rules a change out. |
| `ReusedAgree` | `Spec => []AgreesWhereCovered` | the same without change times: `Intact` for as long as nobody disturbs the load (`CleanInv`) |
| `SpawnsGetTheirPorts` | `Spec => []PortsExact` | `PortInv`: the ports between that of a starting child and `next_port`, around the end of the range, are those given out or probed since. The sweep is a recursive function; its closed form (which port the n-th attempt probes, and where the counter is then) is proved by induction on the attempts left. |
| `LoadTypeCorrect` | `Spec => []TypeOK` | - |

`ToolCallsProofs`, from `RowsAssumption`, `DefaultsAssumption` (the defaults are between 1 and the
cap), `TraceRowsAssumption` and `NoneAssumption`, for any cap, defaults, number of rows and
size of batches:

| Theorem | States | Inductive argument |
|---|---|---|
| `CallsInvariant` | `Spec => [](CallInv /\ AnsInv)` | `CallInv`: the steps left are an end of the tool's steps (`Steps`), which come in an order that gives each what it uses (`Ordered`); what a finished step has found out is what it was for (`GotInv`), from the true count to the rows of the page. `AnsInv` is the properties themselves, of the last answer. |
| `AnswersAreExact` | `Spec => []AnswersExact` | What decoding gives of a reply: cells flattened over the batches are the cells of the rows whatever the size of the batches, and the n-th value of a type is the n-th cell of that type. |
| `OwnSqlAlwaysWorks` | `Spec => []OwnSqlWorks` | a tool's limit is less than the cap by the row more it asks for; `CountSql` of a tool's own SQL cuts at the LIMIT the tool has put there |
| `PagesCoverAll` | `Spec => []PagesCover` | a page ends where the next begins, and one that is not truncated ends with the last thread |
| `CallsTypeCorrect` | `Spec => []TypeOK` | from `CallInv`: each local has the kind of thing the step that filled it finds out |
| `AdviceAlwaysFits` | `Spec => []AdviceFits` | for each way a call can end, what the trace lacks then and which tools do without it |

`AnalysesProofs`, from `AnalysesAssumption` (`TraceEnd >= 3`: the trace is as long as the largest
instant a question names), `NullAssumption`, and the assumptions on depths, for traces of any
length, nesting and depths of the walks:

| Theorem | States | Inductive argument |
|---|---|---|
| `AnalysesInvariant` | `Spec => [](TraceInv /\ AskedInv /\ WindowInv)` | `TraceInv`: slices are in the order of their start and those of a track nest, page loads are in order. `AskedInv`: the answer has rows of the tool's query only, first ranks first, as many as the limit leaves. `WindowInv`: the question has the window of one that names no resource. |
| `OverlapsAlwaysExact` | `Spec => []OverlapExact` | The window a query computes is the set of instants that are asked about (`AskedIs`), whatever page load and phase they are given by; the overlap of a slice is then the number of those at which it runs. |
| `DescendantsAlwaysExact` | `Spec => []DescendantsExact` | The levels of the recursive query are what has so many slices between it and the root (`LevelsAreDepths`). Children of a slice run at different times, within it, so that what they take off its duration is the time at which one of them runs. |
| `RenderWorkPaidOnce` | `Spec => []RenderWorkOnce` | A walk down from each script that stops at other scripts meets a slice only from the script nearest around it (`CausedIs`, `CausedOnce`). Parts of a sum that have nothing in common add up to the whole (`SumOfSums`). |
| `RelationsAreAlwaysTrue` | `Spec => []RelationTrue` | What comes before the path of a URL of a host is the same cut by the SQL or token by token (`HostedOrigin`, `HostedSite`), with its query or without. The loads that the SQL takes to be under way in a window of instants are those with an instant in common with it (`LoadsUnderWay`); a slice that touches the window runs at one of its instants (`TouchesShares`). |
| `AnalysesTypeCorrect` | `Spec => []TypeOK` | What a row measures is not negative, tool by tool: a window that is not empty ends after it starts (`WindowOpens`), so that what touches it has a part in it (`TouchedHasPart`); sums and maxima of naturals are naturals (`Totals`). |
| `DrillDownFinds` | `Spec => DrillDown` | The pipeline of an example has the one row of its URL, made of the same resources as the row the example is of (`LookedInto`). |

The last three modules are about recursive functions, folds, and first elements of a set. The
library's induction theorems take a predicate as a parameter, which the provers cannot
instantiate. The inductions are done instead over sets: `Inductive` and `SetInduction` state
that a set of naturals (of finite subsets) with the base and closed under the step is all of
them, from well-foundedness. A recursive function is then shown to equal a closed form, by
the set of the arguments at which it does.

`InstallationProofs`, from `VersionsAssumption` (the release of the old name is one of the
releases), `ScopesAssumption` and `DirsAssumption` (there is a directory), for any number of
releases, directories, scopes, commands and faults:

| Theorem | States | Inductive argument |
|---|---|---|
| `RegistrationIsReported` | `Spec => []RegisteredOrReported` | `InstallInv`: a client dealt with has its registration or a failure (`DoneInv`); `CommandInv`, `KindInv` say which command can be where |
| `UpdateIsHonest` | `Spec => []UpdateHonest` | `TargetInv`: an update goes on to a newer release, or to the one it was told |
| `KillLosesAtMostOne` | `Spec => []KillLosesOne` | `LossInv`: of the clients still to do nothing is lost, of those done what is lost is noted as failed, and the client at hand has lost its registration only where its `add` is next. |
| `RemovesWhenClean` | `Spec => RemovedClean` | `RemovalInv`: during an uninstall registrations only go, and a client dealt with is clean or a failure; at most one registration in the scope is the one removed |
| `InstallationTypeCorrect` | `Spec => []TypeOK` | `TypeInv`: what a task, its commands and the registrations are made of, whatever fails |
| `CheckAgreesWithUpdate` | `Spec => CheckAgrees` | `BehindInv`: a version called behind stays behind |

Each has the same shape: the invariant holds initially, each action preserves it (one
lemma or step per action), it implies the property, and a last step combines them with
PTL. TLC checked the invariants first, on the instances of section 3.

Every safety property of section 3 is thus a theorem, but for `BindFailureAborts`, which fails.
Only model-checked are `CallsReturn`, both `CallsEnd` and `WaitEnds`: liveness under fairness
is outside the prover's reach.

## 6. What is not modelled

- Text: the wording of answers and errors, shortening and redacting strings, the catalog's
  documents, JSON schemas, serde's lenient numbers, the escaping of SQL literals. No property
  depends on it, and it is tested by examples in the source.
- The protobuf wire format and HTTP, which are libraries; `QueryRows` starts from decoded cells.
- Telemetry and logging, which write to stderr and are read by nobody; argument parsing; code
  generation (`build.rs`).
- The stored tail of a child's stderr, which only words an error.
- Temporary files and their sweep, URLs of mirrors, PowerShell twins of the scripts.
- CPU time and thread state columns of the analyses, which join tables the trace models do not
  have, and the one-line summaries of the standard library's tables.

## 7. Plan

1. `TraceServer` over the fingerprints of `Loading` instead of versions, so that an id that names
   other content through equal samples shows in the server's own properties.
2. `ToolCalls` over `TraceServer`, so that a trace rewritten between the query and the count
   that describes it is met by `AnswersExact`.
3. The steps of `Startup` as a refinement of the two steps that `InstanceManager` has for them
   (`SpawnReady`, which may find the child gone, and `SpawnFails`, which kills it).
