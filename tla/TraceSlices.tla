----------------------------- MODULE TraceSlices -----------------------------
(***************************************************************************)
(* The tables of trace_processor_shell that the SQL of the tools reads, as *)
(* far as that SQL tells their rows apart.  A trace is a sequence of       *)
(* slices, a slice's place is its id; a slice of duration -1 had not ended *)
(* when the recording did.  Names and argument keys are representatives of *)
(* the patterns the SQL matches them with.                                 *)
(***************************************************************************)
EXTENDS Integers, FiniteSetsExt, SequencesExt, Functions

CONSTANTS TraceEnd,      \* trace_end(); trace_start() is 0
          None           \* NULL

ASSUME TraceAssumption == TraceEnd \in Nat /\ None \notin Int

Incomplete == -1

\* The tracks: the main thread of a renderer, that of another one, a track below a thread
\* of the browser, the track of the first renderer's process, one of no process, and a track
\* below the one of the second renderer's process.
ThreadProcess       == <<1, 2, None, None, None, None>>
TrackProcess        == <<None, None, None, 1, None, None>>
ParentThreadProcess == <<None, None, 3, None, None, None>>
ParentTrackProcess  == <<None, None, None, None, None, 2>>
ProcessName         == <<"Renderer", "Renderer", "Browser">>
IsMain(track)       == track \in {1, 2}

\* URLs, in the order SQLite sorts them.  "://" is there or it is not; what follows it is
\* the authority up to the first of "/", "?" and "#".
Urls == <<  <<"about:blank">>,
            <<"chrome", "://", "ui">>,
            <<"http", "://", "unisolated.invalid", "/">>,
            <<"https", "://", "a", "/", "doc">>,
            <<"https", "://", "a", "/", "doc", "?", "q">>,
            <<"https", "://", "a", "?", "x", "/", "y">>,
            <<"https", "://", "b", "#", "/">> >>
-----------------------------------------------------------------------------
End(s)          == s.ts + s.dur
ChildrenOf(trace, i) == {j \in DOMAIN trace : trace[j].parent = i}

\* The slices a recursive query reaches from one: down to so many levels, by those it may
\* go on from.
Below(trace, root, depth, follow) ==
  LET level[d \in 0..depth] ==
        IF d = 0 THEN {root} ELSE {j \in follow : trace[j].parent \in level[d - 1]}
  IN  [d \in 1..depth |-> level[d]]

Above(trace, i, depth) ==
  LET up[d \in 0..depth] ==
        IF d = 0 THEN {i} ELSE {trace[j].parent : j \in up[d - 1]} \ {None}
  IN  UNION {up[d] : d \in 0..depth}

\* The instants of the recording at which a slice was running.
Instants(s) == IF s.dur = Incomplete THEN s.ts .. (TraceEnd - 1) ELSE s.ts .. (End(s) - 1)
-----------------------------------------------------------------------------
\* ORDER BY columns DESC LIMIT n, of which rows with equal columns may come out either way.
Before(x, y) == \E i \in DOMAIN x : x[i] > y[i] /\ \A j \in 1 .. i - 1 : x[j] = y[j]

\* rank gives the columns of every row.
Tops(rank, n) ==
  LET rows == DOMAIN rank
  IN  IF Cardinality(rows) <= n THEN {rows}
      ELSE {top \in kSubset(n, rows) : \A r \in top, o \in rows \ top : ~Before(rank[o], rank[r])}

\* The first by columns DESC and, when they are all equal, by id ASC.
First(rank) ==
  LET ids == DOMAIN rank
  IN  IF ids = {} THEN None
      ELSE CHOOSE i \in ids : \A j \in ids \ {i} : Before(Append(rank[i], -i), Append(rank[j], -j))

Largest(values)      == IF values = {} THEN None ELSE Max(values)
=============================================================================
