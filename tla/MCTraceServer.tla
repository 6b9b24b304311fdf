--------------------------- MODULE MCTraceServer ---------------------------
(* TLC instances of TraceServer. *)
EXTENDS TraceServer

CONSTANTS n1, n2, f1, f2

OwnFile  == (n1 :> f1) @@ (n2 :> f2)
SameFile == (n1 :> f1) @@ (n2 :> f1)

\* A load of both traces, and of either.
Pairs   == {<<n1, n2>>, <<n2>>}
Singles == {<<n1>>}
Crossed == {<<n1, n2>>, <<n2, n1>>}
=============================================================================
