------------------------------ MODULE QueryRows ------------------------------
(***************************************************************************)
(* query.rs: what a reply of trace_processor_shell is decoded to.  A reply *)
(* carries the cells of its rows in batches; a batch holds the types of    *)
(* its cells in one list and the values of every type in a list of their   *)
(* own, so that a value is found by counting the cells of its type.        *)
(***************************************************************************)
EXTENDS Naturals, FiniteSets, Sequences, SequencesExt, Functions

CONSTANTS MaxRows,       \* MAX_ROWS: more rows than this are refused
          None           \* no limit, no value

ASSUME RowsAssumption == MaxRows \in Nat \ {0} /\ None \notin Nat

ListTypes == {"varint", "float", "string", "blob"}        \* the types with values of their own
NoValues  == [t \in ListTypes |-> <<>>]

\* A cell of the trace is a type and a number that stands for the value; "odd" is a type
\* the protocol does not name.
Cell(type, n) == [type |-> type, n |-> IF type \in ListTypes THEN n ELSE 0]
-----------------------------------------------------------------------------
\* The cells of rows, put into batches of so many rows.
BatchOf(rows) ==
  LET cells == FlattenSeq(rows)
      own(t) == {i \in DOMAIN cells : cells[i].type = t}
      nth(t, k) == CHOOSE i \in own(t) : Cardinality({j \in own(t) : j <= i}) = k
  IN  [cells  |-> [i \in DOMAIN cells |-> cells[i].type],
       values |-> [t \in ListTypes |-> [k \in 1 .. Cardinality(own(t)) |-> cells[nth(t, k)].n]]]

Batches(rows, size) ==
  [b \in 1 .. (Len(rows) + size - 1) \div size |->
     BatchOf(SubSeq(rows, (b - 1) * size + 1, IF b * size < Len(rows) THEN b * size ELSE Len(rows)))]

Reply(rows, cols, size) == [error |-> None, outputs |-> 1, cols |-> cols, batches |-> Batches(rows, size)]
ErrorReply(kind)        == [error |-> kind, outputs |-> 0, cols |-> 0, batches |-> <<>>]

\* A reply whose last batch has lost its last cell, value and all.
Cut(reply) ==
  LET last == Last(reply.batches)
  IN  [reply EXCEPT !.batches = ReplaceAt(@, Len(@), [last EXCEPT !.cells = Front(last.cells)])]
-----------------------------------------------------------------------------
\* The place of a cell among those of its type; the iterators start anew in every batch.
NthOfAll(batch, i) == i
Nth(batch, i) == Cardinality({j \in 1..i : batch.cells[j] = batch.cells[i]})

\* Null, invalid and unknown cells take no value; a value that is not there is a zero.
Value(batch, i) ==
  LET type == batch.cells[i]
      list == IF type \in ListTypes THEN batch.values[type] ELSE <<>>
  IN  IF type \notin ListTypes THEN Cell("null", 0)
      ELSE Cell(type, IF Nth(batch, i) \in DOMAIN list THEN list[Nth(batch, i)] ELSE 0)

RowsOf(batch, cols) ==
  [r \in 1 .. Len(batch.cells) \div cols |-> [c \in 1..cols |-> Value(batch, (r - 1) * cols + c)]]

\* complete_row_count: a batch that ends within a row makes the whole reply useless.
Complete(batches, cols) == \A b \in DOMAIN batches : Len(batches[b].cells) % cols = 0
RowCount(batches, cols) == SumFunction([b \in DOMAIN batches |-> Len(batches[b].cells) \div cols])

Failed(kind)            == [ok |-> FALSE, kind |-> kind, rows |-> <<>>, count |-> 0, truncated |-> FALSE]
Table(rows, count, cut) == [ok |-> TRUE, kind |-> None, rows |-> rows, count |-> count, truncated |-> cut]

\* decode_query_result_with_options, max None for all rows.  With all or with more rows
\* than MaxRows asked for, the row after the last one allowed is an error.
Decode(reply, max) ==
  LET count == RowCount(reply.batches, reply.cols)
      all   == FlattenSeq([b \in DOMAIN reply.batches |-> RowsOf(reply.batches[b], reply.cols)])
      limit == IF max = None THEN count ELSE max
      taken == IF limit < count THEN limit ELSE count
  IN  IF reply.error # None THEN Failed(reply.error)
      ELSE IF reply.outputs > 1 THEN Failed("MultipleOutputs")
      ELSE IF reply.cols = 0 THEN Table(<<>>, 0, FALSE)
      ELSE IF ~Complete(reply.batches, reply.cols) THEN Failed("Other")
      ELSE IF max # 0 /\ taken > MaxRows THEN Failed("TooManyRows")
      ELSE Table(SubSeq(all, 1, taken), count, taken < count)
=============================================================================
