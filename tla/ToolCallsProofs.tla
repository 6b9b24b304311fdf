--------------------------- MODULE ToolCallsProofs ---------------------------
(***************************************************************************)
(* The tools, for all values of the constants: any cap on rows, any        *)
(* defaults, any number of rows in the trace and of queries that fail.     *)
(*                                                                         *)
(* First the decoder (query.rs).  Its folds have closed forms, by          *)
(* induction over the batches: all rows is the rows that were sent, the    *)
(* count is their number, and a cell is found among those of its type.     *)
(* Then the handlers (server/mod.rs): the order of their steps, what every *)
(* step has found out once it is done, and what an error may say.  The     *)
(* four properties follow when the answer is put together.                 *)
(***************************************************************************)
EXTENDS ToolCalls, Integers, SequenceTheorems, FiniteSetTheorems, WellFoundedInduction, TLAPS

\* A set of naturals has a least element.
LEMMA Least ==
  ASSUME NEW S \in SUBSET Nat, S # {}
  PROVE  \E n \in S : \A m \in S : n <= m
PROOF
  <1> DEFINE R == StrictSubsetOrdering(Nat)
             T == {0..n : n \in S}
  <1>1. IsWellFoundedOn(R, FiniteSubsetsOf(Nat))
    BY FS_StrictSubsetOrderingWellFounded
  <1>2. T \subseteq FiniteSubsetsOf(Nat) /\ T # {}
    <2>1. \A n \in Nat : IsFiniteSet(0..n) /\ 0..n \subseteq Nat
      BY FS_Interval
    <2> QED BY <2>1 DEF FiniteSubsetsOf
  <1>3. PICK t \in T : \A u \in T : ~(<<u, t>> \in R)
    <2> HIDE DEF R, T
    <2> QED BY <1>1, <1>2, WFMin
  <1>4. PICK n \in S : t = 0..n
    OBVIOUS
  <1>5. ASSUME NEW m \in S, ~(n <= m) PROVE FALSE
    <2>1. 0..m \subseteq 0..n /\ n \in 0..n /\ n \notin 0..m /\ 0..m \in T
      BY <1>5
    <2>2. 0..m # 0..n /\ 0..n \in SUBSET Nat /\ 0..m \in SUBSET Nat
      BY <2>1
    <2>3. <<0..m, 0..n>> \in R
      BY <2>1, <2>2 DEF StrictSubsetOrdering
    <2> QED BY <2>3, <2>1, <1>3, <1>4
  <1> QED BY <1>4, <1>5

\* Induction on the naturals, for sets.
LEMMA Inductive ==
  ASSUME NEW S, 0 \in S, \A n \in Nat : n \in S => n + 1 \in S
  PROVE  Nat \subseteq S
PROOF
  <1> SUFFICES ASSUME Nat \ S # {} PROVE FALSE
    OBVIOUS
  <1>1. PICK n \in Nat \ S : \A m \in Nat \ S : n <= m
    BY Least
  <1>2. n # 0 /\ n - 1 \in Nat /\ n - 1 \in S
    BY <1>1
  <1> QED BY <1>1, <1>2

\* Sequences put one behind the other: whatever adds up in the same way.
LEMMA FlattenIs ==
  ASSUME NEW seqs, Len(seqs) \in Nat, Len(seqs) # 0,
         NEW sofar, DOMAIN sofar = 1..Len(seqs), sofar = [i \in 1..Len(seqs) |-> sofar[i]],
         sofar[1] = seqs[1],
         \A i \in 2..Len(seqs) : sofar[i] = sofar[i - 1] \o seqs[i]
  PROVE  FlattenSeq(seqs) = sofar[Len(seqs)]
PROOF
  <1> DEFINE n == Len(seqs)
             Follows(f) == f = [i \in 1..n |-> IF i = 1 THEN seqs[i] ELSE f[i - 1] \o seqs[i]]
             f == CHOOSE f : Follows(f)
  <1>1. Follows(sofar)
    <2>1. ASSUME NEW i \in 1..n PROVE sofar[i] = IF i = 1 THEN seqs[i] ELSE sofar[i - 1] \o seqs[i]
      <3>1. CASE i = 1
        BY <3>1
      <3>2. CASE i # 1
        <4>1. i \in 2..n
          BY <3>2
        <4> QED BY <3>2, <4>1
      <3> QED BY <3>1, <3>2
    <2> QED BY <2>1
  <1>2. Follows(f)
    <2> HIDE DEF Follows
    <2> QED BY <1>1
  <1>3. FlattenSeq(seqs) = f[n]
    BY DEF FlattenSeq
  <1>4. \A i \in 1..n : f[i] = IF i = 1 THEN seqs[i] ELSE f[i - 1] \o seqs[i]
    <2> HIDE DEF f
    <2> QED BY <1>2
  <1> DEFINE T == {i \in Nat : i + 1 \in 1..n => f[i + 1] = sofar[i + 1]}
  <1>5. Nat \subseteq T
    <2> HIDE DEF f, Follows
    <2>1. 0 \in T
      BY <1>4
    <2>2. ASSUME NEW i \in Nat, i \in T PROVE i + 1 \in T
      <3> SUFFICES ASSUME i + 2 \in 1..n PROVE f[i + 2] = sofar[i + 2]
        OBVIOUS
      <3>1. i + 1 \in 1..n /\ i + 2 # 1 /\ (i + 2) - 1 = i + 1 /\ i + 2 \in 2..n
        OBVIOUS
      <3> QED BY <1>4, <2>2, <3>1
    <2> HIDE DEF T, n
    <2> QED BY <2>1, <2>2, Inductive
  <1>6. n - 1 \in T /\ (n - 1) + 1 = n /\ n \in 1..n
    <2> HIDE DEF T
    <2> QED BY <1>5
  <1>7. f[n] = sofar[n]
    <2> HIDE DEF f
    <2> QED BY <1>6
  <1> QED BY <1>3, <1>7

\* The cells of rows of two, in a row.
CellAt(rows, k) == rows[(k + 1) \div 2][IF k % 2 = 1 THEN 1 ELSE 2]
CellsOf(rows, n) == [k \in 1..(2 * n) |-> CellAt(rows, k)]

LEMMA Halves ==
  /\ \A k \in Nat : (k + 1) \div 2 \in Nat /\ (k % 2 = 1 => k = 2 * ((k + 1) \div 2) - 1)
                    /\ (k % 2 # 1 => k = 2 * ((k + 1) \div 2))
  /\ \A r \in Nat : r # 0 => /\ ((2 * r - 1) + 1) \div 2 = r /\ (2 * r - 1) % 2 = 1
                             /\ (2 * r + 1) \div 2 = r /\ (2 * r) % 2 # 1
  /\ \A r \in Nat : (2 * r) \div 2 = r
  OBVIOUS

\* Rows of two cells, laid out as one sequence.
LEMMA CellsAre ==
  ASSUME NEW C, NEW rows \in Seq(C \X C), NEW n \in 0..Len(rows)
  PROVE  /\ CellsOf(rows, n) \in Seq(C) /\ Len(CellsOf(rows, n)) = 2 * n
         /\ DOMAIN CellsOf(rows, n) = 1..(2 * n)
         /\ \A r \in 1..n : /\ CellsOf(rows, n)[2 * r - 1] = rows[r][1]
                            /\ CellsOf(rows, n)[2 * r] = rows[r][2]
PROOF
  <1>1. Len(rows) \in Nat /\ n \in Nat /\ n <= Len(rows) /\ 2 * n \in Nat
    BY LenProperties
  <1>2. \A r \in 1..n : rows[r] \in C \X C
    BY <1>1, ElementOfSeq
  <1>3. ASSUME NEW k \in 1..(2 * n) PROVE (k + 1) \div 2 \in 1..n /\ CellAt(rows, k) \in C
    <2>1. (k + 1) \div 2 \in 1..n
      BY <1>1
    <2>2. \A p \in C \X C : p[1] \in C /\ p[2] \in C
      OBVIOUS
    <2> QED BY <1>2, <2>1, <2>2 DEF CellAt
  <1>4. CellsOf(rows, n) \in [1..(2 * n) -> C]
    BY <1>3 DEF CellsOf
  <1>5. ASSUME NEW r \in 1..n
        PROVE  CellsOf(rows, n)[2 * r - 1] = rows[r][1] /\ CellsOf(rows, n)[2 * r] = rows[r][2]
    <2>1. 2 * r - 1 \in 1..(2 * n) /\ 2 * r \in 1..(2 * n) /\ r \in Nat /\ r # 0
      BY <1>1
    <2> QED BY <2>1, Halves DEF CellsOf, CellAt
  <1> QED BY <1>1, <1>4, <1>5, SeqDef

LEMMA PairsAreSeqs ==
  ASSUME NEW C, NEW p \in C \X C
  PROVE  p \in Seq(C) /\ Len(p) = 2 /\ p = <<p[1], p[2]>> /\ p[1] \in C /\ p[2] \in C
PROOF
  <1>1. PICK a \in C, b \in C : p = <<a, b>>
    OBVIOUS
  <1>2. <<a, b>> \in Seq(C) /\ Len(<<a, b>>) = 2
    OBVIOUS
  <1> QED BY <1>1, <1>2

LEMMA FlattenPairs ==
  ASSUME NEW C, NEW rows \in Seq(C \X C), Len(rows) # 0
  PROVE  FlattenSeq(rows) = CellsOf(rows, Len(rows))
PROOF
  <1> DEFINE n == Len(rows)
             sofar == [i \in 1..n |-> CellsOf(rows, i)]
  <1>1. n \in Nat /\ n # 0 /\ \A i \in 1..n : i \in 0..n /\ rows[i] \in C \X C
    BY LenProperties, ElementOfSeq
  <1>2. \A i \in 1..n : rows[i] \in Seq(C) /\ Len(rows[i]) = 2
    BY <1>1, PairsAreSeqs
  <1>3. sofar[1] = rows[1]
    <2>1. 1 \in 1..n /\ 1 \in 0..n
      BY <1>1
    <2>2. CellsOf(rows, 1) \in Seq(C) /\ Len(CellsOf(rows, 1)) = 2
          /\ CellsOf(rows, 1)[1] = rows[1][1] /\ CellsOf(rows, 1)[2] = rows[1][2]
      <3> DEFINE one == 1
      <3>1. CellsOf(rows, one) \in Seq(C) /\ Len(CellsOf(rows, one)) = 2 * one
        <4>1. one \in 0..Len(rows)
          BY <2>1
        <4> HIDE DEF one
        <4> QED BY <4>1, CellsAre
      <3>2. \A k \in 1..2 : CellsOf(rows, 1)[k] = CellAt(rows, k)
        BY DEF CellsOf
      <3>3. CellAt(rows, 1) = rows[1][1] /\ CellAt(rows, 2) = rows[1][2]
        BY DEF CellAt
      <3> QED BY <3>1, <3>2, <3>3
    <2>3. CellsOf(rows, 1) = rows[1]
      <3>1. \A i \in 1..2 : CellsOf(rows, 1)[i] = rows[1][i]
        BY <2>2
      <3> QED BY <1>2, <2>1, <2>2, <3>1, SeqEqual
    <2> QED BY <2>1, <2>3
  <1>4. ASSUME NEW i \in 2..n PROVE sofar[i] = sofar[i - 1] \o rows[i]
    <2>1. i \in 0..n /\ i - 1 \in 0..n /\ i \in 1..n /\ i - 1 \in 1..n /\ i - 1 \in Nat /\ i \in Nat
      BY <1>1
    <2> DEFINE a == CellsOf(rows, i - 1)
               b == CellsOf(rows, i)
    <2>2. a \in Seq(C) /\ Len(a) = 2 * (i - 1) /\ b \in Seq(C) /\ Len(b) = 2 * i
      BY <2>1, CellsAre
    <2>3. rows[i] \in Seq(C) /\ Len(rows[i]) = 2
      BY <1>2, <2>1
    <2>4. a \o rows[i] \in Seq(C) /\ Len(a \o rows[i]) = Len(b)
      <3>1. 2 * (i - 1) + 2 = 2 * i
        BY <2>1
      <3> HIDE DEF a, b
      <3>2. a \o rows[i] \in Seq(C) /\ Len(a \o rows[i]) = Len(a) + Len(rows[i])
        BY <2>2, <2>3, ConcatProperties
      <3> QED BY <2>2, <2>3, <3>1, <3>2
    <2>5. /\ \A k \in 1..(2 * (i - 1)) : a[k] = CellAt(rows, k)
          /\ \A k \in 1..(2 * i) : b[k] = CellAt(rows, k)
          /\ b[2 * i - 1] = rows[i][1] /\ b[2 * i] = rows[i][2]
      <3>1. i \in 1..i
        BY <2>1
      <3> QED BY <2>1, <3>1, CellsAre DEF CellsOf
    <2> HIDE DEF a, b
    <2>6. ASSUME NEW k \in 1..Len(b) PROVE (a \o rows[i])[k] = b[k]
      <3>1. k \in Nat /\ k >= 1 /\ k <= 2 * i
        BY <2>1, <2>2
      <3>2. k \in 1..(Len(a) + Len(rows[i]))
        BY <2>1, <2>2, <2>3
      <3>3. (a \o rows[i])[k] = IF k <= Len(a) THEN a[k] ELSE rows[i][k - Len(a)]
        BY <2>2, <2>3, <3>2, ConcatProperties
      <3>4. CASE k <= 2 * (i - 1)
        <4>1. k <= Len(a) /\ k \in 1..(2 * (i - 1)) /\ k \in 1..(2 * i)
          BY <2>1, <2>2, <3>1, <3>4
        <4> QED BY <2>5, <3>3, <4>1
      <3>5. CASE k = 2 * i - 1
        <4>1. ~(k <= Len(a)) /\ k - Len(a) = 1
          BY <2>1, <2>2, <3>5
        <4> QED BY <2>5, <3>3, <3>5, <4>1
      <3>6. CASE k = 2 * i
        <4>1. ~(k <= Len(a)) /\ k - Len(a) = 2
          BY <2>1, <2>2, <3>6
        <4> QED BY <2>5, <3>3, <3>6, <4>1
      <3>7. k <= 2 * (i - 1) \/ k = 2 * i - 1 \/ k = 2 * i
        BY <2>1, <3>1
      <3> QED BY <3>4, <3>5, <3>6, <3>7
    <2>7. a \o rows[i] = b
      BY <2>2, <2>4, <2>6, SeqEqual
    <2> QED BY <2>1, <2>7 DEF a, b
  <1>5. FlattenSeq(rows) = sofar[n]
    <2>1. DOMAIN sofar = 1..n /\ sofar = [i \in 1..n |-> sofar[i]]
      OBVIOUS
    <2> HIDE DEF sofar
    <2> QED BY <1>1, <1>3, <1>4, <2>1, FlattenIs
  <1> QED BY <1>1, <1>5

CellTypes == ListTypes \cup {"null", "odd"}
CellSet   == [type : CellTypes, n : Nat]

\* What of a cell a reply carries.
Carried(c) == IF c.type \in ListTypes THEN c ELSE Cell("null", 0)

\* How many of them are up to a place tells the place.
LEMMA Ranks ==
  ASSUME NEW m \in Nat, NEW own \in SUBSET (1..m), NEW i \in own
  PROVE  /\ Cardinality({j \in own : j <= i}) \in 1..Cardinality(own)
         /\ \A x \in own : Cardinality({j \in own : j <= x}) = Cardinality({j \in own : j <= i}) => x = i
PROOF
  <1> DEFINE upto(x) == {j \in own : j <= x}
  <1>1. IsFiniteSet(own)
    <2>1. IsFiniteSet(1..m)
      BY FS_Interval
    <2> QED BY <2>1, FS_Subset
  <1>2. ASSUME NEW x \in own
        PROVE  /\ IsFiniteSet(upto(x)) /\ Cardinality(upto(x)) \in Nat
               /\ Cardinality(upto(x)) <= Cardinality(own)
    <2>1. upto(x) \in SUBSET own
      OBVIOUS
    <2> HIDE DEF upto
    <2> QED BY <1>1, <2>1, FS_Subset, FS_CardinalityType
  <1>3. Cardinality(upto(i)) # 0
    <2>1. i \in upto(i)
      OBVIOUS
    <2> HIDE DEF upto
    <2> QED BY <1>2, <2>1, FS_EmptySet
  <1>4. ASSUME NEW x \in own, NEW y \in own, x < y, Cardinality(upto(x)) = Cardinality(upto(y))
        PROVE  FALSE
    <2>1. \A z \in own : z \in Nat
      OBVIOUS
    <2>2. /\ \A z \in own : z <= x => z <= y
          /\ y <= y /\ ~(y <= x)
      BY <1>4, <2>1
    <2>3. upto(x) \in SUBSET upto(y) /\ y \in upto(y) /\ y \notin upto(x)
      BY <2>2
    <2> HIDE DEF upto
    <2> QED BY <1>2, <1>4, <2>3, FS_Subset
  <1>5. ASSUME NEW x \in own, Cardinality(upto(x)) = Cardinality(upto(i)) PROVE x = i
    <2>1. ~(x < i) /\ ~(i < x)
      BY <1>4, <1>5
    <2>2. x \in Nat /\ i \in Nat
      OBVIOUS
    <2> QED BY <2>1, <2>2
  <1>6. Cardinality(own) \in Nat
    BY <1>1, FS_CardinalityType
  <1>7. Cardinality(upto(i)) \in 1..Cardinality(own)
    <2> HIDE DEF upto
    <2> QED BY <1>2, <1>3, <1>6
  <1> QED BY <1>5, <1>7

\* A cell is found in the list of its type, where the batch has put it: what is read back
\* is the cell that was sent, and null for those without a value.
LEMMA ValueIs ==
  ASSUME NEW rows \in Seq(CellSet \X CellSet), Len(rows) # 0, NEW i \in 1..(2 * Len(rows))
  PROVE  Value(BatchOf(rows), i) = Carried(CellAt(rows, i))
PROOF
  <1> DEFINE m == 2 * Len(rows)
             cells == CellsOf(rows, Len(rows))
             batch == BatchOf(rows)
             own(t) == {j \in 1..m : cells[j].type = t}
             nth(t, k) == CHOOSE x \in own(t) : Cardinality({j \in own(t) : j <= x}) = k
  <1>1. m \in Nat /\ Len(rows) \in 0..Len(rows)
    BY LenProperties
  <1>2. /\ FlattenSeq(rows) = cells /\ DOMAIN cells = 1..m /\ cells \in Seq(CellSet) /\ Len(cells) = m
    <2> DEFINE n == Len(rows)
    <2>1. n \in 0..Len(rows)
      BY <1>1
    <2>2. FlattenSeq(rows) = CellsOf(rows, Len(rows))
      BY FlattenPairs
    <2> HIDE DEF n
    <2>3. DOMAIN CellsOf(rows, n) = 1..(2 * n) /\ CellsOf(rows, n) \in Seq(CellSet) /\ Len(CellsOf(rows, n)) = 2 * n
      BY <2>1, CellsAre
    <2> QED BY <2>2, <2>3 DEF n
  <1>3. \A j \in 1..m : cells[j] = CellAt(rows, j) /\ cells[j] \in CellSet
    BY <1>2, ElementOfSeq DEF CellsOf
  <1>4. batch = [cells  |-> [j \in 1..m |-> cells[j].type],
                 values |-> [t \in ListTypes |-> [k \in 1 .. Cardinality(own(t)) |-> cells[nth(t, k)].n]]]
    <2> HIDE DEF cells
    <2> QED BY <1>2 DEF BatchOf
  <1> HIDE DEF batch, cells, nth
  <1>5. /\ \A j \in 1..m : batch.cells[j] = cells[j].type
        /\ \A t \in ListTypes : batch.values[t] = [k \in 1 .. Cardinality(own(t)) |-> cells[nth(t, k)].n]
    BY <1>4
  <1> DEFINE type == cells[i].type
  <1>6. batch.cells[i] = type
    BY <1>5
  <1>7. Carried(cells[i]) = IF type \in ListTypes THEN Cell(type, cells[i].n) ELSE Cell("null", 0)
    <2>1. cells[i] = [type |-> cells[i].type, n |-> cells[i].n]
      BY <1>3 DEF CellSet
    <2> QED BY <2>1 DEF Carried, Cell
  <1>8. ASSUME type \notin ListTypes PROVE Value(batch, i) = Carried(cells[i])
    BY <1>6, <1>7, <1>8 DEF Value
  <1>9. ASSUME type \in ListTypes PROVE Value(batch, i) = Carried(cells[i])
    <2> DEFINE k == Nth(batch, i)
    <2>1. k = Cardinality({j \in own(type) : j <= i})
      <3>1. {j \in 1..i : batch.cells[j] = batch.cells[i]} = {j \in own(type) : j <= i}
        <4>1. \A j \in 1..i : j \in 1..m
          BY <1>1
        <4> QED BY <1>5, <1>6, <4>1
      <3> QED BY <3>1 DEF Nth
    <2>2. i \in own(type) /\ own(type) \in SUBSET (1..m)
      OBVIOUS
    <2>3. k \in 1..Cardinality(own(type)) /\ nth(type, k) = i
      <3> DEFINE mine == own(type)
      <3>1. mine \in SUBSET (1..m) /\ i \in mine
        BY <2>2
      <3> HIDE DEF k, own, mine
      <3>2. /\ Cardinality({j \in mine : j <= i}) \in 1..Cardinality(mine)
            /\ \A x \in mine : Cardinality({j \in mine : j <= x}) = Cardinality({j \in mine : j <= i}) => x = i
        BY <1>1, <3>1, Ranks
      <3>3. k = Cardinality({j \in mine : j <= i})
        BY <2>1 DEF mine
      <3>4. (CHOOSE x \in mine : Cardinality({j \in mine : j <= x}) = k) = i
        BY <3>1, <3>2, <3>3
      <3>5. nth(type, k) = CHOOSE x \in mine : Cardinality({j \in mine : j <= x}) = k
        BY DEF nth, mine
      <3> QED BY <3>2, <3>3, <3>4, <3>5 DEF mine
    <2>4. k \in DOMAIN batch.values[type] /\ batch.values[type][k] = cells[i].n
      <3> HIDE DEF k, own, type
      <3> QED BY <1>5, <1>9, <2>3
    <2>5. Value(batch, i) = Cell(type, cells[i].n)
      <3> HIDE DEF own
      <3> QED BY <1>6, <1>9, <2>4 DEF Value
    <2> QED BY <1>7, <1>9, <2>5
  <1> QED BY <1>3, <1>8, <1>9 DEF batch

\* The rows of a batch are the rows that went into it.
Kept(rows) == [r \in DOMAIN rows |-> <<Carried(rows[r][1]), Carried(rows[r][2])>>]

LEMMA KeptAre ==
  ASSUME NEW rows \in Seq(CellSet \X CellSet)
  PROVE  /\ Kept(rows) \in Seq(CellSet \X CellSet) /\ Len(Kept(rows)) = Len(rows)
         /\ DOMAIN Kept(rows) = 1..Len(rows)
PROOF
  <1>1. DOMAIN rows = 1..Len(rows) /\ Len(rows) \in Nat /\ \A r \in 1..Len(rows) : rows[r] \in CellSet \X CellSet
    BY LenProperties, ElementOfSeq
  <1>2. \A c \in CellSet : Carried(c) \in CellSet
    <2>1. Cell("null", 0) = [type |-> "null", n |-> 0]
      BY DEF Cell
    <2>2. [type |-> "null", n |-> 0] \in CellSet
      BY DEF CellSet, CellTypes
    <2>3. ASSUME NEW c \in CellSet PROVE Carried(c) \in CellSet
      <3>1. CASE c.type \in ListTypes
        BY <3>1 DEF Carried
      <3>2. CASE c.type \notin ListTypes
        BY <2>1, <2>2, <3>2 DEF Carried
      <3> QED BY <3>1, <3>2
    <2> QED BY <2>3
  <1>3. \A p \in CellSet \X CellSet : <<Carried(p[1]), Carried(p[2])>> \in CellSet \X CellSet
    BY <1>2
  <1>4. Kept(rows) \in [1..Len(rows) -> CellSet \X CellSet]
    BY <1>1, <1>3 DEF Kept
  <1> QED BY <1>1, <1>4, SeqDef

\* A batch gives back its rows.
LEMMA RowsAre ==
  ASSUME NEW rows \in Seq(CellSet \X CellSet), Len(rows) # 0
  PROVE  /\ Len(BatchOf(rows).cells) = 2 * Len(rows)
         /\ RowsOf(BatchOf(rows), 2) = Kept(rows)
PROOF
  <1> DEFINE n == Len(rows)
             batch == BatchOf(rows)
  <1>1. n \in Nat /\ n # 0 /\ DOMAIN rows = 1..n
    BY LenProperties
  <1>2. Len(batch.cells) = 2 * n
    <2>1. FlattenSeq(rows) = CellsOf(rows, n) /\ DOMAIN CellsOf(rows, n) = 1..(2 * n)
      <3>1. n \in 0..Len(rows)
        BY <1>1
      <3>2. FlattenSeq(rows) = CellsOf(rows, n)
        BY FlattenPairs
      <3> HIDE DEF n
      <3> QED BY <3>1, <3>2, CellsAre
    <2>2. batch.cells = [j \in 1..(2 * n) |-> CellsOf(rows, n)[j].type]
      BY <2>1 DEF BatchOf
    <2> HIDE DEF batch
    <2> QED BY <1>1, <2>2
  <1>3. RowsOf(batch, 2) = [r \in 1..n |-> [c \in 1..2 |-> Value(batch, (r - 1) * 2 + c)]]
    <2>1. (2 * n) \div 2 = n
      BY <1>1, Halves
    <2> HIDE DEF batch, n
    <2> QED BY <1>2, <2>1 DEF RowsOf
  <1>4. ASSUME NEW r \in 1..n
        PROVE  [c \in 1..2 |-> Value(batch, (r - 1) * 2 + c)] = <<Carried(rows[r][1]), Carried(rows[r][2])>>
    <2>1. /\ (r - 1) * 2 + 1 \in 1..(2 * n) /\ (r - 1) * 2 + 2 \in 1..(2 * n)
          /\ (((r - 1) * 2 + 1) + 1) \div 2 = r /\ ((r - 1) * 2 + 1) % 2 = 1
          /\ (((r - 1) * 2 + 2) + 1) \div 2 = r /\ ((r - 1) * 2 + 2) % 2 # 1
      BY <1>1
    <2>2. /\ Value(batch, (r - 1) * 2 + 1) = Carried(rows[r][1])
          /\ Value(batch, (r - 1) * 2 + 2) = Carried(rows[r][2])
      BY <1>1, <2>1, ValueIs DEF CellAt
    <2> HIDE DEF batch, n
    <2> QED BY <2>2
  <1> QED BY <1>1, <1>2, <1>3, <1>4 DEF Kept

NBatches(n, size) == (n + size - 1) \div size
EndOf(n, size, b) == IF b * size < n THEN b * size ELSE n
Group(rows, size, b) == SubSeq(rows, (b - 1) * size + 1, EndOf(Len(rows), size, b))

\* The batches are parts of the rows, one behind the other.
LEMMA Grouping ==
  ASSUME NEW n \in Nat, NEW size \in 1..2
  PROVE  /\ NBatches(n, size) \in Nat /\ (NBatches(n, size) = 0 <=> n = 0)
         /\ \A b \in 1..NBatches(n, size) :
              /\ (b - 1) * size \in 0..n /\ EndOf(n, size, b) \in ((b - 1) * size + 1)..n
              /\ b > 1 => EndOf(n, size, b - 1) = (b - 1) * size /\ b - 1 \in 1..NBatches(n, size)
         /\ n # 0 => EndOf(n, size, 1) \in 1..n /\ 1 \in 1..NBatches(n, size)
         /\ n # 0 => EndOf(n, size, NBatches(n, size)) = n /\ NBatches(n, size) \in 1..NBatches(n, size)
PROOF
  <1>1. CASE size = 1
    <2>1. NBatches(n, size) = n
      BY <1>1, SMT DEF NBatches
    <2>2. \A b \in Nat : EndOf(n, size, b) = IF b < n THEN b ELSE n
      BY <1>1 DEF EndOf
    <2> QED BY <1>1, <2>1, <2>2
  <1>2. CASE size = 2
    <2>1. NBatches(n, size) = (n + 1) \div 2
      BY <1>2, SMT DEF NBatches
    <2>2. PICK k \in Nat : n = 2 * k \/ n = 2 * k + 1
      <3>1. n \div 2 \in Nat /\ (n = 2 * (n \div 2) \/ n = 2 * (n \div 2) + 1)
        BY SMT
      <3> QED BY <3>1
    <2>3. \A b \in Nat : EndOf(n, size, b) = IF 2 * b < n THEN 2 * b ELSE n
      BY <1>2 DEF EndOf
    <2>4. CASE n = 2 * k
      <3>1. NBatches(n, size) = k
        BY <2>1, <2>4
      <3> QED BY <1>2, <3>1, <2>3, <2>4
    <2>5. CASE n = 2 * k + 1
      <3>1. NBatches(n, size) = k + 1
        BY <2>1, <2>5
      <3> QED BY <1>2, <3>1, <2>3, <2>5
    <2> QED BY <2>2, <2>4, <2>5
  <1> QED BY <1>1, <1>2

LEMMA GroupsAre ==
  ASSUME NEW C, NEW rows \in Seq(C), NEW size \in 1..2, NEW b \in 1..NBatches(Len(rows), size)
  PROVE  /\ Group(rows, size, b) \in Seq(C)
         /\ Len(Group(rows, size, b)) = EndOf(Len(rows), size, b) - (b - 1) * size
         /\ Len(Group(rows, size, b)) # 0 /\ Len(Group(rows, size, b)) \in Nat
         /\ \A i \in 1..Len(Group(rows, size, b)) : Group(rows, size, b)[i] = rows[(b - 1) * size + i]
         /\ \A i \in 1..Len(Group(rows, size, b)) : (b - 1) * size + i \in 1..Len(rows)
PROOF
  <1> DEFINE n == Len(rows)
             x == (b - 1) * size
             e == EndOf(n, size, b)
  <1>1. n \in Nat /\ x \in 0..n /\ e \in (x + 1)..n
    <2>1. n \in Nat
      BY LenProperties
    <2> QED BY <2>1, Grouping
  <1> HIDE DEF n, x, e
  <1>2. rows \in [1..n -> C] /\ Len(rows) = n
    BY LenProperties DEF n
  <1>3. SubSeq(rows, x + 1, e) \in Seq(C) /\ Len(SubSeq(rows, x + 1, e)) = e - x
        /\ \A i \in 1..(e - x) : SubSeq(rows, x + 1, e)[i] = rows[x + i] /\ x + i \in 1..n
    <2>1. x + 1 \in Int /\ e \in Int /\ x + 1 <= e /\ e - (x + 1) + 1 = e - x
      BY <1>1
    <2>2. \A i \in (x + 1)..e : rows[i] \in C
      BY <1>1, <1>2
    <2>3. /\ SubSeq(rows, x + 1, e) \in Seq(C)
          /\ Len(SubSeq(rows, x + 1, e)) = IF x + 1 <= e THEN e - (x + 1) + 1 ELSE 0
          /\ \A i \in 1 .. e - (x + 1) + 1 : SubSeq(rows, x + 1, e)[i] = rows[(x + 1) + i - 1]
      BY <2>1, <2>2, SubSeqProperties
    <2>4. \A i \in 1..(e - x) : x + i \in 1..n /\ (x + 1) + i - 1 = x + i
      BY <1>1
    <2> QED BY <2>1, <2>3, <2>4
  <1>4. Group(rows, size, b) = SubSeq(rows, x + 1, e)
    BY DEF Group, n, x, e
  <1> QED BY <1>1, <1>3, <1>4 DEF x, e, n

Pairs == CellSet \X CellSet

\* The rows of a reply, batch by batch, are the rows.
LEMMA KeptGroup ==
  ASSUME NEW rows \in Seq(Pairs), NEW size \in 1..2, NEW b \in 1..NBatches(Len(rows), size)
  PROVE  Kept(Group(rows, size, b)) = Group(Kept(rows), size, b)
PROOF
  <1> DEFINE g == Group(rows, size, b)
             h == Group(Kept(rows), size, b)
  <1>1. Kept(rows) \in Seq(Pairs) /\ Len(Kept(rows)) = Len(rows)
    BY KeptAre DEF Pairs
  <1>2. /\ g \in Seq(Pairs) /\ Len(g) \in Nat
        /\ \A i \in 1..Len(g) : g[i] = rows[(b - 1) * size + i] /\ (b - 1) * size + i \in 1..Len(rows)
        /\ Len(g) = EndOf(Len(rows), size, b) - (b - 1) * size
    BY GroupsAre
  <1>3. /\ h \in Seq(Pairs) /\ Len(h) = Len(g)
        /\ \A i \in 1..Len(h) : h[i] = Kept(rows)[(b - 1) * size + i]
    <2> DEFINE k == Kept(rows)
    <2>1. k \in Seq(Pairs) /\ Len(k) = Len(rows) /\ b \in 1..NBatches(Len(k), size)
      BY <1>1
    <2> HIDE DEF k
    <2>2. /\ Group(k, size, b) \in Seq(Pairs)
          /\ Len(Group(k, size, b)) = EndOf(Len(k), size, b) - (b - 1) * size
          /\ \A i \in 1..Len(Group(k, size, b)) : Group(k, size, b)[i] = k[(b - 1) * size + i]
      BY <2>1, GroupsAre
    <2> QED BY <1>2, <2>1, <2>2 DEF k
  <1> HIDE DEF g, h
  <1>4. Kept(g) \in Seq(Pairs) /\ Len(Kept(g)) = Len(g)
    BY <1>2, KeptAre DEF Pairs
  <1>5. DOMAIN g = 1..Len(g) /\ DOMAIN rows = 1..Len(rows)
    BY <1>2, LenProperties
  <1>6. \A i \in 1..Len(Kept(g)) : Kept(g)[i] = h[i]
    BY <1>2, <1>3, <1>4, <1>5 DEF Kept
  <1>7. Kept(g) = h
    BY <1>3, <1>4, <1>6, SeqEqual
  <1> QED BY <1>7 DEF g, h

LEMMA BatchesAre ==
  ASSUME NEW rows \in Seq(Pairs), NEW size \in 1..2
  PROVE  /\ Batches(rows, size) = [b \in 1..NBatches(Len(rows), size) |-> BatchOf(Group(rows, size, b))]
         /\ \A b \in 1..NBatches(Len(rows), size) :
              /\ Len(Batches(rows, size)[b].cells) = 2 * Len(Group(rows, size, b))
              /\ RowsOf(Batches(rows, size)[b], 2) = Group(Kept(rows), size, b)
PROOF
  <1>1. Batches(rows, size) = [b \in 1..NBatches(Len(rows), size) |-> BatchOf(Group(rows, size, b))]
    BY DEF Batches, NBatches, Group, EndOf
  <1>2. ASSUME NEW b \in 1..NBatches(Len(rows), size)
        PROVE  /\ Len(BatchOf(Group(rows, size, b)).cells) = 2 * Len(Group(rows, size, b))
               /\ RowsOf(BatchOf(Group(rows, size, b)), 2) = Group(Kept(rows), size, b)
    <2> DEFINE g == Group(rows, size, b)
    <2>1. g \in Seq(CellSet \X CellSet) /\ Len(g) # 0
      BY GroupsAre DEF Pairs
    <2>2. Kept(g) = Group(Kept(rows), size, b)
      BY KeptGroup
    <2> HIDE DEF g
    <2>3. Len(BatchOf(g).cells) = 2 * Len(g) /\ RowsOf(BatchOf(g), 2) = Kept(g)
      BY <2>1, RowsAre
    <2> QED BY <2>2, <2>3 DEF g
  <1> QED BY <1>1, <1>2

LEMMA AllRows ==
  ASSUME NEW rows \in Seq(Pairs), NEW size \in 1..2
  PROVE  FlattenSeq([b \in DOMAIN Batches(rows, size) |-> RowsOf(Batches(rows, size)[b], 2)]) = Kept(rows)
PROOF
  <1> DEFINE n == Len(rows)
             nb == NBatches(n, size)
             k == Kept(rows)
             seqs == [b \in 1..nb |-> Group(k, size, b)]
             sofar == [b \in 1..nb |-> SubSeq(k, 1, EndOf(n, size, b))]
  <1>1. n \in Nat /\ k \in Seq(Pairs) /\ Len(k) = n
    BY LenProperties, KeptAre DEF Pairs
  <1>2. [b \in DOMAIN Batches(rows, size) |-> RowsOf(Batches(rows, size)[b], 2)] = seqs
    <2>1. DOMAIN Batches(rows, size) = 1..NBatches(Len(rows), size)
      BY BatchesAre
    <2>2. \A b \in 1..NBatches(Len(rows), size) : RowsOf(Batches(rows, size)[b], 2) = Group(Kept(rows), size, b)
      BY BatchesAre
    <2> QED BY <2>1, <2>2
  <1>3. nb \in Nat /\ (nb = 0 <=> n = 0)
    BY <1>1, Grouping
  <1>4. CASE n = 0
    <2>1. seqs = <<>>
      BY <1>3, <1>4
    <2>2. FlattenSeq(<<>>) = <<>>
      BY DEF FlattenSeq
    <2>3. k = <<>>
      BY <1>1, <1>4, EmptySeq
    <2> QED BY <1>2, <2>1, <2>2, <2>3
  <1>5. CASE n # 0
    <2> HIDE DEF n, k
    <2>1. \A b \in 1..nb : /\ (b - 1) * size \in 0..n /\ EndOf(n, size, b) \in ((b - 1) * size + 1)..n
                           /\ b > 1 => EndOf(n, size, b - 1) = (b - 1) * size /\ b - 1 \in 1..nb
      BY <1>1, Grouping
    <2>2. EndOf(n, size, nb) = n /\ nb \in 1..nb /\ 1 \in 1..nb
      BY <1>1, <1>5, Grouping
    <2>3. \A b \in 1..nb : seqs[b] = SubSeq(k, (b - 1) * size + 1, EndOf(n, size, b))
      BY <1>1 DEF Group
    <2>4. sofar[1] = seqs[1]
      <3>1. (1 - 1) * size + 1 = 1
        OBVIOUS
      <3>2. seqs[1] = SubSeq(k, (1 - 1) * size + 1, EndOf(n, size, 1))
        BY <2>2, <2>3
      <3> QED BY <2>2, <3>1, <3>2
    <2>5. ASSUME NEW b \in 2..nb PROVE sofar[b] = sofar[b - 1] \o seqs[b]
      <3> DEFINE x == (b - 1) * size
                 e == EndOf(n, size, b)
      <3>1. b \in 1..nb /\ b > 1
        BY <1>3
      <3>2. x \in 0..n /\ e \in (x + 1)..n /\ EndOf(n, size, b - 1) = x /\ b - 1 \in 1..nb
        BY <2>1, <3>1
      <3>3. seqs[b] = SubSeq(k, x + 1, e) /\ sofar[b] = SubSeq(k, 1, e) /\ sofar[b - 1] = SubSeq(k, 1, x)
        BY <2>3, <3>1, <3>2
      <3> HIDE DEF x, e, seqs, sofar
      <3>4. SubSeq(k, 1, x) \o SubSeq(k, x + 1, e) = SubSeq(k, 1, e)
        <4> DEFINE one == 1
        <4>1. one \in 1..Len(k) + 1 /\ x \in one - 1..Len(k) /\ e \in x..Len(k)
          BY <1>1, <3>2
        <4> HIDE DEF one
        <4>2. SubSeq(k, one, x) \o SubSeq(k, x + 1, e) = SubSeq(k, one, e)
          BY <1>1, <4>1, ConcatAdjacentSubSeq
        <4> QED BY <4>2 DEF one
      <3> QED BY <3>3, <3>4
    <2>6. Len(seqs) = nb /\ DOMAIN sofar = 1..Len(seqs) /\ sofar = [i \in 1..Len(seqs) |-> sofar[i]]
      <3>1. Len(seqs) = nb
        <4> HIDE DEF nb
        <4> QED BY <1>3
      <3> QED BY <3>1
    <2>7. FlattenSeq(seqs) = sofar[Len(seqs)]
      <3> HIDE DEF seqs, sofar, nb
      <3>1. Len(seqs) \in Nat /\ Len(seqs) # 0
        BY <1>3, <1>5, <2>6
      <3> QED BY <2>4, <2>5, <2>6, <3>1, FlattenIs
    <2>8. sofar[nb] = SubSeq(k, 1, n)
      BY <2>2
    <2>9. SubSeq(k, 1, n) = k
      BY <1>1, SubSeqFull
    <2> QED BY <1>2, <2>6, <2>7, <2>8, <2>9 DEF k, n
  <1> QED BY <1>4, <1>5

\* A sum over 1..m, element by element in whatever order: what grows by each of them.
SumsUp(total, fun, m) ==
  /\ DOMAIN fun = 1..m
  /\ DOMAIN total = SUBSET (1..m) /\ total = [s \in SUBSET (1..m) |-> total[s]]
  /\ total[{}] = 0
  /\ \A s \in SUBSET (1..m) : \A x \in s : total[s] = fun[x] + total[s \ {x}]

\* What adds up in the same way as the counts is their sum.
LEMMA SumIs ==
  ASSUME NEW m \in Nat, NEW fun, NEW total, SumsUp(total, fun, m)
  PROVE  SumFunction(fun) = total[1..m]
PROOF
  <1> DEFINE D == SUBSET (1..m)
             Adds(f) == f = [s \in D |-> IF s = {} THEN 0 ELSE fun[CHOOSE x \in s : TRUE] + f[s \ {CHOOSE x \in s : TRUE}]]
             it == CHOOSE f : Adds(f)
  <1>0. /\ DOMAIN fun = 1..m /\ total = [s \in D |-> total[s]] /\ total[{}] = 0
        /\ \A s \in D : \A x \in s : total[s] = fun[x] + total[s \ {x}]
    BY DEF SumsUp
  <1>1. SumFunction(fun) = it[1..m]
    BY <1>0 DEF SumFunction, SumFunctionOnSet, FoldFunctionOnSet, MapThenFoldSet
  <1>2. Adds(total)
    <2>1. ASSUME NEW s \in D, s # {}
          PROVE  total[s] = fun[CHOOSE x \in s : TRUE] + total[s \ {CHOOSE x \in s : TRUE}]
      <3>1. (CHOOSE x \in s : TRUE) \in s
        BY <2>1
      <3> QED BY <1>0, <3>1
    <2>2. \A s \in D : total[s] = IF s = {} THEN 0 ELSE fun[CHOOSE x \in s : TRUE] + total[s \ {CHOOSE x \in s : TRUE}]
      BY <1>0, <2>1
    <2> QED BY <1>0, <2>2
  <1>3. Adds(it)
    <2> HIDE DEF Adds
    <2> QED BY <1>2
  <1>4. it[{}] = 0 /\ \A s \in D : s # {} => it[s] = fun[CHOOSE x \in s : TRUE] + it[s \ {CHOOSE x \in s : TRUE}]
    <2> HIDE DEF it
    <2>1. {} \in D
      OBVIOUS
    <2> QED BY <1>3, <2>1
  <1> DEFINE T == {k \in Nat : \A s \in D : Cardinality(s) = k => it[s] = total[s]}
  <1>5. \A s \in D : IsFiniteSet(s) /\ Cardinality(s) \in Nat
    <2>1. IsFiniteSet(1..m)
      BY FS_Interval
    <2> QED BY <2>1, FS_Subset, FS_CardinalityType
  <1> HIDE DEF it, Adds
  <1>6. 0 \in T
    BY <1>0, <1>4, <1>5, FS_EmptySet
  <1>7. ASSUME NEW k \in Nat, k \in T PROVE k + 1 \in T
    <2>1. ASSUME NEW s \in D, Cardinality(s) = k + 1 PROVE it[s] = total[s]
      <3> DEFINE x == CHOOSE x \in s : TRUE
      <3>1. s # {}
        <4>1. k + 1 # 0
          OBVIOUS
        <4> QED BY <2>1, <4>1, FS_EmptySet
      <3>2. x \in s
        BY <3>1
      <3>3. it[s] = fun[x] + it[s \ {x}]
        BY <1>4, <3>1
      <3> HIDE DEF x
      <3>4. s \ {x} \in D
        OBVIOUS
      <3>5. Cardinality(s \ {x}) = k
        <4>1. Cardinality(s \ {x}) = Cardinality(s) - 1
          BY <1>5, <3>2, FS_RemoveElement
        <4> QED BY <2>1, <4>1
      <3>6. it[s \ {x}] = total[s \ {x}]
        BY <1>7, <3>4, <3>5
      <3> QED BY <1>0, <3>2, <3>3, <3>6
    <2>2. k + 1 \in Nat
      OBVIOUS
    <2> QED BY <2>1, <2>2
  <1>8. Nat \subseteq T
    <2> HIDE DEF T
    <2> QED BY <1>6, <1>7, Inductive
  <1>9. 1..m \in D /\ Cardinality(1..m) \in T
    <2> HIDE DEF T
    <2> QED BY <1>5, <1>8
  <1> QED BY <1>1, <1>9

\* The batches count the rows.
LEMMA RowCountIs ==
  ASSUME NEW rows \in Seq(Pairs), NEW size \in 1..2
  PROVE  RowCount(Batches(rows, size), 2) = Len(rows)
PROOF
  <1> DEFINE n == Len(rows)
             nb == NBatches(n, size)
             fun == [b \in 1..nb |-> EndOf(n, size, b) - (b - 1) * size]
             total == [s \in SUBSET (1..nb) |-> size * Cardinality(s) - IF nb \in s THEN size * nb - n ELSE 0]
  <1>1. n \in Nat /\ nb \in Nat /\ (nb = 0 <=> n = 0)
    <2>1. n \in Nat
      BY LenProperties
    <2> HIDE DEF n
    <2> QED BY <2>1, Grouping
  <1>2. [b \in DOMAIN Batches(rows, size) |-> Len(Batches(rows, size)[b].cells) \div 2] = fun
    <2>1. DOMAIN Batches(rows, size) = 1..nb
      BY BatchesAre
    <2>2. ASSUME NEW b \in 1..nb
          PROVE  Len(Batches(rows, size)[b].cells) \div 2 = EndOf(n, size, b) - (b - 1) * size
      <3>1. Len(Batches(rows, size)[b].cells) = 2 * Len(Group(rows, size, b))
        BY BatchesAre
      <3>2. Len(Group(rows, size, b)) \in Nat
            /\ Len(Group(rows, size, b)) = EndOf(n, size, b) - (b - 1) * size
        BY GroupsAre
      <3> QED BY <3>1, <3>2, Halves
    <2> QED BY <2>1, <2>2
  <1>3. \A b \in 1..nb : fun[b] = IF b = nb THEN n - (nb - 1) * size ELSE size
    <2> HIDE DEF n
    <2>1. CASE size = 1
      <3>1. nb = n
        BY <1>1, <2>1, SMT DEF NBatches
      <3> QED BY <1>1, <2>1, <3>1 DEF EndOf
    <2>2. CASE size = 2
      <3>1. nb = (n + 1) \div 2
        BY <1>1, <2>2, SMT DEF NBatches
      <3>2. n = 2 * nb \/ n = 2 * nb - 1
        BY <1>1, <3>1
      <3> HIDE DEF nb
      <3>3. \A b \in 1..nb : EndOf(n, size, b) - (b - 1) * size = IF b = nb THEN n - (nb - 1) * size ELSE size
        BY <1>1, <2>2, <3>2 DEF EndOf
      <3> QED BY <3>3
    <2> QED BY <2>1, <2>2
  <1>4. \A s \in SUBSET (1..nb) : IsFiniteSet(s) /\ Cardinality(s) \in Nat
    <2>1. IsFiniteSet(1..nb)
      BY <1>1, FS_Interval
    <2> QED BY <2>1, FS_Subset, FS_CardinalityType
  <1>5. total[{}] = 0
    <2>1. Cardinality({}) = 0 /\ {} \in SUBSET (1..nb) /\ ~(nb \in {}) /\ size * 0 - 0 = 0
      BY FS_EmptySet
    <2> QED BY <2>1
  <1>6. ASSUME NEW s \in SUBSET (1..nb), NEW x \in s
        PROVE  total[s] = fun[x] + total[s \ {x}]
    <2> DEFINE c == Cardinality(s)
    <2>1. c \in Nat /\ Cardinality(s \ {x}) = c - 1 /\ s \ {x} \in SUBSET (1..nb) /\ x \in 1..nb
      BY <1>4, FS_RemoveElement
    <2>2. total[s] = size * c - IF nb \in s THEN size * nb - n ELSE 0
      OBVIOUS
    <2>3. total[s \ {x}] = size * (c - 1) - IF nb \in s \ {x} THEN size * nb - n ELSE 0
      BY <2>1
    <2>4. fun[x] = IF x = nb THEN n - (nb - 1) * size ELSE size
      BY <1>3, <2>1
    <2>5. nb \in s \ {x} <=> nb \in s /\ x # nb
      OBVIOUS
    <2> HIDE DEF total, fun, nb, n, c
    <2>6. CASE size = 1
      BY <1>1, <2>1, <2>2, <2>3, <2>4, <2>5, <2>6
    <2>7. CASE size = 2
      BY <1>1, <2>1, <2>2, <2>3, <2>4, <2>5, <2>7
    <2> QED BY <2>6, <2>7
  <1>7. total[1..nb] = n
    <2>1. Cardinality(1..nb) = nb
      BY <1>1, FS_Interval
    <2>2. total[1..nb] = size * nb - IF nb \in 1..nb THEN size * nb - n ELSE 0
      BY <2>1
    <2> HIDE DEF total, n, nb
    <2>3. CASE nb = 0
      BY <1>1, <2>2, <2>3
    <2>4. CASE nb # 0
      <3>1. nb \in 1..nb
        BY <1>1, <2>4
      <3> QED BY <1>1, <2>2, <3>1
    <2> QED BY <2>3, <2>4
  <1>8. DOMAIN fun = 1..nb /\ DOMAIN total = SUBSET (1..nb) /\ total = [s \in SUBSET (1..nb) |-> total[s]]
    OBVIOUS
  <1>9. SumFunction(fun) = total[1..nb]
    <2>1. \A s \in SUBSET (1..nb) : \A x \in s : total[s] = fun[x] + total[s \ {x}]
      BY <1>6
    <2> HIDE DEF fun, total, nb
    <2>2. SumsUp(total, fun, nb)
      BY <1>5, <1>8, <2>1 DEF SumsUp
    <2> QED BY <1>1, <2>2, SumIs
  <1> QED BY <1>2, <1>7, <1>9 DEF RowCount

\* What Decode makes of the whole reply, and of a reply that has lost a cell.
Whole(rows, max) ==
  LET limit == IF max = None THEN Len(rows) ELSE max
      taken == IF limit < Len(rows) THEN limit ELSE Len(rows)
  IN  IF max # 0 /\ taken > MaxRows THEN Failed("TooManyRows")
      ELSE Table(SubSeq(Kept(rows), 1, taken), Len(rows), taken < Len(rows))

\* query.rs: a reply is decoded to the rows it was made of, however it was batched.
LEMMA Decoded ==
  ASSUME NEW rows \in Seq(Pairs), NEW size \in 1..2, NEW max
  PROVE  Decode(Reply(rows, 2, size), max) = Whole(rows, max)
PROOF
  <1> DEFINE reply == Reply(rows, 2, size)
             nb == NBatches(Len(rows), size)
  <1>1. reply.error = None /\ reply.outputs = 1 /\ reply.cols = 2 /\ reply.batches = Batches(rows, size)
    BY DEF Reply
  <1>2. Complete(Batches(rows, size), 2)
    <2>1. ASSUME NEW b \in 1..nb PROVE Len(Batches(rows, size)[b].cells) % 2 = 0
      <3>1. Len(Batches(rows, size)[b].cells) = 2 * Len(Group(rows, size, b)) /\ Len(Group(rows, size, b)) \in Nat
        BY BatchesAre, GroupsAre
      <3>2. \A k \in Nat : (2 * k) % 2 = 0
        BY SMT
      <3> QED BY <3>1, <3>2
    <2>2. DOMAIN Batches(rows, size) = 1..nb
      BY BatchesAre
    <2> QED BY <2>1, <2>2 DEF Complete
  <1>3. RowCount(Batches(rows, size), 2) = Len(rows)
    BY RowCountIs
  <1>4. FlattenSeq([b \in DOMAIN Batches(rows, size) |-> RowsOf(Batches(rows, size)[b], 2)]) = Kept(rows)
    BY AllRows
  <1> HIDE DEF reply
  <1>5. /\ RowCount(reply.batches, reply.cols) = Len(rows)
        /\ Complete(reply.batches, reply.cols)
    BY <1>1, <1>2, <1>3
  <1>6. FlattenSeq([b \in DOMAIN reply.batches |-> RowsOf((reply.batches)[b], reply.cols)]) = Kept(rows)
    <2>1. [b \in DOMAIN reply.batches |-> RowsOf((reply.batches)[b], reply.cols)]
          = [b \in DOMAIN Batches(rows, size) |-> RowsOf(Batches(rows, size)[b], 2)]
      BY <1>1
    <2> QED BY <1>4, <2>1
  <1>7. Decode(reply, max) = Whole(rows, max)
    BY <1>1, <1>5, <1>6 DEF Decode, Whole
  <1> QED BY <1>7 DEF reply

\* query.rs: a reply that lost its last cell is an error.
LEMMA CutFails ==
  ASSUME NEW rows \in Seq(Pairs), Len(rows) # 0, NEW size \in 1..2, NEW max
  PROVE  Decode(Cut(Reply(rows, 2, size)), max) = Failed("Other")
PROOF
  <1> DEFINE reply == Reply(rows, 2, size)
             cut == Cut(reply)
             bs == Batches(rows, size)
             nb == NBatches(Len(rows), size)
  <1>1. reply = [error |-> None, outputs |-> 1, cols |-> 2, batches |-> bs]
    BY DEF Reply
  <1>2. nb \in Nat /\ nb \in 1..nb
    BY LenProperties, Grouping
  <1>3. bs = [b \in 1..nb |-> BatchOf(Group(rows, size, b))] /\ Len(bs) = nb /\ DOMAIN bs = 1..nb
    <2>1. bs = [b \in 1..nb |-> BatchOf(Group(rows, size, b))]
      BY BatchesAre
    <2> HIDE DEF bs, nb
    <2> QED BY <1>2, <2>1
  <1>4. /\ cut.error = None /\ cut.outputs = 1 /\ cut.cols = 2
        /\ cut.batches = [bs EXCEPT ![nb] = [bs[nb] EXCEPT !.cells = Front(bs[nb].cells)]]
    <2>1. /\ cut.error = None /\ cut.outputs = 1 /\ cut.cols = 2
          /\ cut.batches = ReplaceAt(bs, Len(bs), [Last(bs) EXCEPT !.cells = Front(Last(bs).cells)])
      BY <1>1 DEF Cut
    <2> QED BY <1>3, <2>1 DEF ReplaceAt, Last
  <1>5. cut.batches[nb].cells = Front(bs[nb].cells) /\ nb \in DOMAIN cut.batches
    <2>1. bs[nb] = [cells |-> bs[nb].cells, values |-> bs[nb].values]
      BY <1>2, <1>3 DEF BatchOf
    <2>2. [bs[nb] EXCEPT !.cells = Front(bs[nb].cells)].cells = Front(bs[nb].cells)
      BY <2>1
    <2>3. DOMAIN cut.batches = 1..nb
      BY <1>3, <1>4
    <2> HIDE DEF cut, bs, nb
    <2> QED BY <1>2, <1>3, <1>4, <2>2, <2>3
  <1>6. Len(Front(bs[nb].cells)) % 2 = 1
    <2> DEFINE c == bs[nb].cells
               k == Len(Group(rows, size, nb))
    <2>1. Len(c) = 2 * k
      BY <1>2, BatchesAre
    <2>2. k \in Nat /\ k # 0
      BY <1>2, GroupsAre
    <2> HIDE DEF k, c
    <2>3. Front(c) = SubSeq(c, 1, 2 * k - 1)
      BY <2>1 DEF Front
    <2>4. Len(SubSeq(c, 1, 2 * k - 1)) = 2 * k - 1
      <3>1. SubSeq(c, 1, 2 * k - 1) = [i \in 1..(2 * k - 1) |-> c[i]]
        BY <2>2
      <3> QED BY <2>2, <3>1
    <2>5. (2 * k - 1) % 2 = 1
      BY <2>2
    <2> QED BY <2>3, <2>4, <2>5 DEF c
  <1>7. ~Complete(cut.batches, cut.cols)
    <2>1. Len(cut.batches[nb].cells) % 2 = 1
      BY <1>5, <1>6
    <2> HIDE DEF cut, nb, bs
    <2>2. ~Complete(cut.batches, 2)
      <3>1. ASSUME Complete(cut.batches, 2) PROVE FALSE
        <4>1. \A b \in DOMAIN cut.batches : Len(cut.batches[b].cells) % 2 = 0
          BY <3>1, Zenon DEF Complete
        <4>2. Len(cut.batches[nb].cells) % 2 = 0
          BY <1>5, <4>1, Zenon
        <4>3. \A z : ~(z = 1 /\ z = 0)
          OBVIOUS
        <4> QED BY <2>1, <4>2, <4>3, Zenon
      <3> QED BY <3>1
    <2> QED BY <1>4, <2>2
  <1>8. Decode(cut, max) = Failed("Other")
    <2> HIDE DEF cut
    <2> QED BY <1>4, <1>7 DEF Decode
  <1> QED BY <1>8
-----------------------------------------------------------------------------
Failures  == {"MissingTable", "MissingColumn", "AmbiguousColumn", "MissingModule", "MultipleOutputs"}
ParamSet ==
  [limit : RowLimits, head : {None, 1}, text : {None, 0, 1}, columns_only : BOOLEAN, summary : BOOLEAN,
   counted : BOOLEAN, good : BOOLEAN, page : BOOLEAN, offset : Nat, ids : {"there", "some", "missing"},
   fails : {None} \cup Failures]

Threads == "list_threads_in_process"

StepNames ==
  {"shape", "selector", "open", "column", "rows", "format", "count", "groups", "limit", "preflight", "text",
   "build", "evidence", "missing", "incomplete", "status", "summary"}

DoneSteps == Len(Steps[Tool]) - Len(todo)
Done(step) == \E j \in 1..DoneSteps : Steps[Tool][j] = step

\* The limit of a call, by its parameters.
Bound == IF Tool = "execute_sql" THEN Shape(call.p).limit ELSE ToolLimit(call.p.limit).value
AskedFor(limit) ==
  LET from == SubSeq(Rows, call.p.offset + 1, Len(Rows))
  IN  IF limit = None THEN from ELSE SubSeq(from, 1, Smaller(limit, Len(from)))
BoundSql == IF Tool \in Summaries \cup {Threads} THEN Bound
            ELSE IF Tool \in Limited THEN Probe(Bound) ELSE None
Fetched == Whole(AskedFor(BoundSql), IF Tool = "execute_sql" THEN Bound ELSE None)

GotIsRecord(g) ==
  g = [limit |-> g.limit, table |-> g.table, count |-> g.count, groups |-> g.groups, summary |-> g.summary]

GotInv ==
  /\ Tool \in Limited /\ Done("limit") => ToolLimit(call.p.limit).ok /\ got.limit = Bound
  /\ Tool = "execute_sql" /\ Done("shape") => ShapeAllowed(call.p) /\ got.limit = Bound
  /\ Done("rows") => got.table = Fetched /\ got.table.ok
  /\ Done("count") => got.count = trace.rows
  /\ Done("summary") => got.summary \in {"unavailable", Profile(trace)}

CallInv ==
  /\ trace \in Traces
  /\ Tool \in ToolNames \cup {None} /\ call.p \in ParamSet
  /\ Tool # Threads => call.p.offset = 0
  /\ Tool = None => todo = <<>> /\ answer = NoAnswer
  /\ todo \in Seq(StepNames) /\ GotIsRecord(got)
  /\ todo # <<>> =>
       /\ answer = NoAnswer
       /\ Tool = Threads => call.p.offset = Len(seen)
       /\ Len(todo) <= Len(Steps[Tool])
       /\ todo = SubSeq(Steps[Tool], DoneSteps + 1, Len(Steps[Tool]))
       /\ GotInv
  /\ Len(seen) \in 0..trace.rows /\ seen = SubSeq(Shown(Rows), 1, Len(seen))
  /\ advice \in {{}, RecommendedTools(Profile(trace))}

Earlier(step, s, i) == \E j \in 1..(i - 1) : s[j] = step

\* What the order of the steps of a tool comes to.
Ordered(tool, s, i) ==
  /\ s[i] = "shape" => tool = "execute_sql"
  /\ s[i] = "limit" => tool \in Limited \cup {"list_stdlib_modules"}
  /\ s[i] = "count" => tool \in Limited
  /\ s[i] = "groups" => tool = Threads
  /\ s[i] = "preflight" => tool \in Chrome
  /\ s[i] = "summary" => tool = "load_trace"
  /\ s[i] = "rows" =>
       /\ tool \in Limited => Earlier("limit", s, i)
       /\ tool = "execute_sql" => Earlier("shape", s, i)
  /\ s[i] = "format" =>
       /\ tool \in Limited => Earlier("limit", s, i) /\ Earlier("count", s, i)
       /\ tool = "execute_sql" => Earlier("shape", s, i)
       /\ tool \notin {"list_stdlib_modules", "load_trace"} => Earlier("rows", s, i)
       /\ tool = "load_trace" => Earlier("summary", s, i)

\* mod.rs: a handler has its limit and its rows before it needs them.
LEMMA StepsOrdered ==
  ASSUME NEW tool \in ToolNames
  PROVE  /\ Steps[tool] \in Seq(StepNames)
         /\ \A i \in 1..Len(Steps[tool]) : Ordered(tool, Steps[tool], i)
PROOF
  <1>1. CASE tool = "execute_sql"
    <2> DEFINE s == ExecuteSql
    <2>1. Steps[tool] = s
      BY <1>1 DEF Steps
    <2>2. /\ s \in Seq(StepNames) /\ Len(s) = 4
          /\ s[1] = "shape" /\ s[2] = "open"
          /\ s[3] = "rows" /\ s[4] = "format"
      BY DEF ExecuteSql, StepNames
    <2>3. tool \notin Chrome /\ tool \notin Limited
      BY <1>1 DEF Chrome, Limited, Summaries, Hotspots
    <2>4. (tool = "execute_sql" <=> TRUE) /\ (tool = "load_trace" <=> FALSE) /\ (tool = "list_stdlib_modules" <=> FALSE)
          /\ (tool = Threads <=> FALSE)
      BY <1>1 DEF Chrome, Limited, Summaries, Hotspots, Threads
    <2> HIDE DEF s
    <2>5. ASSUME NEW i \in 1..4 PROVE Ordered(tool, s, i)
      <3>1. i > 1 => Earlier("shape", s, i)
        BY <2>2 DEF Earlier
      <3>2. i > 3 => Earlier("rows", s, i)
        BY <2>2 DEF Earlier
      <3>3. i = 1 \/ i = 2 \/ i = 3 \/ i = 4
        OBVIOUS
      <3> QED BY <2>2, <2>3, <2>4, <3>1, <3>2, <3>3 DEF Ordered
    <2> QED BY <2>1, <2>2, <2>5
  <1>2. CASE tool = "list_tables"
    <2> DEFINE s == ListTables
    <2>1. Steps[tool] = s
      BY <1>2 DEF Steps
    <2>2. /\ s \in Seq(StepNames) /\ Len(s) = 4
          /\ s[1] = "selector" /\ s[2] = "open"
          /\ s[3] = "rows" /\ s[4] = "format"
      BY DEF ListTables, StepNames
    <2>3. tool \notin Chrome /\ tool \notin Limited
      BY <1>2 DEF Chrome, Limited, Summaries, Hotspots
    <2>4. (tool = "execute_sql" <=> FALSE) /\ (tool = "load_trace" <=> FALSE) /\ (tool = "list_stdlib_modules" <=> FALSE)
          /\ (tool = Threads <=> FALSE)
      BY <1>2 DEF Chrome, Limited, Summaries, Hotspots, Threads
    <2> HIDE DEF s
    <2>5. ASSUME NEW i \in 1..4 PROVE Ordered(tool, s, i)
      <3>1. i > 3 => Earlier("rows", s, i)
        BY <2>2 DEF Earlier
      <3>2. i = 1 \/ i = 2 \/ i = 3 \/ i = 4
        OBVIOUS
      <3> QED BY <2>2, <2>3, <2>4, <3>1, <3>2 DEF Ordered
    <2> QED BY <2>1, <2>2, <2>5
  <1>3. CASE tool = "list_processes"
    <2> DEFINE s == ListProcesses
    <2>1. Steps[tool] = s
      BY <1>3 DEF Steps
    <2>2. /\ s \in Seq(StepNames) /\ Len(s) = 4
          /\ s[1] = "open" /\ s[2] = "column"
          /\ s[3] = "rows" /\ s[4] = "format"
      BY DEF ListProcesses, StepNames
    <2>3. tool \notin Chrome /\ tool \notin Limited
      BY <1>3 DEF Chrome, Limited, Summaries, Hotspots
    <2>4. (tool = "execute_sql" <=> FALSE) /\ (tool = "load_trace" <=> FALSE) /\ (tool = "list_stdlib_modules" <=> FALSE)
          /\ (tool = Threads <=> FALSE)
      BY <1>3 DEF Chrome, Limited, Summaries, Hotspots, Threads
    <2> HIDE DEF s
    <2>5. ASSUME NEW i \in 1..4 PROVE Ordered(tool, s, i)
      <3>1. i > 3 => Earlier("rows", s, i)
        BY <2>2 DEF Earlier
      <3>2. i = 1 \/ i = 2 \/ i = 3 \/ i = 4
        OBVIOUS
      <3> QED BY <2>2, <2>3, <2>4, <3>1, <3>2 DEF Ordered
    <2> QED BY <2>1, <2>2, <2>5
  <1>4. CASE tool = "list_threads_in_process"
    <2> DEFINE s == ListThreadsInProcess
    <2>1. Steps[tool] = s
      BY <1>4 DEF Steps
    <2>2. /\ s \in Seq(StepNames) /\ Len(s) = 8
          /\ s[1] = "selector" /\ s[2] = "open" /\ s[3] = "column" /\ s[4] = "count"
          /\ s[5] = "groups" /\ s[6] = "limit" /\ s[7] = "rows" /\ s[8] = "format"
      BY DEF ListThreadsInProcess, StepNames
    <2>3. tool \notin Chrome /\ tool \in Limited
      BY <1>4 DEF Chrome, Limited, Summaries, Hotspots
    <2>4. (tool = "execute_sql" <=> FALSE) /\ (tool = "load_trace" <=> FALSE) /\ (tool = "list_stdlib_modules" <=> FALSE)
          /\ (tool = Threads <=> TRUE)
      BY <1>4 DEF Chrome, Limited, Summaries, Hotspots, Threads
    <2> HIDE DEF s
    <2>5. ASSUME NEW i \in 1..8 PROVE Ordered(tool, s, i)
      <3>1. i > 6 => Earlier("limit", s, i)
        BY <2>2 DEF Earlier
      <3>2. i > 7 => Earlier("rows", s, i)
        BY <2>2 DEF Earlier
      <3>3. i > 4 => Earlier("count", s, i)
        BY <2>2 DEF Earlier
      <3>4. i = 1 \/ i = 2 \/ i = 3 \/ i = 4 \/ i = 5 \/ i = 6 \/ i = 7 \/ i = 8
        OBVIOUS
      <3> QED BY <2>2, <2>3, <2>4, <3>1, <3>2, <3>3, <3>4 DEF Ordered
    <2> QED BY <2>1, <2>2, <2>5
  <1>5. CASE tool \in Summaries
    <2> DEFINE s == ScrollJankSummary
    <2>1. Steps[tool] = s
      BY <1>5 DEF Steps, Summaries, PageLoadSummary, StartupSummary, WebContentInteractions
    <2>2. /\ s \in Seq(StepNames) /\ Len(s) = 7
          /\ s[1] = "limit" /\ s[2] = "open" /\ s[3] = "preflight" /\ s[4] = "rows"
          /\ s[5] = "count" /\ s[6] = "text" /\ s[7] = "format"
      BY DEF ScrollJankSummary, StepNames
    <2>3. tool \in Chrome /\ tool \in Limited
      BY <1>5 DEF Chrome, Limited, Summaries, Hotspots
    <2>4. (tool = "execute_sql" <=> FALSE) /\ (tool = "load_trace" <=> FALSE) /\ (tool = "list_stdlib_modules" <=> FALSE)
          /\ (tool = Threads <=> FALSE)
      BY <1>5 DEF Chrome, Limited, Summaries, Hotspots, Threads
    <2> HIDE DEF s
    <2>5. ASSUME NEW i \in 1..7 PROVE Ordered(tool, s, i)
      <3>1. i > 1 => Earlier("limit", s, i)
        BY <2>2 DEF Earlier
      <3>2. i > 4 => Earlier("rows", s, i)
        BY <2>2 DEF Earlier
      <3>3. i > 5 => Earlier("count", s, i)
        BY <2>2 DEF Earlier
      <3>4. i = 1 \/ i = 2 \/ i = 3 \/ i = 4 \/ i = 5 \/ i = 6 \/ i = 7
        OBVIOUS
      <3> QED BY <2>2, <2>3, <2>4, <3>1, <3>2, <3>3, <3>4 DEF Ordered
    <2> QED BY <2>1, <2>2, <2>5
  <1>6. CASE tool \in Hotspots
    <2> DEFINE s == ResourceHotspots
    <2>1. Steps[tool] = s
      BY <1>6 DEF Steps, Hotspots, ResourcePipeline, ScriptHotspots, MainThreadHotspots
    <2>2. /\ s \in Seq(StepNames) /\ Len(s) = 9
          /\ s[1] = "open" /\ s[2] = "preflight" /\ s[3] = "column" /\ s[4] = "limit" /\ s[5] = "build"
          /\ s[6] = "rows" /\ s[7] = "count" /\ s[8] = "text" /\ s[9] = "format"
      BY DEF ResourceHotspots, StepNames
    <2>3. tool \in Chrome /\ tool \in Limited
      BY <1>6 DEF Chrome, Limited, Summaries, Hotspots
    <2>4. (tool = "execute_sql" <=> FALSE) /\ (tool = "load_trace" <=> FALSE) /\ (tool = "list_stdlib_modules" <=> FALSE)
          /\ (tool = Threads <=> FALSE)
      BY <1>6 DEF Chrome, Limited, Summaries, Hotspots, Threads
    <2> HIDE DEF s
    <2>5. ASSUME NEW i \in 1..9 PROVE Ordered(tool, s, i)
      <3>1. i > 4 => Earlier("limit", s, i)
        BY <2>2 DEF Earlier
      <3>2. i > 6 => Earlier("rows", s, i)
        BY <2>2 DEF Earlier
      <3>3. i > 7 => Earlier("count", s, i)
        BY <2>2 DEF Earlier
      <3>4. i = 1 \/ i = 2 \/ i = 3 \/ i = 4 \/ i = 5 \/ i = 6 \/ i = 7 \/ i = 8 \/ i = 9
        OBVIOUS
      <3> QED BY <2>2, <2>3, <2>4, <3>1, <3>2, <3>3, <3>4 DEF Ordered
    <2> QED BY <2>1, <2>2, <2>5
  <1>7. CASE tool = "resource_summary"
    <2> DEFINE s == ResourceSummary
    <2>1. Steps[tool] = s
      BY <1>7 DEF Steps
    <2>2. /\ s \in Seq(StepNames) /\ Len(s) = 10
          /\ s[1] = "open" /\ s[2] = "preflight" /\ s[3] = "column" /\ s[4] = "limit" /\ s[5] = "build"
          /\ s[6] = "evidence" /\ s[7] = "rows" /\ s[8] = "count" /\ s[9] = "text" /\ s[10] = "format"
      BY DEF ResourceSummary, StepNames
    <2>3. tool \in Chrome /\ tool \in Limited
      BY <1>7 DEF Chrome, Limited, Summaries, Hotspots
    <2>4. (tool = "execute_sql" <=> FALSE) /\ (tool = "load_trace" <=> FALSE) /\ (tool = "list_stdlib_modules" <=> FALSE)
          /\ (tool = Threads <=> FALSE)
      BY <1>7 DEF Chrome, Limited, Summaries, Hotspots, Threads
    <2> HIDE DEF s
    <2>5. ASSUME NEW i \in 1..10 PROVE Ordered(tool, s, i)
      <3>1. i > 4 => Earlier("limit", s, i)
        BY <2>2 DEF Earlier
      <3>2. i > 7 => Earlier("rows", s, i)
        BY <2>2 DEF Earlier
      <3>3. i > 8 => Earlier("count", s, i)
        BY <2>2 DEF Earlier
      <3>4. i = 1 \/ i = 2 \/ i = 3 \/ i = 4 \/ i = 5 \/ i = 6 \/ i = 7 \/ i = 8 \/ i = 9 \/ i = 10
        OBVIOUS
      <3> QED BY <2>2, <2>3, <2>4, <3>1, <3>2, <3>3, <3>4 DEF Ordered
    <2> QED BY <2>1, <2>2, <2>5
  <1>8. CASE tool = "slice_descendants_breakdown"
    <2> DEFINE s == SliceDescendantsBreakdown
    <2>1. Steps[tool] = s
      BY <1>8 DEF Steps
    <2>2. /\ s \in Seq(StepNames) /\ Len(s) = 9
          /\ s[1] = "text" /\ s[2] = "limit" /\ s[3] = "open" /\ s[4] = "missing" /\ s[5] = "incomplete"
          /\ s[6] = "build" /\ s[7] = "rows" /\ s[8] = "count" /\ s[9] = "format"
      BY DEF SliceDescendantsBreakdown, StepNames
    <2>3. tool \notin Chrome /\ tool \in Limited
      BY <1>8 DEF Chrome, Limited, Summaries, Hotspots
    <2>4. (tool = "execute_sql" <=> FALSE) /\ (tool = "load_trace" <=> FALSE) /\ (tool = "list_stdlib_modules" <=> FALSE)
          /\ (tool = Threads <=> FALSE)
      BY <1>8 DEF Chrome, Limited, Summaries, Hotspots, Threads
    <2> HIDE DEF s
    <2>5. ASSUME NEW i \in 1..9 PROVE Ordered(tool, s, i)
      <3>1. i > 2 => Earlier("limit", s, i)
        BY <2>2 DEF Earlier
      <3>2. i > 7 => Earlier("rows", s, i)
        BY <2>2 DEF Earlier
      <3>3. i > 8 => Earlier("count", s, i)
        BY <2>2 DEF Earlier
      <3>4. i = 1 \/ i = 2 \/ i = 3 \/ i = 4 \/ i = 5 \/ i = 6 \/ i = 7 \/ i = 8 \/ i = 9
        OBVIOUS
      <3> QED BY <2>2, <2>3, <2>4, <3>1, <3>2, <3>3, <3>4 DEF Ordered
    <2> QED BY <2>1, <2>2, <2>5
  <1>9. CASE tool = "list_stdlib_modules"
    <2> DEFINE s == ListStdlibModules
    <2>1. Steps[tool] = s
      BY <1>9 DEF Steps
    <2>2. /\ s \in Seq(StepNames) /\ Len(s) = 2
          /\ s[1] = "limit"
          /\ s[2] = "format"
      BY DEF ListStdlibModules, StepNames
    <2>3. tool \notin Chrome /\ tool \notin Limited
      BY <1>9 DEF Chrome, Limited, Summaries, Hotspots
    <2>4. (tool = "execute_sql" <=> FALSE) /\ (tool = "load_trace" <=> FALSE) /\ (tool = "list_stdlib_modules" <=> TRUE)
          /\ (tool = Threads <=> FALSE)
      BY <1>9 DEF Chrome, Limited, Summaries, Hotspots, Threads
    <2> HIDE DEF s
    <2>5. ASSUME NEW i \in 1..2 PROVE Ordered(tool, s, i)
      <3>1. i > 1 => Earlier("limit", s, i)
        BY <2>2 DEF Earlier
      <3>2. i = 1 \/ i = 2
        OBVIOUS
      <3> QED BY <2>2, <2>3, <2>4, <3>1, <3>2 DEF Ordered
    <2> QED BY <2>1, <2>2, <2>5
  <1>10. CASE tool = "load_trace"
    <2> DEFINE s == LoadTrace
    <2>1. Steps[tool] = s
      BY <1>10 DEF Steps
    <2>2. /\ s \in Seq(StepNames) /\ Len(s) = 5
          /\ s[1] = "selector" /\ s[2] = "open" /\ s[3] = "status"
          /\ s[4] = "summary" /\ s[5] = "format"
      BY DEF LoadTrace, StepNames
    <2>3. tool \notin Chrome /\ tool \notin Limited
      BY <1>10 DEF Chrome, Limited, Summaries, Hotspots
    <2>4. (tool = "execute_sql" <=> FALSE) /\ (tool = "load_trace" <=> TRUE) /\ (tool = "list_stdlib_modules" <=> FALSE)
          /\ (tool = Threads <=> FALSE)
      BY <1>10 DEF Chrome, Limited, Summaries, Hotspots, Threads
    <2> HIDE DEF s
    <2>5. ASSUME NEW i \in 1..5 PROVE Ordered(tool, s, i)
      <3>1. i > 4 => Earlier("summary", s, i)
        BY <2>2 DEF Earlier
      <3>2. i = 1 \/ i = 2 \/ i = 3 \/ i = 4 \/ i = 5
        OBVIOUS
      <3> QED BY <2>2, <2>3, <2>4, <3>1, <3>2 DEF Ordered
    <2> QED BY <2>1, <2>2, <2>5
  <1>11. tool \in Summaries \/ tool \in Hotspots \/ tool \in
          {"execute_sql", "list_tables", "list_processes", "list_threads_in_process", "resource_summary",
           "slice_descendants_breakdown", "list_stdlib_modules", "load_trace"}
    BY DEF ToolNames, Limited, Chrome
  <1> QED BY <1>1, <1>2, <1>3, <1>4, <1>5, <1>6, <1>7, <1>8, <1>9, <1>10, <1>11

LEMMA TracesAre ==
  ASSUME NEW t \in Traces
  PROVE  /\ t.rows \in Nat /\ t.size \in 1..2 /\ t.spread \in BOOLEAN /\ t.redact \in BOOLEAN
         /\ t.chrome \in BOOLEAN /\ t.android \in BOOLEAN
         /\ t.lacks \in {None, "MissingTable", "MissingModule", "MissingColumn"}
PROOF
  <1>1. PICK n \in 0..MaxTraceRows, s \in 1..2, k \in Kinds,
             l \in {None, "MissingTable", "MissingModule", "MissingColumn"} :
          t = [rows |-> n, size |-> s, spread |-> s = 1, redact |-> s = 1, lacks |-> l,
               chrome |-> k.chrome, metadata |-> k.metadata, android |-> k.android]
    BY DEF Traces
  <1>2. k.chrome \in BOOLEAN /\ k.android \in BOOLEAN
    BY DEF Kinds
  <1>3. n \in Nat
    BY TraceRowsAssumption
  <1> QED BY <1>1, <1>2, <1>3

\* The rows of a query, and what is left of their odd cells.
LEMMA RowsTyped ==
  ASSUME trace \in Traces
  PROVE  /\ Rows \in Seq(Pairs) /\ Len(Rows) = trace.rows
         /\ Kept(Rows) = Shown(Rows)
         /\ Shown(Rows) \in Seq(Pairs) /\ Len(Shown(Rows)) = trace.rows
PROOF
  <1> DEFINE n == trace.rows
  <1>1. n \in Nat
    BY TracesAre
  <1>2. \A i \in Nat, type \in CellTypes : Cell(type, i) \in CellSet /\ Cell(type, i).type = type
    BY DEF Cell, CellSet, CellTypes
  <1>3. ASSUME NEW i \in 1..n
        PROVE  /\ Row(i) \in Pairs /\ Row(i)[1].type = "varint"
               /\ Row(i)[2].type = "null" => Row(i)[2] = Cell("null", 0)
    <2> DEFINE type == Types[((i - 1) % 5) + 1]
    <2>1. ((i - 1) % 5) + 1 \in 1..5
      <3>1. i - 1 \in Nat
        OBVIOUS
      <3>2. \A k \in Nat : (k % 5) + 1 \in 1..5
        BY SMT
      <3> QED BY <3>1, <3>2
    <2>2. type \in CellTypes /\ "varint" \in CellTypes
      <3> DEFINE x == ((i - 1) % 5) + 1
      <3>1. x = 1 \/ x = 2 \/ x = 3 \/ x = 4 \/ x = 5
        BY <2>1
      <3> HIDE DEF x
      <3>2. Types[x] \in CellTypes
        BY <3>1 DEF Types, CellTypes, ListTypes
      <3> QED BY <3>2 DEF x, CellTypes, ListTypes
    <2>3. Row(i) = <<Cell("varint", i), Cell(type, i)>>
      BY DEF Row
    <2> HIDE DEF type
    <2>4. Cell("varint", i) \in CellSet /\ Cell(type, i) \in CellSet
          /\ Cell("varint", i).type = "varint" /\ Cell(type, i).type = type
      BY <1>2, <2>2
    <2>5. type = "null" => Cell(type, i) = Cell("null", 0)
      BY DEF Cell, ListTypes
    <2> QED BY <2>3, <2>4, <2>5 DEF Pairs
  <1>4. Rows = [i \in 1..n |-> Row(i)]
    BY DEF Rows
  <1> HIDE DEF n
  <1>5. Rows \in Seq(Pairs) /\ Len(Rows) = n /\ DOMAIN Rows = 1..n
    <2>1. Rows \in [1..n -> Pairs]
      BY <1>3, <1>4
    <2> QED BY <1>1, <2>1, SeqDef
  <1>6. ASSUME NEW i \in 1..n
        PROVE  <<Carried(Rows[i][1]), Carried(Rows[i][2])>>
               = <<Rows[i][1], IF Rows[i][2].type = "odd" THEN Cell("null", 0) ELSE Rows[i][2]>>
    <2>1. Rows[i] = Row(i) /\ Row(i)[2] \in CellSet
      <3>1. \A p \in CellSet \X CellSet : p[2] \in CellSet
        OBVIOUS
      <3> QED BY <1>3, <1>4, <3>1 DEF Pairs
    <2>2. Carried(Row(i)[1]) = Row(i)[1]
      BY <1>3 DEF Carried, ListTypes
    <2>3. Carried(Row(i)[2]) = IF Row(i)[2].type = "odd" THEN Cell("null", 0) ELSE Row(i)[2]
      <3>1. Row(i)[2].type \in CellTypes
        BY <2>1 DEF CellSet
      <3>2. CASE Row(i)[2].type = "odd"
        BY <3>2 DEF Carried, ListTypes
      <3>3. CASE Row(i)[2].type = "null"
        BY <1>3, <3>3 DEF Carried, ListTypes
      <3>4. CASE Row(i)[2].type \in ListTypes
        <4>1. Row(i)[2].type # "odd"
          BY <3>4 DEF ListTypes
        <4> QED BY <3>4, <4>1 DEF Carried
      <3> QED BY <3>1, <3>2, <3>3, <3>4 DEF CellTypes
    <2> QED BY <2>1, <2>2, <2>3
  <1>7. Kept(Rows) = Shown(Rows)
    BY <1>5, <1>6 DEF Kept, Shown
  <1> QED BY <1>5, <1>7, KeptAre DEF Pairs, n

LEMMA GroupsTyped ==
  ASSUME trace \in Traces
  PROVE  GroupRows \in Seq(Pairs) /\ Len(GroupRows) = Len(Groups)
PROOF
  <1>1. trace.rows \in Nat /\ trace.spread \in BOOLEAN
    BY TracesAre
  <1>2. \A i \in Nat : Cell("varint", i) \in CellSet
    BY DEF Cell, CellSet, CellTypes, ListTypes
  <1>3. \E n \in Nat : Groups \in [1..n -> Nat] /\ Len(Groups) = n
    <2>1. CASE trace.spread
      <3>1. Groups = [i \in 1..trace.rows |-> 1]
        BY <2>1 DEF Groups
      <3> QED BY <1>1, <3>1
    <2>2. CASE ~trace.spread
      <3>1. Groups = <<trace.rows>>
        BY <2>2 DEF Groups
      <3> QED BY <1>1, <3>1
    <2> QED BY <1>1, <2>1, <2>2
  <1>4. PICK n \in Nat : Groups \in [1..n -> Nat] /\ Len(Groups) = n
    BY <1>3
  <1>5. GroupRows = [i \in 1..n |-> <<Cell("varint", i), Cell("varint", Groups[i])>>]
    BY <1>4 DEF GroupRows
  <1>6. GroupRows \in [1..n -> Pairs]
    BY <1>2, <1>4, <1>5 DEF Pairs
  <1> QED BY <1>4, <1>6, SeqDef

LEMMA KeptPart ==
  ASSUME NEW rows \in Seq(Pairs), NEW a \in Nat, a # 0, NEW b \in Nat, b <= Len(rows)
  PROVE  /\ SubSeq(rows, a, b) \in Seq(Pairs)
         /\ Len(SubSeq(rows, a, b)) = (IF a <= b THEN b - a + 1 ELSE 0)
         /\ Kept(SubSeq(rows, a, b)) = SubSeq(Kept(rows), a, b)
PROOF
  <1> DEFINE k == Kept(rows)
             part == SubSeq(rows, a, b)
             kept == SubSeq(k, a, b)
  <1>1. /\ Len(rows) \in Nat /\ k \in Seq(Pairs) /\ Len(k) = Len(rows)
        /\ \A i \in 1..Len(rows) : /\ rows[i] \in Pairs /\ k[i] \in Pairs
                                   /\ k[i] = <<Carried(rows[i][1]), Carried(rows[i][2])>>
    <2>1. Len(rows) \in Nat /\ k \in Seq(Pairs) /\ Len(k) = Len(rows) /\ DOMAIN rows = 1..Len(rows)
      BY LenProperties, KeptAre DEF Pairs
    <2> QED BY <2>1, ElementOfSeq DEF Kept
  <1> HIDE DEF k
  <1>2. a \in Int /\ b \in Int /\ \A i \in a..b : i \in 1..Len(rows)
    BY <1>1
  <1>3. /\ part \in Seq(Pairs) /\ Len(part) = IF a <= b THEN b - a + 1 ELSE 0
        /\ \A i \in 1 .. b - a + 1 : part[i] = rows[a + i - 1]
    <2>1. \A i \in a..b : rows[i] \in Pairs
      BY <1>1, <1>2
    <2> QED BY <1>2, <2>1, SubSeqProperties
  <1>4. /\ kept \in Seq(Pairs) /\ Len(kept) = IF a <= b THEN b - a + 1 ELSE 0
        /\ \A i \in 1 .. b - a + 1 : kept[i] = k[a + i - 1]
    <2>1. \A i \in a..b : k[i] \in Pairs
      BY <1>1, <1>2
    <2> QED BY <1>2, <2>1, SubSeqProperties
  <1> HIDE DEF part, kept
  <1>5. Kept(part) \in Seq(Pairs) /\ Len(Kept(part)) = Len(part) /\ DOMAIN part = 1..Len(part)
    BY <1>3, KeptAre, LenProperties DEF Pairs
  <1>6. ASSUME NEW i \in 1..Len(Kept(part)) PROVE Kept(part)[i] = kept[i]
    <2>1. i \in 1..Len(part) /\ i \in 1 .. b - a + 1 /\ a + i - 1 \in 1..Len(rows)
      BY <1>1, <1>3, <1>5
    <2> QED BY <1>1, <1>3, <1>4, <1>5, <2>1 DEF Kept
  <1>7. Kept(part) = kept
    BY <1>3, <1>4, <1>5, <1>6, SeqEqual
  <1> QED BY <1>3, <1>7 DEF part, kept, k

LEMMA FirstOfPart ==
  ASSUME NEW C, NEW s \in Seq(C), NEW a \in Nat, a # 0, NEW b \in Nat, b <= Len(s),
         NEW k \in Nat, k <= (IF a <= b THEN b - a + 1 ELSE 0)
  PROVE  SubSeq(SubSeq(s, a, b), 1, k) = SubSeq(s, a, a + k - 1)
PROOF
  <1> DEFINE part == SubSeq(s, a, b)
             x == SubSeq(part, 1, k)
             y == SubSeq(s, a, a + k - 1)
  <1>1. Len(s) \in Nat /\ \A i \in 1..Len(s) : s[i] \in C
    BY LenProperties, ElementOfSeq
  <1>2. \A i \in 1 .. b - a + 1 : part[i] = s[a + i - 1] /\ part[i] \in C
    <2>1. a \in Int /\ b \in Int /\ \A i \in a..b : i \in 1..Len(s)
      BY <1>1
    <2>2. \A i \in a..b : s[i] \in C
      BY <1>1, <2>1
    <2>3. \A i \in 1 .. b - a + 1 : part[i] = s[a + i - 1]
      BY <2>1, <2>2, SubSeqProperties
    <2>4. \A i \in 1 .. b - a + 1 : a + i - 1 \in a..b
      OBVIOUS
    <2> QED BY <2>2, <2>3, <2>4
  <1> HIDE DEF part
  <1>3. \A i \in 1..k : i \in 1 .. b - a + 1
    OBVIOUS
  <1>4. x \in Seq(C) /\ Len(x) = k /\ \A i \in 1..k : x[i] = part[i]
    <2>1. /\ SubSeq(part, 1, k) \in Seq(C) /\ Len(SubSeq(part, 1, k)) = IF 1 <= k THEN k - 1 + 1 ELSE 0
          /\ \A i \in 1 .. k - 1 + 1 : SubSeq(part, 1, k)[i] = part[1 + i - 1]
      <3> DEFINE one == 1
      <3>1. one \in Int /\ k \in Int /\ \A i \in one..k : part[i] \in C
        BY <1>2, <1>3
      <3> HIDE DEF one
      <3>2. /\ SubSeq(part, one, k) \in Seq(C) /\ Len(SubSeq(part, one, k)) = IF one <= k THEN k - one + 1 ELSE 0
            /\ \A i \in 1 .. k - one + 1 : SubSeq(part, one, k)[i] = part[one + i - 1]
        BY <3>1, SubSeqProperties
      <3> QED BY <3>2 DEF one
    <2>2. \A i \in 1..k : 1 + i - 1 = i /\ i \in 1 .. k - 1 + 1
      OBVIOUS
    <2> QED BY <2>1, <2>2
  <1>5. y \in Seq(C) /\ Len(y) = k /\ \A i \in 1..k : y[i] = s[a + i - 1]
    <2> DEFINE e == a + k - 1
    <2>1. a \in Int /\ e \in Int /\ \A i \in a..e : i \in 1..Len(s)
      BY <1>1
    <2>2. \A i \in a..e : s[i] \in C
      BY <1>1, <2>1
    <2>3. e - a + 1 = k /\ (IF a <= e THEN e - a + 1 ELSE 0) = k
      OBVIOUS
    <2> HIDE DEF e
    <2>4. /\ SubSeq(s, a, e) \in Seq(C) /\ Len(SubSeq(s, a, e)) = IF a <= e THEN e - a + 1 ELSE 0
          /\ \A i \in 1 .. e - a + 1 : SubSeq(s, a, e)[i] = s[a + i - 1]
      BY <2>1, <2>2, SubSeqProperties
    <2> QED BY <2>3, <2>4 DEF e
  <1> HIDE DEF x, y
  <1>6. x = y
    <2>1. \A i \in 1..Len(x) : x[i] = y[i]
      BY <1>2, <1>3, <1>4, <1>5
    <2> QED BY <1>4, <1>5, <2>1, SeqEqual
  <1> QED BY <1>6 DEF x, y, part

\* What the SQL with a limit asks for is a part of what is shown.
LEMMA AskIs ==
  ASSUME trace \in Traces, NEW o \in 0..trace.rows, call.p.offset = o, NEW limit \in Nat \cup {None},
         NEW m, m = IF limit = None THEN trace.rows - o ELSE Smaller(limit, trace.rows - o)
  PROVE  /\ m \in Nat /\ AskedFor(limit) \in Seq(Pairs) /\ Len(AskedFor(limit)) = m
         /\ Kept(AskedFor(limit)) = SubSeq(Shown(Rows), o + 1, o + m)
PROOF
  <1> DEFINE n == trace.rows
             a == o + 1
             from == SubSeq(Rows, a, n)
  <1>1. n \in Nat /\ o \in Nat /\ o <= n /\ n - o \in Nat
    BY TracesAre
  <1>2. Rows \in Seq(Pairs) /\ Len(Rows) = n /\ Kept(Rows) = Shown(Rows)
    BY RowsTyped
  <1>3. m \in Nat /\ m <= n - o
    BY <1>1 DEF Smaller
  <1>4. a \in Nat /\ a # 0 /\ (IF a <= n THEN n - a + 1 ELSE 0) = n - o
    BY <1>1
  <1>5. from \in Seq(Pairs) /\ Len(from) = n - o
    <2> HIDE DEF a, n
    <2> QED BY <1>1, <1>2, <1>4, KeptPart
  <1>6. AskedFor(limit) = SubSeq(Rows, a, a + m - 1)
    <2>1. CASE limit = None
      <3>1. AskedFor(limit) = from
        BY <1>2, <2>1 DEF AskedFor
      <3>2. m = n - o /\ a + m - 1 = n
        BY <1>1, <2>1
      <3> QED BY <3>1, <3>2
    <2>2. CASE limit # None
      <3>1. AskedFor(limit) = SubSeq(from, 1, m)
        <4>1. m = Smaller(limit, Len(from))
          BY <1>5, <2>2
        <4>2. AskedFor(limit) = SubSeq(from, 1, Smaller(limit, Len(from)))
          BY <1>2, <2>2 DEF AskedFor
        <4> QED BY <4>1, <4>2
      <3>2. SubSeq(SubSeq(Rows, a, n), 1, m) = SubSeq(Rows, a, a + m - 1)
        <4> HIDE DEF a, n, from
        <4> QED BY <1>1, <1>2, <1>3, <1>4, FirstOfPart
      <3> QED BY <3>1, <3>2
    <2> QED BY <2>1, <2>2
  <1>7. a + m - 1 \in Nat /\ a + m - 1 <= n /\ a + m - 1 = o + m
        /\ (IF a <= a + m - 1 THEN (a + m - 1) - a + 1 ELSE 0) = m
    BY <1>1, <1>3
  <1>8. /\ SubSeq(Rows, a, a + m - 1) \in Seq(Pairs) /\ Len(SubSeq(Rows, a, a + m - 1)) = m
        /\ Kept(SubSeq(Rows, a, a + m - 1)) = SubSeq(Shown(Rows), a, a + m - 1)
    <2> DEFINE e == a + m - 1
    <2>1. e \in Nat /\ e <= n /\ (IF a <= e THEN e - a + 1 ELSE 0) = m
      BY <1>7
    <2> HIDE DEF a, n, e
    <2>2. /\ SubSeq(Rows, a, e) \in Seq(Pairs) /\ Len(SubSeq(Rows, a, e)) = IF a <= e THEN e - a + 1 ELSE 0
          /\ Kept(SubSeq(Rows, a, e)) = SubSeq(Kept(Rows), a, e)
      BY <1>2, <1>4, <2>1, KeptPart
    <2> QED BY <1>2, <2>1, <2>2 DEF e
  <1> QED BY <1>3, <1>6, <1>7, <1>8

\* The rows of a table, by the limit of the decoder.
LEMMA WholeIs ==
  ASSUME NEW rows \in Seq(Pairs)
  PROVE  /\ Len(rows) <= MaxRows => Whole(rows, None) = Table(Kept(rows), Len(rows), FALSE)
         /\ Len(rows) > MaxRows => Whole(rows, None) = Failed("TooManyRows")
         /\ \A max \in 0..MaxRows :
              Whole(rows, max) = Table(SubSeq(Kept(rows), 1, Smaller(max, Len(rows))), Len(rows), max < Len(rows))
PROOF
  <1>1. Len(rows) \in Nat /\ MaxRows \in Nat /\ None # 0
    BY LenProperties, RowsAssumption
  <1>2. SubSeq(Kept(rows), 1, Len(rows)) = Kept(rows)
    <2> DEFINE k == Kept(rows)
    <2>1. k \in Seq(Pairs) /\ Len(k) = Len(rows)
      BY KeptAre DEF Pairs
    <2> HIDE DEF k
    <2>2. SubSeq(k, 1, Len(k)) = k
      BY <2>1, SubSeqFull
    <2> QED BY <2>1, <2>2 DEF k
  <1>3. ASSUME NEW max \in 0..MaxRows
        PROVE  Whole(rows, max) = Table(SubSeq(Kept(rows), 1, Smaller(max, Len(rows))), Len(rows), max < Len(rows))
    <2>1. max # None /\ max \in Nat
      BY <1>1, RowsAssumption
    <2>2. ~((IF max < Len(rows) THEN max ELSE Len(rows)) > MaxRows)
      BY <1>1
    <2>3. (IF max < Len(rows) THEN max ELSE Len(rows)) < Len(rows) <=> max < Len(rows)
      BY <1>1, <2>1
    <2> QED BY <2>1, <2>2, <2>3 DEF Whole, Smaller
  <1>4. Len(rows) <= MaxRows => Whole(rows, None) = Table(Kept(rows), Len(rows), FALSE)
    <2>1. ~(Len(rows) < Len(rows)) /\ (Len(rows) < Len(rows)) = FALSE
      BY <1>1
    <2>2. (IF Len(rows) < Len(rows) THEN Len(rows) ELSE Len(rows)) = Len(rows)
      OBVIOUS
    <2>3. Whole(rows, None) = IF None # 0 /\ Len(rows) > MaxRows THEN Failed("TooManyRows")
                              ELSE Table(SubSeq(Kept(rows), 1, Len(rows)), Len(rows), FALSE)
      BY <2>1, <2>2 DEF Whole
    <2>4. ASSUME Len(rows) <= MaxRows PROVE ~(Len(rows) > MaxRows)
      BY <1>1, <2>4
    <2>5. ASSUME Len(rows) <= MaxRows PROVE Whole(rows, None) = Table(SubSeq(Kept(rows), 1, Len(rows)), Len(rows), FALSE)
      BY <2>3, <2>4, <2>5, Zenon
    <2> QED BY <1>2, <2>5, Zenon
  <1>5. Len(rows) > MaxRows => Whole(rows, None) = Failed("TooManyRows")
    BY <1>1 DEF Whole
  <1> QED BY <1>3, <1>4, <1>5

\* A limit is within the cap, and so is the probe for one row more.
LEMMA LimitsAre ==
  ASSUME NEW p \in ParamSet, ToolLimit(p.limit).ok
  PROVE  /\ ToolLimit(p.limit).value \in 1..MaxRows
         /\ Probe(ToolLimit(p.limit).value) \in ToolLimit(p.limit).value..MaxRows
PROOF
  <1>1. p.limit \in {None} \cup Nat
    <2>1. MaxRows \in Nat
      BY RowsAssumption
    <2> QED BY <2>1 DEF ParamSet, RowLimits
  <1>2. MaxRows \in Nat /\ MaxRows # 0 /\ DefaultRows \in 1..MaxRows
    BY RowsAssumption, DefaultsAssumption
  <1>3. p.limit # 0 /\ ToolLimit(p.limit).value = IF p.limit = None THEN DefaultRows ELSE Smaller(p.limit, MaxRows)
    BY DEF ToolLimit, Good, Bad
  <1>4. ToolLimit(p.limit).value \in 1..MaxRows
    BY <1>1, <1>2, <1>3 DEF Smaller
  <1> QED BY <1>2, <1>4 DEF Probe

\* The modes of execute_sql.
LEMMA ShapesAre ==
  ASSUME NEW p \in ParamSet, ShapeAllowed(p)
  PROVE  LET shape == Shape(p)
         IN  /\ shape.limit \in {None} \cup 0..MaxRows
             /\ p.columns_only => shape.mode = "columns" /\ shape.limit = 0
             /\ ~p.columns_only /\ p.summary => shape.mode = "summary" /\ shape.limit # None
             /\ ~p.columns_only /\ ~p.summary =>
                  shape.mode = "rows" /\ (shape.limit = None <=> RowLimit(p) = None)
PROOF
  <1>1. /\ p.limit \in {None} \cup Nat /\ p.head \in {None, 1}
        /\ p.columns_only \in BOOLEAN /\ p.summary \in BOOLEAN
    <2>1. MaxRows \in Nat
      BY RowsAssumption
    <2> QED BY <2>1 DEF ParamSet, RowLimits
  <1>2. MaxRows \in Nat /\ MaxRows # 0 /\ SummaryRows \in 1..MaxRows /\ None \notin Nat
    BY RowsAssumption, DefaultsAssumption
  <1> DEFINE limit == IF RowLimit(p) = None THEN None ELSE Smaller(RowLimit(p), MaxRows)
  <1>3. RowLimit(p) \in {None} \cup Nat
    BY <1>1 DEF RowLimit
  <1>4. limit \in {None} \cup 0..MaxRows /\ (limit = None <=> RowLimit(p) = None)
    BY <1>2, <1>3 DEF Smaller
  <1>5. /\ p.columns_only => Shape(p) = [mode |-> "columns", limit |-> 0]
        /\ ~p.columns_only /\ p.summary =>
             Shape(p) = [mode |-> "summary", limit |-> IF limit = None THEN SummaryRows ELSE limit]
        /\ ~p.columns_only /\ ~p.summary => Shape(p) = [mode |-> "rows", limit |-> limit]
    BY <1>1 DEF Shape
  <1> HIDE DEF limit
  <1>6. CASE p.columns_only
    BY <1>2, <1>5, <1>6
  <1>7. CASE ~p.columns_only /\ p.summary
    BY <1>2, <1>4, <1>5, <1>7
  <1>8. CASE ~p.columns_only /\ ~p.summary
    BY <1>4, <1>5, <1>8
  <1> QED BY <1>1, <1>6, <1>7, <1>8
-----------------------------------------------------------------------------
Words == {"include", "window", "limit", "select", "count"}

LEMMA LeadingIs ==
  ASSUME NEW s \in Seq(Words), NEW m \in Nat, m < Len(s), \A i \in 1..m : s[i] = "include",
         s[m + 1] # "include"
  PROVE  Leading(s) = 1..m
PROOF
  <1>1. Len(s) \in Nat /\ DOMAIN s = 1..Len(s)
    BY LenProperties
  <1>2. ASSUME NEW i \in 1..m PROVE i \in Leading(s)
    BY <1>1 DEF Leading
  <1>3. ASSUME NEW i \in Leading(s), i \notin 1..m PROVE FALSE
    <2>1. i \in 1..Len(s) /\ \A j \in 1..i : s[j] = "include"
      BY <1>1 DEF Leading
    <2>2. m + 1 \in 1..i
      BY <1>3, <2>1
    <2> QED BY <2>1, <2>2
  <1> QED BY <1>2, <1>3

LEMMA UpTo ==
  ASSUME NEW m \in Nat
  PROVE  Cardinality(1..m) = m
  BY FS_Interval

\* INCLUDEs, the rest with a SELECT in it, the LIMIT of what is shown.
Counts(s, n, m) ==
  /\ s \in Seq(Words) /\ n = Len(s) /\ m + 2 <= n /\ s[n] = "limit"
  /\ \A i \in 1..m : s[i] = "include"
  /\ \A i \in (m + 1)..(n - 1) : s[i] # "include"
  /\ \E i \in (m + 1)..(n - 1) : s[i] = "select"
  /\ \A i \in 1..(n - 1) : s[i] = "window" => i < n - 1 /\ s[i + 1] = "limit"

\* The SQL that counts: the INCLUDEs, the count, the rest up to the last LIMIT.
LEMMA CountSqlWorks ==
  ASSUME NEW s, NEW n \in Nat, NEW m \in Nat, Counts(s, n, m)
  PROVE  CountSql(s).ok /\ Sound(CountSql(s).value)
PROOF
  <1> DEFINE body == SubSeq(s, 1, n - 1)
             v == SubSeq(body, 1, m) \o <<"count">> \o SubSeq(body, m + 1, n - 1)
  <1>0. s \in Seq(Words) /\ n = Len(s) /\ m + 2 <= n /\ s[n] = "limit"
    BY DEF Counts
  <1>1. DOMAIN s = 1..n /\ \A i \in 1..n : s[i] \in Words
    BY <1>0, LenProperties, ElementOfSeq
  <1>2. n \in Limits(s) /\ \A i \in Limits(s) : i \in 1..n /\ i <= n
    BY <1>0, <1>1 DEF Limits
  <1>3. OuterLimit(s) = n
    <2>1. ASSUME NEW i \in Limits(s), \A j \in Limits(s) : j <= i PROVE i = n
      <3>1. n <= i /\ i <= n /\ i \in 1..n
        BY <1>2, <2>1
      <3> QED BY <3>1
    <2>2. \A j \in Limits(s) : j <= n
      BY <1>2
    <2> QED BY <1>2, <2>1, <2>2 DEF OuterLimit
  <1>4. body \in Seq(Words) /\ Len(body) = n - 1 /\ \A i \in 1..(n - 1) : body[i] = s[i] /\ body[i] \in Words
    <2> DEFINE one == 1
               e == n - 1
    <2>1. one \in Int /\ e \in Int /\ \A i \in one..e : s[i] \in Words
      BY <1>1
    <2>2. e - one + 1 = n - 1 /\ (IF one <= e THEN e - one + 1 ELSE 0) = n - 1 /\ \A i \in 1..(n - 1) : one + i - 1 = i
      BY <1>0
    <2> HIDE DEF one, e
    <2>3. /\ SubSeq(s, one, e) \in Seq(Words) /\ Len(SubSeq(s, one, e)) = IF one <= e THEN e - one + 1 ELSE 0
          /\ \A i \in 1 .. e - one + 1 : SubSeq(s, one, e)[i] = s[one + i - 1]
      BY <2>1, SubSeqProperties
    <2>4. /\ SubSeq(s, one, e) \in Seq(Words) /\ Len(SubSeq(s, one, e)) = n - 1
          /\ \A i \in 1..(n - 1) : SubSeq(s, one, e)[i] = s[i]
      BY <2>2, <2>3
    <2>5. \A i \in 1..(n - 1) : i \in 1..n
      OBVIOUS
    <2> QED BY <1>1, <2>4, <2>5 DEF one, e
  <1> HIDE DEF body
  <1>5. Cardinality(Leading(body)) = m
    <2>1. m < Len(body) /\ m + 1 \in 1..(n - 1) /\ m + 1 \in (m + 1)..(n - 1) /\ \A i \in 1..m : i \in 1..(n - 1)
      BY <1>0, <1>4
    <2>2. \A i \in 1..m : body[i] = "include"
      BY <1>4, <2>1 DEF Counts
    <2>3. body[m + 1] # "include"
      BY <1>4, <2>1 DEF Counts
    <2>4. Leading(body) = 1..m
      BY <1>4, <2>1, <2>2, <2>3, LeadingIs
    <2>5. Cardinality(1..m) = m
      BY UpTo
    <2> QED BY <2>4, <2>5
  <1>6. CountSql(s) = Good(v)
    <2>1. Limits(s) # {} /\ m # n - 1
      BY <1>0, <1>2
    <2> QED BY <1>3, <1>4, <1>5, <2>1 DEF CountSql, body
  <1>7. /\ v \in Seq(Words) /\ Len(v) = n /\ v[m + 1] = "count"
        /\ \A i \in 1..m : v[i] = "include"
        /\ \A i \in (m + 1)..(n - 1) : v[i + 1] = s[i]
    <2> DEFINE one == 1
               a == m + 1
               e == n - 1
               x == SubSeq(body, one, m)
               y == SubSeq(body, a, e)
    <2>1. x \in Seq(Words) /\ Len(x) = m /\ \A i \in 1..m : x[i] = body[i]
      <3>1. one \in Int /\ m \in Int /\ \A i \in one..m : body[i] \in Words
        BY <1>0, <1>4
      <3>2. m - one + 1 = m /\ (IF one <= m THEN m - one + 1 ELSE 0) = m /\ \A i \in 1..m : one + i - 1 = i
        OBVIOUS
      <3> HIDE DEF one
      <3>3. /\ SubSeq(body, one, m) \in Seq(Words) /\ Len(SubSeq(body, one, m)) = IF one <= m THEN m - one + 1 ELSE 0
            /\ \A i \in 1 .. m - one + 1 : SubSeq(body, one, m)[i] = body[one + i - 1]
        BY <3>1, SubSeqProperties
      <3> QED BY <3>2, <3>3
    <2>2. y \in Seq(Words) /\ Len(y) = n - 1 - m /\ \A i \in 1..(n - 1 - m) : y[i] = body[m + i]
      <3>1. a \in Int /\ e \in Int /\ \A i \in a..e : body[i] \in Words
        BY <1>4
      <3>2. e - a + 1 = n - 1 - m /\ (IF a <= e THEN e - a + 1 ELSE 0) = n - 1 - m
            /\ \A i \in 1..(n - 1 - m) : a + i - 1 = m + i
        BY <1>0
      <3> HIDE DEF a, e
      <3>3. /\ SubSeq(body, a, e) \in Seq(Words) /\ Len(SubSeq(body, a, e)) = IF a <= e THEN e - a + 1 ELSE 0
            /\ \A i \in 1 .. e - a + 1 : SubSeq(body, a, e)[i] = body[a + i - 1]
        BY <3>1, SubSeqProperties
      <3> QED BY <3>2, <3>3
    <2>3. <<"count">> \in Seq(Words) /\ Len(<<"count">>) = 1 /\ <<"count">>[1] = "count"
      BY DEF Words
    <2> DEFINE c == <<"count">>
               z == x \o c
    <2> HIDE DEF x, y, c
    <2>4. /\ z \in Seq(Words) /\ Len(z) = m + 1
          /\ \A i \in 1..(m + 1) : z[i] = IF i <= m THEN x[i] ELSE c[i - m]
      <3>1. /\ z \in Seq(Words) /\ Len(z) = Len(x) + Len(c)
            /\ \A i \in 1..(Len(x) + Len(c)) : z[i] = IF i <= Len(x) THEN x[i] ELSE c[i - Len(x)]
        BY <2>1, <2>3, ConcatProperties DEF c
      <3>2. Len(x) = m /\ Len(c) = 1
        BY <2>1, <2>3 DEF c
      <3> QED BY <3>1, <3>2
    <2> HIDE DEF z
    <2>5. /\ z \o y \in Seq(Words) /\ Len(z \o y) = n
          /\ \A i \in 1..n : (z \o y)[i] = IF i <= m + 1 THEN z[i] ELSE y[i - (m + 1)]
      <3>1. /\ z \o y \in Seq(Words) /\ Len(z \o y) = Len(z) + Len(y)
            /\ \A i \in 1..(Len(z) + Len(y)) : (z \o y)[i] = IF i <= Len(z) THEN z[i] ELSE y[i - Len(z)]
        BY <2>2, <2>4, ConcatProperties
      <3>2. Len(z) = m + 1 /\ Len(y) = n - 1 - m /\ (m + 1) + (n - 1 - m) = n
        BY <1>0, <2>2, <2>4
      <3> QED BY <3>1, <3>2
    <2>6. v = z \o y
      BY DEF x, y, z, c
    <2> HIDE DEF v
    <2>7. v[m + 1] = "count"
      <3>1. m + 1 \in 1..n /\ m + 1 <= m + 1 /\ m + 1 \in 1..(m + 1) /\ ~(m + 1 <= m) /\ (m + 1) - m = 1
        BY <1>0
      <3> QED BY <2>3, <2>4, <2>5, <2>6, <3>1 DEF c
    <2>8. ASSUME NEW i \in 1..m PROVE v[i] = "include"
      <3>1. i \in 1..n /\ i <= m + 1 /\ i \in 1..(m + 1) /\ i <= m /\ i \in 1..(n - 1) /\ s[i] = "include"
        BY <1>0 DEF Counts
      <3> QED BY <1>4, <2>1, <2>4, <2>5, <2>6, <3>1
    <2>9. ASSUME NEW i \in (m + 1)..(n - 1) PROVE v[i + 1] = s[i]
      <3>1. i + 1 \in 1..n /\ ~(i + 1 <= m + 1) /\ (i + 1) - (m + 1) = i - m /\ i - m \in 1..(n - 1 - m)
            /\ m + (i - m) = i /\ i \in 1..(n - 1)
        BY <1>0
      <3> QED BY <1>4, <2>2, <2>5, <2>6, <3>1
    <2> QED BY <2>5, <2>6, <2>7, <2>8, <2>9
  <1> HIDE DEF v
  <1>8. DOMAIN v = 1..n
    BY <1>7, LenProperties
  <1>9. \A i \in 1..n : i <= m \/ i = m + 1 \/ (i - 1 \in (m + 1)..(n - 1) /\ (i - 1) + 1 = i)
    BY <1>0
  <1>10. \A i \in 1..n : v[i] = "include" => i \in Leading(v)
    <2>1. Leading(v) = 1..m
      <3>1. m < Len(v) /\ v[m + 1] # "include"
        BY <1>0, <1>7
      <3> QED BY <1>7, <3>1, LeadingIs
    <2>2. \A i \in 1..n : v[i] = "include" => i <= m
      <3>1. \A i \in 1..n : i - 1 \in (m + 1)..(n - 1) => v[i] # "include"
        <4>1. \A i \in (m + 1)..(n - 1) : v[i + 1] # "include"
          BY <1>7 DEF Counts
        <4>2. ASSUME NEW i \in 1..n, i - 1 \in (m + 1)..(n - 1) PROVE v[i] # "include"
          <5>1. (i - 1) + 1 = i /\ v[(i - 1) + 1] # "include"
            BY <4>1, <4>2
          <5> QED BY <5>1
        <4> QED BY <4>2
      <3> QED BY <1>7, <1>9, <3>1
    <2> QED BY <2>1, <2>2
  <1>11. \E i \in 1..n : v[i] = "select"
    <2>1. PICK i \in (m + 1)..(n - 1) : s[i] = "select"
      BY DEF Counts
    <2>2. i + 1 \in 1..n
      BY <1>0
    <2> QED BY <1>7, <2>1, <2>2
  <1>12. ASSUME NEW i \in 1..n, v[i] = "window" PROVE i < n /\ v[i + 1] = "limit"
    <2>1. i - 1 \in (m + 1)..(n - 1) /\ (i - 1) + 1 = i
      <3>1. ~(i <= m) /\ i # m + 1
        BY <1>7, <1>12
      <3> QED BY <1>9, <3>1
    <2>2. s[i - 1] = "window" /\ i - 1 \in 1..(n - 1)
      BY <1>0, <1>7, <1>12, <2>1
    <2>3. i - 1 < n - 1 /\ s[i] = "limit"
      BY <2>1, <2>2 DEF Counts
    <2>4. i \in (m + 1)..(n - 1) /\ i < n
      BY <1>0, <2>1, <2>3
    <2> QED BY <1>7, <2>3, <2>4
  <1>13. Sound(v)
    BY <1>7, <1>8, <1>10, <1>11, <1>12 DEF Sound
  <1> QED BY <1>6, <1>13 DEF Good

Joined(C, x, a, b) ==
  /\ x \in Seq(C) /\ Len(x) = Len(a) + Len(b)
  /\ \A i \in 1..Len(a) : x[i] = a[i]
  /\ \A i \in 1..Len(b) : x[Len(a) + i] = b[i]

LEMMA TwoPieces ==
  ASSUME NEW C, NEW a \in Seq(C), NEW b \in Seq(C)
  PROVE  Joined(C, a \o b, a, b)
PROOF
  <1> DEFINE x == a \o b
             la == Len(a)
             lb == Len(b)
  <1>0. la \in Nat /\ lb \in Nat
    BY LenProperties
  <1>1. x \in Seq(C) /\ Len(x) = la + lb /\ \A i \in 1..(la + lb) : x[i] = IF i <= la THEN a[i] ELSE b[i - la]
    BY ConcatProperties
  <1> HIDE DEF x, la, lb
  <1>2. ASSUME NEW i \in 1..la PROVE x[i] = a[i]
    <2>1. i \in 1..(la + lb) /\ i <= la
      BY <1>0
    <2> QED BY <1>1, <2>1
  <1>3. ASSUME NEW i \in 1..lb PROVE x[la + i] = b[i]
    <2>1. la + i \in 1..(la + lb) /\ ~(la + i <= la) /\ (la + i) - la = i
      BY <1>0
    <2> QED BY <1>1, <2>1
  <1> QED BY <1>1, <1>2, <1>3 DEF x, la, lb, Joined

\* A sequence of four pieces.
FourPieces(C, s, a, b, c, d) ==
  LET la == Len(a)
      lb == Len(b)
      lc == Len(c)
  IN  /\ s \in Seq(C) /\ Len(s) = la + lb + lc + Len(d)
      /\ \A i \in 1..la : s[i] = a[i]
      /\ \A i \in 1..lb : s[la + i] = b[i]
      /\ \A i \in 1..lc : s[la + lb + i] = c[i]
      /\ \A i \in 1..Len(d) : s[la + lb + lc + i] = d[i]

LEMMA Pieces ==
  ASSUME NEW C, NEW a \in Seq(C), NEW b \in Seq(C), NEW c \in Seq(C), NEW d \in Seq(C)
  PROVE  FourPieces(C, ((a \o b) \o c) \o d, a, b, c, d)
PROOF
  <1> DEFINE x == a \o b
             y == x \o c
             z == y \o d
             la == Len(a)
             lb == Len(b)
             lc == Len(c)
             ld == Len(d)
             lx == la + lb
             ly == lx + lc
  <1>0. la \in Nat /\ lb \in Nat /\ lc \in Nat /\ ld \in Nat
    BY LenProperties
  <1>1. Joined(C, x, a, b)
    BY TwoPieces
  <1>2. x \in Seq(C) /\ Len(x) = lx /\ (\A i \in 1..la : x[i] = a[i]) /\ \A i \in 1..lb : x[la + i] = b[i]
    BY <1>1 DEF Joined
  <1> HIDE DEF x
  <1>3. Joined(C, y, x, c)
    BY <1>2, TwoPieces
  <1>4. y \in Seq(C) /\ Len(y) = ly /\ (\A i \in 1..lx : y[i] = x[i]) /\ \A i \in 1..lc : y[lx + i] = c[i]
    <2> HIDE DEF y, la, lb, lc, lx
    <2> QED BY <1>2, <1>3 DEF Joined, lc
  <1> HIDE DEF y
  <1>5. Joined(C, z, y, d)
    BY <1>4, TwoPieces
  <1>6. z \in Seq(C) /\ Len(z) = ly + ld /\ (\A i \in 1..ly : z[i] = y[i]) /\ \A i \in 1..ld : z[ly + i] = d[i]
    <2> HIDE DEF z, ly
    <2> QED BY <1>4, <1>5 DEF Joined
  <1> HIDE DEF z, la, lb, lc, ld
  <1>7. \A i \in 1..la : z[i] = a[i]
    <2>1. \A i \in 1..la : i \in 1..lx /\ i \in 1..ly
      BY <1>0
    <2> QED BY <1>2, <1>4, <1>6, <2>1
  <1>8. \A i \in 1..lb : z[la + i] = b[i]
    <2>1. \A i \in 1..lb : la + i \in 1..lx /\ la + i \in 1..ly
      BY <1>0
    <2> QED BY <1>2, <1>4, <1>6, <2>1
  <1>9. \A i \in 1..lc : z[lx + i] = c[i]
    <2>1. \A i \in 1..lc : lx + i \in 1..ly
      BY <1>0
    <2> QED BY <1>4, <1>6, <2>1
  <1> QED BY <1>6, <1>7, <1>8, <1>9 DEF FourPieces, x, y, z, la, lb, lc, ld

\* response.rs: the SQL of every tool can be turned into the SQL that counts its rows.
LEMMA ToolsCount ==
  ASSUME NEW tool, NEW page \in BOOLEAN
  PROVE  CountSql(ToolSql(tool, page)).ok /\ Sound(CountSql(ToolSql(tool, page)).value)
PROOF
  <1> DEFINE s == ToolSql(tool, page)
             lead == IF tool = "main_thread_hotspots" THEN <<"include">> ELSE <<>>
             window == IF page THEN <<"include", "window", "limit">> ELSE <<>>
             select == IF tool \in Picking THEN <<"select", "limit">> ELSE <<"select">>
             last == <<"limit">>
             la == IF tool = "main_thread_hotspots" THEN 1 ELSE 0
             lb == IF page THEN 3 ELSE 0
             lc == IF tool \in Picking THEN 2 ELSE 1
  <1>1. s = ((lead \o window) \o select) \o last
    BY Zenon DEF ToolSql
  <1>2. /\ lead \in Seq(Words) /\ Len(lead) = la /\ la \in Nat
        /\ (la = 0 \/ la = 1) /\ (la = 1 => lead[1] = "include")
    <2>1. CASE tool = "main_thread_hotspots"
      <3>1. lead = <<"include">> /\ la = 1
        BY <2>1
      <3>2. <<"include">> \in Seq(Words) /\ Len(<<"include">>) = 1 /\ <<"include">>[1] = "include"
        BY DEF Words
      <3> HIDE DEF lead, la
      <3> QED BY <3>1, <3>2
    <2>2. CASE tool # "main_thread_hotspots"
      <3>1. lead = <<>> /\ la = 0
        BY <2>2
      <3>2. <<>> \in Seq(Words) /\ Len(<<>>) = 0
        BY DEF Words
      <3> HIDE DEF lead, la
      <3> QED BY <3>1, <3>2
    <2> QED BY <2>1, <2>2
  <1>3. /\ window \in Seq(Words) /\ Len(window) = lb /\ lb \in Nat /\ (lb = 0 \/ lb = 3)
        /\ lb = 3 => window[1] = "include" /\ window[2] = "window" /\ window[3] = "limit"
    <2>1. CASE page
      <3> DEFINE w == <<"include", "window", "limit">>
      <3>1. window = w /\ lb = 3
        BY <2>1
      <3>2. w \in Seq(Words) /\ Len(w) = 3 /\ w[1] = "include" /\ w[2] = "window" /\ w[3] = "limit"
        BY DEF Words
      <3> HIDE DEF window, lb, w
      <3> QED BY <3>1, <3>2
    <2>2. CASE ~page
      <3>1. window = <<>> /\ lb = 0
        BY <2>2
      <3>2. <<>> \in Seq(Words) /\ Len(<<>>) = 0
        BY DEF Words
      <3> HIDE DEF window, lb
      <3> QED BY <3>1, <3>2
    <2> QED BY <2>1, <2>2
  <1>4. /\ select \in Seq(Words) /\ Len(select) = lc /\ lc \in Nat /\ (lc = 1 \/ lc = 2)
        /\ select[1] = "select" /\ (lc = 2 => select[2] = "limit")
    <2>1. CASE tool \in Picking
      <3> DEFINE w == <<"select", "limit">>
      <3>1. select = w /\ lc = 2
        BY <2>1
      <3>2. w \in Seq(Words) /\ Len(w) = 2 /\ w[1] = "select" /\ w[2] = "limit"
        BY DEF Words
      <3> HIDE DEF select, lc, w
      <3> QED BY <3>1, <3>2
    <2>2. CASE tool \notin Picking
      <3> DEFINE w == <<"select">>
      <3>1. select = w /\ lc = 1
        BY <2>2
      <3>2. w \in Seq(Words) /\ Len(w) = 1 /\ w[1] = "select"
        BY DEF Words
      <3> HIDE DEF select, lc, w
      <3> QED BY <3>1, <3>2
    <2> QED BY <2>1, <2>2
  <1>5. last \in Seq(Words) /\ Len(last) = 1 /\ last[1] = "limit"
    BY DEF Words
  <1> HIDE DEF s, lead, window, select, last, la, lb, lc
  <1> DEFINE n == la + lb + lc + 1
             m == la + IF lb = 3 THEN 1 ELSE 0
  <1>6. /\ s \in Seq(Words) /\ Len(s) = n
        /\ \A i \in 1..la : s[i] = lead[i]
        /\ \A i \in 1..lb : s[la + i] = window[i]
        /\ \A i \in 1..lc : s[la + lb + i] = select[i]
        /\ \A i \in 1..1 : s[la + lb + lc + i] = last[i]
    <2>1. FourPieces(Words, s, lead, window, select, last)
      BY <1>1, <1>2, <1>3, <1>4, <1>5, Pieces
    <2> QED BY <1>2, <1>3, <1>4, <1>5, <2>1 DEF FourPieces
  <1>7. Counts(s, n, m)
    <2>0. 1 \in 1..1
      OBVIOUS
    <2>1. s[n] = "limit"
      BY <1>5, <1>6, <2>0
    <2>5. la = 1 => s[1] = "include"
      BY <1>2, <1>6
    <2>2. s[la + lb + 1] = "select" /\ (lc = 2 => s[la + lb + 2] = "limit")
      BY <1>2, <1>3, <1>4, <1>6
    <2>3. lb = 3 => s[la + 1] = "include" /\ s[la + 2] = "window" /\ s[la + 3] = "limit"
      BY <1>2, <1>3, <1>6
    <2>4. (la = 0 \/ la = 1) /\ (lb = 0 \/ lb = 3) /\ (lc = 1 \/ lc = 2)
      BY <1>2, <1>3, <1>4
    <2> QED BY <1>6, <2>1, <2>2, <2>3, <2>4, <2>5 DEF Counts
  <1>8. n \in Nat /\ m \in Nat
    BY <1>2, <1>3, <1>4
  <1> HIDE DEF n, m
  <1>9. CountSql(s).ok /\ Sound(CountSql(s).value)
    BY <1>7, <1>8, CountSqlWorks
  <1> QED BY <1>9 DEF s
-----------------------------------------------------------------------------
AnsInv == AnswersExact /\ OwnSqlWorks /\ PagesCover /\ AdviceFits

\* What a step may leave behind when the next one is up.
GoFits(g) ==
  /\ GotIsRecord(g)
  /\ Head(todo) = "limit" /\ Tool \in Limited => ToolLimit(call.p.limit).ok /\ g.limit = Bound
  /\ Head(todo) = "shape" /\ Tool = "execute_sql" => ShapeAllowed(call.p) /\ g.limit = Bound
  /\ Head(todo) \notin {"limit", "shape"} => g.limit = got.limit
  /\ IF Head(todo) = "rows" THEN g.table = Fetched /\ g.table.ok ELSE g.table = got.table
  /\ IF Head(todo) = "count" THEN g.count = trace.rows ELSE g.count = got.count
  /\ IF Head(todo) = "summary" THEN g.summary \in {"unavailable", Profile(trace)} ELSE g.summary = got.summary

\* What an error may say.
Fits(why, hints) ==
  /\ why = "BadSql" => Tool \notin Limited
  /\ why = "TooManyRows" /\ Tool \in Limited => Tool = Threads /\ Len(Groups) > MaxRows
  /\ why = "NotChrome" => ~trace.chrome /\ Tool \in Chrome
  /\ hints # {} => \E tool \in hints :
       tool \notin Chrome /\ (why = "NoTrace" => tool \in {"load_trace", "list_stdlib_modules"})

LEMMA Names ==
  /\ None \notin ToolNames /\ None # "NotChrome"
  /\ Limited \subseteq ToolNames /\ Chrome \subseteq Limited /\ Threads \in Limited /\ Threads \notin Chrome
  /\ Summaries \subseteq Chrome /\ Threads \notin Summaries
  /\ \A tool \in Limited : tool \notin {"execute_sql", "list_tables", "list_processes", "list_stdlib_modules", "load_trace"}
  /\ {"execute_sql", "list_tables", "list_processes", "list_stdlib_modules", "load_trace"} \subseteq ToolNames
  BY NoneAssumption DEF ToolNames, Limited, Chrome, Summaries, Hotspots, Threads

\* The step that is up, and the ones behind it.
LEMMA StepIsUp ==
  ASSUME CallInv, todo # <<>>
  PROVE  /\ Tool \in ToolNames /\ DoneSteps \in Nat /\ DoneSteps + 1 \in 1..Len(Steps[Tool])
         /\ Head(todo) = Steps[Tool][DoneSteps + 1]
         /\ Ordered(Tool, Steps[Tool], DoneSteps + 1)
         /\ Tail(todo) = SubSeq(Steps[Tool], DoneSteps + 2, Len(Steps[Tool]))
         /\ Len(Steps[Tool]) - Len(Tail(todo)) = DoneSteps + 1 /\ Len(Tail(todo)) <= Len(Steps[Tool])
PROOF
  <1> DEFINE s == Steps[Tool]
             n == Len(s)
             d == DoneSteps
  <1>1. Tool \in ToolNames
    BY DEF CallInv
  <1>2. s \in Seq(StepNames) /\ \A i \in 1..n : Ordered(Tool, s, i)
    BY <1>1, StepsOrdered
  <1>3. n \in Nat
    BY <1>2, LenProperties
  <1>4. todo \in Seq(StepNames) /\ Len(todo) <= n /\ todo = SubSeq(s, d + 1, n) /\ d = n - Len(todo)
    BY DEF CallInv, DoneSteps
  <1>5. Len(todo) \in Nat /\ Len(todo) # 0
    BY <1>4, EmptySeq
  <1> HIDE DEF s, n, d
  <1>6. d \in Nat /\ d + 1 \in 1..n /\ n \in (d + 1)..n /\ n = Len(s)
    BY <1>3, <1>4, <1>5 DEF n
  <1>7. Head(todo) = s[d + 1] /\ Tail(todo) = SubSeq(s, d + 2, n)
    <2> DEFINE e == d + 1
    <2>1. e \in 1..Len(s) /\ n \in e..Len(s) /\ e + 1 = d + 2
      BY <1>6
    <2> HIDE DEF e
    <2>2. Head(SubSeq(s, e, n)) = s[e] /\ Tail(SubSeq(s, e, n)) = SubSeq(s, e + 1, n)
      BY <1>2, <2>1, HeadTailOfSubSeq
    <2> QED BY <1>4, <2>1, <2>2 DEF e
  <1>8. Tail(todo) \in Seq(StepNames) /\ Len(Tail(todo)) = Len(todo) - 1
    BY <1>4, <1>5, HeadTailProperties
  <1>9. n - Len(Tail(todo)) = d + 1 /\ Len(Tail(todo)) <= n
    BY <1>3, <1>4, <1>5, <1>8
  <1>10. Ordered(Tool, s, d + 1)
    BY <1>2, <1>6
  <1> QED BY <1>1, <1>6, <1>7, <1>8, <1>9, <1>10 DEF s, n, d

\* A step that leaves what it is to find out, with the answer still to come.
LEMMA GoStep ==
  ASSUME CallInv, AnsInv, todo # <<>>, NEW g, Go(g), GoFits(g)
  PROVE  CallInv' /\ AnsInv'
PROOF
  <1>1. /\ todo' = Tail(todo) /\ got' = g
        /\ UNCHANGED <<trace, loaded, call, answer, advice, seen>>
    BY DEF Go
  <1>2. /\ Tool' = Tool /\ Bound' = Bound /\ Fetched' = Fetched /\ Rows' = Rows
        /\ RecommendedTools(Profile(trace))' = RecommendedTools(Profile(trace))
        /\ Shown(Rows)' = Shown(Rows) /\ Steps[Tool]' = Steps[Tool]
    BY <1>1 DEF Tool, Bound, Fetched, AskedFor, BoundSql, Rows
  <1>3. DoneSteps' = DoneSteps + 1 /\ DoneSteps \in Nat
    BY <1>1, <1>2, StepIsUp DEF DoneSteps
  <1>4. ASSUME NEW step, Done(step)' PROVE Done(step) \/ Head(todo) = step
    <2>1. PICK j \in 1..(DoneSteps + 1) : Steps[Tool][j] = step
      BY <1>2, <1>3, <1>4 DEF Done
    <2>2. CASE j = DoneSteps + 1
      BY <2>1, <2>2, StepIsUp
    <2>3. CASE j # DoneSteps + 1
      <3>1. j \in 1..DoneSteps
        BY <1>3, <2>3
      <3> QED BY <2>1, <3>1 DEF Done
    <2> QED BY <2>2, <2>3
  <1>5. GotInv
    BY DEF CallInv
  <1>6. Ordered(Tool, Steps[Tool], DoneSteps + 1) /\ Head(todo) = Steps[Tool][DoneSteps + 1]
    BY StepIsUp
  <1>7. GotInv'
    <2>1. ASSUME Tool \in Limited, Done("limit")' PROVE ToolLimit(call.p.limit).ok /\ g.limit = Bound
      <3>1. Head(todo) # "shape"
        BY <1>6, <2>1, Names DEF Ordered
      <3> QED BY <1>4, <1>5, <2>1, <3>1 DEF GoFits, GotInv
    <2>2. ASSUME Tool = "execute_sql", Done("shape")' PROVE ShapeAllowed(call.p) /\ g.limit = Bound
      <3>1. Head(todo) # "limit"
        BY <1>6, <2>2, Names DEF Ordered
      <3> QED BY <1>4, <1>5, <2>2, <3>1 DEF GoFits, GotInv
    <2>3. ASSUME Done("rows")' PROVE g.table = Fetched /\ g.table.ok
      BY <1>4, <1>5, <2>3 DEF GoFits, GotInv
    <2>4. ASSUME Done("count")' PROVE g.count = trace.rows
      BY <1>4, <1>5, <2>4 DEF GoFits, GotInv
    <2>5. ASSUME Done("summary")' PROVE g.summary \in {"unavailable", Profile(trace)}
      BY <1>4, <1>5, <2>5 DEF GoFits, GotInv
    <2> QED BY <1>1, <1>2, <2>1, <2>2, <2>3, <2>4, <2>5 DEF GotInv
  <1>8. answer = NoAnswer /\ Tool # None
    BY StepIsUp, Names DEF CallInv
  <1>9. CallInv'
    <2>1. Tail(todo) \in Seq(StepNames)
      BY HeadTailProperties DEF CallInv
    <2>2. (todo # <<>>)' => (todo = SubSeq(Steps[Tool], DoneSteps + 1, Len(Steps[Tool])))'
      <3>1. todo' = SubSeq(Steps[Tool], DoneSteps + 2, Len(Steps[Tool]))
        BY <1>1, StepIsUp
      <3>2. DoneSteps' + 1 = DoneSteps + 2
        BY <1>3
      <3> QED BY <1>2, <3>1, <3>2
    <2>3. Len(todo)' <= Len(Steps[Tool])'
      BY <1>1, <1>2, StepIsUp
    <2>4. GotIsRecord(got)'
      BY <1>1 DEF GoFits
    <2> QED BY <1>1, <1>2, <1>7, <1>8, <2>1, <2>2, <2>3, <2>4 DEF CallInv
  <1>10. AnsInv'
    BY <1>1, <1>8, Names DEF AnsInv, AnswersExact, OwnSqlWorks, PagesCover, AdviceFits, Answered, NoAnswer, Answer
  <1> QED BY <1>9, <1>10

\* A step that ends the call with an error that fits.
LEMMA EndStep ==
  ASSUME CallInv, todo # <<>>, NEW why, NEW hints, End(Refusal(why, hints)), Fits(why, hints)
  PROVE  CallInv' /\ AnsInv'
PROOF
  <1>1. /\ todo' = <<>> /\ answer' = Refusal(why, hints)
        /\ UNCHANGED <<trace, loaded, call, advice, seen>>
    BY DEF End
  <1>2. Tool' = Tool /\ Tool \in ToolNames /\ Tool # None /\ Rows' = Rows /\ Shown(Rows)' = Shown(Rows)
        /\ Groups' = Groups /\ RecommendedTools(Profile(trace))' = RecommendedTools(Profile(trace))
    BY <1>1, StepIsUp, Names DEF Tool, Rows, Groups
  <1>3. CallInv'
    <2>1. GotIsRecord(got)'
      BY DEF End, Nothing, GotIsRecord
    <2> QED BY <1>1, <1>2, <2>1, EmptySeq DEF CallInv
  <1>4. answer'.status = "error" /\ answer'.why = why /\ answer'.hints = hints
    BY <1>1 DEF Refusal
  <1>5. AnswersExact' /\ PagesCover'
    BY <1>4 DEF AnswersExact, PagesCover, Answered
  <1>6. OwnSqlWorks'
    BY <1>2, <1>4 DEF OwnSqlWorks, Fits, Threads
  <1>7. AdviceFits'
    <2>1. ASSUME why = "NotChrome" PROVE Tool \notin advice
      <3>1. ~trace.chrome /\ Tool \in Chrome
        BY <2>1 DEF Fits
      <3>2. advice \in {{}, RecommendedTools(Profile(trace))}
        BY DEF CallInv
      <3>3. Profile(trace) \in {"android", "generic"}
        BY <3>1 DEF Profile
      <3>4. \A tool \in RecommendedTools("android") \cup RecommendedTools("generic") : tool \notin Chrome
        BY DEF RecommendedTools, Chrome, Summaries, Hotspots
      <3> QED BY <3>1, <3>2, <3>3, <3>4
    <2>2. ASSUME hints # {} PROVE \E tool \in hints : ~TurnsDown(tool, why)'
      <3>1. PICK tool \in hints : tool \notin Chrome /\ (why = "NoTrace" => tool \in {"load_trace", "list_stdlib_modules"})
        BY <2>2 DEF Fits
      <3> QED BY <3>1 DEF TurnsDown
    <2> QED BY <1>1, <1>2, <1>4, <2>1, <2>2 DEF AdviceFits
  <1> QED BY <1>3, <1>5, <1>6, <1>7 DEF AnsInv

LEMMA PlainIs ==
  /\ Plain \in ParamSet /\ Plain.offset = 0
  /\ Plain = [limit |-> None, head |-> None, text |-> None, columns_only |-> FALSE, summary |-> FALSE,
              counted |-> FALSE, good |-> TRUE, page |-> FALSE, offset |-> 0, ids |-> "there", fails |-> None]
  BY DEF Plain, ParamSet, RowLimits

\* The parameters of a tool, read as a record.
LEMMA ParamsAre ==
  ASSUME NEW tool \in ToolNames, NEW p \in Params(tool), Len(seen) \in Nat
  PROVE  /\ p \in ParamSet
         /\ tool # Threads => p.offset = 0
         /\ tool = Threads => p.offset \in {0, Len(seen)}
PROOF
  <1>1. CASE tool = "execute_sql"
    <2>1. Params(tool) = SqlParams
      BY <1>1 DEF Params, Summaries
    <2>2. CASE p \in {[Plain EXCEPT !.fails = kind] : kind \in Failures}
      <3>1. PICK kind \in Failures : p = [Plain EXCEPT !.fails = kind]
        BY <2>2
      <3> QED BY <1>1, <3>1, PlainIs DEF ParamSet, Threads
    <2>3. CASE p \notin {[Plain EXCEPT !.fails = kind] : kind \in Failures}
      <3>1. PICK f \in Shapes :
              p = [Plain EXCEPT !.limit = f.limit, !.head = f.head, !.text = f.text,
                   !.columns_only = f.columns_only, !.summary = f.summary, !.counted = f.counted]
        BY <2>1, <2>3 DEF SqlParams, Failures
      <3>2. /\ f.limit \in RowLimits /\ f.head \in {None, 1} /\ f.text \in {None, 0, 1}
            /\ f.columns_only \in BOOLEAN /\ f.summary \in BOOLEAN /\ f.counted \in BOOLEAN
        BY DEF Shapes
      <3> QED BY <1>1, <3>1, <3>2, PlainIs DEF ParamSet, Threads
    <2> QED BY <2>2, <2>3
  <1>2. CASE tool \in {"list_tables", "load_trace"}
    <2>1. Params(tool) = {[Plain EXCEPT !.good = g] : g \in BOOLEAN}
      BY <1>2 DEF Params, Summaries
    <2>2. PICK g \in BOOLEAN : p = [Plain EXCEPT !.good = g]
      BY <2>1
    <2> QED BY <1>2, <2>2, PlainIs DEF ParamSet, Threads
  <1>3. CASE tool = "list_processes"
    <2>1. Params(tool) = {Plain}
      BY <1>3 DEF Params, Summaries
    <2> QED BY <1>3, <2>1, PlainIs DEF Threads
  <1>4. CASE tool = "list_stdlib_modules"
    <2> DEFINE Given == [limit : RowLimits, good : BOOLEAN]
    <2>1. Params(tool) = {[Plain EXCEPT !.limit = f.limit, !.good = f.good] : f \in Given}
      BY <1>4 DEF Params, Summaries, Hotspots, Threads
    <2>2. PICK f \in Given : p = [Plain EXCEPT !.limit = f.limit, !.good = f.good]
      BY <2>1
    <2> QED BY <1>4, <2>2, PlainIs DEF ParamSet, Threads, Summaries, Hotspots
  <1>5. CASE tool = Threads
    <2> DEFINE Given == [limit : RowLimits, good : BOOLEAN, offset : {0, Len(seen)}]
    <2>1. Params(tool) = {[Plain EXCEPT !.limit = f.limit, !.good = f.good, !.offset = f.offset] : f \in Given}
      BY <1>5 DEF Params, Summaries, Hotspots, Threads
    <2>2. PICK f \in Given : p = [Plain EXCEPT !.limit = f.limit, !.good = f.good, !.offset = f.offset]
      BY <2>1
    <2> QED BY <1>5, <2>2, PlainIs DEF ParamSet, Threads, Summaries, Hotspots
  <1>6. CASE tool \in Summaries
    <2> DEFINE Given == [limit : RowLimits, text : {None, 0}]
    <2>1. Params(tool) = {[Plain EXCEPT !.limit = f.limit, !.text = f.text] : f \in Given}
      BY <1>6 DEF Params, Summaries, Hotspots, Threads
    <2>2. PICK f \in Given : p = [Plain EXCEPT !.limit = f.limit, !.text = f.text]
      BY <2>1
    <2> QED BY <1>6, <2>2, PlainIs DEF ParamSet, Threads, Summaries, Hotspots
  <1>7. CASE tool = "slice_descendants_breakdown"
    <2> DEFINE Given == [limit : RowLimits, text : {None, 0}, good : BOOLEAN, ids : {"there", "some", "missing"}]
    <2>1. Params(tool) = {[Plain EXCEPT !.limit = f.limit, !.text = f.text, !.good = f.good, !.ids = f.ids] : f \in Given}
      BY <1>7 DEF Params, Summaries, Hotspots, Threads
    <2>2. PICK f \in Given : p = [Plain EXCEPT !.limit = f.limit, !.text = f.text, !.good = f.good, !.ids = f.ids]
      BY <2>1
    <2> QED BY <1>7, <2>2, PlainIs DEF ParamSet, Threads, Summaries, Hotspots
  <1>8. CASE tool \in Hotspots \cup {"resource_summary"}
    <2> DEFINE Given == [limit : RowLimits, text : {None, 0}, good : BOOLEAN, page : BOOLEAN]
    <2>1. Params(tool) = {[Plain EXCEPT !.limit = f.limit, !.text = f.text, !.good = f.good, !.page = f.page] : f \in Given}
      BY <1>8 DEF Params, Summaries, Hotspots, Threads
    <2>2. PICK f \in Given : p = [Plain EXCEPT !.limit = f.limit, !.text = f.text, !.good = f.good, !.page = f.page]
      BY <2>1
    <2> QED BY <1>8, <2>2, PlainIs DEF ParamSet, Threads, Summaries, Hotspots
  <1> QED BY <1>1, <1>2, <1>3, <1>4, <1>5, <1>6, <1>7, <1>8 DEF ToolNames, Limited, Chrome, Threads

LEMMA BeginStep ==
  ASSUME CallInv, AnsInv, NEW tool \in ToolNames, NEW p \in Params(tool), Begin(tool, p)
  PROVE  CallInv' /\ AnsInv'
PROOF
  <1>1. /\ Tool = None /\ call' = [tool |-> tool, p |-> p] /\ todo' = Steps[tool]
        /\ seen' = (IF p.offset = 0 THEN <<>> ELSE seen)
        /\ UNCHANGED <<trace, loaded, got, answer, advice, faults>>
    BY DEF Begin
  <1>2. /\ Tool' = tool /\ call'.p = p /\ Rows' = Rows /\ Shown(Rows)' = Shown(Rows)
        /\ RecommendedTools(Profile(trace))' = RecommendedTools(Profile(trace))
    BY <1>1 DEF Tool, Rows
  <1>3. answer' = NoAnswer /\ tool # None
    BY <1>1, Names DEF CallInv
  <1>4. trace \in Traces /\ trace.rows \in Nat /\ Len(seen) \in 0..trace.rows /\ Len(seen) \in Nat
        /\ seen = SubSeq(Shown(Rows), 1, Len(seen))
    BY TracesAre DEF CallInv
  <1>5. p \in ParamSet /\ (tool # Threads => p.offset = 0) /\ (tool = Threads => p.offset \in {0, Len(seen)})
    BY <1>4, ParamsAre
  <1>6. Steps[tool] \in Seq(StepNames) /\ Len(Steps[tool]) \in Nat
        /\ SubSeq(Steps[tool], 1, Len(Steps[tool])) = Steps[tool]
    <2> DEFINE s == Steps[tool]
    <2>1. s \in Seq(StepNames)
      BY StepsOrdered
    <2> HIDE DEF s
    <2>2. Len(s) \in Nat /\ SubSeq(s, 1, Len(s)) = s
      BY <2>1, SubSeqFull, LenProperties
    <2> QED BY <2>1, <2>2 DEF s
  <1>7. DoneSteps' = 0
    BY <1>1, <1>2, <1>6 DEF DoneSteps
  <1>8. GotInv'
    <2>1. \A step \in StepNames : ~Done(step)'
      BY <1>7 DEF Done
    <2>2. {"limit", "shape", "rows", "count", "summary"} \subseteq StepNames
      BY DEF StepNames
    <2> QED BY <2>1, <2>2 DEF GotInv
  <1>9. /\ Len(seen') \in 0..trace.rows /\ seen' = SubSeq(Shown(Rows), 1, Len(seen'))
        /\ tool = Threads => p.offset = Len(seen')
    <2>1. CASE p.offset = 0
      <3>1. seen' = <<>> /\ Len(<<>>) = 0
        BY <1>1, <2>1
      <3>2. SubSeq(Shown(Rows), 1, 0) = <<>>
        BY SubSeqEmpty
      <3> QED BY <1>4, <2>1, <3>1, <3>2
    <2>2. CASE p.offset # 0
      BY <1>1, <1>4, <1>5, <2>2
    <2> QED BY <2>1, <2>2
  <1>10. CallInv'
    <2>1. (todo = SubSeq(Steps[Tool], DoneSteps + 1, Len(Steps[Tool])))'
      BY <1>1, <1>2, <1>6, <1>7
    <2>2. advice \in {{}, RecommendedTools(Profile(trace))}
      BY DEF CallInv
    <2>3. (Len(todo) <= Len(Steps[Tool]))'
      BY <1>1, <1>2, <1>6
    <2>4. (trace \in Traces /\ Tool \in ToolNames \cup {None} /\ call.p \in ParamSet)'
      BY <1>1, <1>2, <1>4, <1>5
    <2>5. (Tool # Threads => call.p.offset = 0)' /\ (Tool = Threads => call.p.offset = Len(seen))'
      BY <1>2, <1>5, <1>9
    <2>6. (Tool # None /\ answer = NoAnswer /\ todo \in Seq(StepNames) /\ GotIsRecord(got))'
      BY <1>1, <1>2, <1>3, <1>6 DEF CallInv, GotIsRecord
    <2>7. (Len(seen) \in 0..trace.rows /\ seen = SubSeq(Shown(Rows), 1, Len(seen)))'
      BY <1>1, <1>2, <1>9
    <2>8. (advice \in {{}, RecommendedTools(Profile(trace))})'
      BY <1>1, <1>2, <2>2
    <2> QED BY <1>8, <2>1, <2>3, <2>4, <2>5, <2>6, <2>7, <2>8 DEF CallInv
  <1>11. AnsInv'
    BY <1>3, Names DEF AnsInv, AnswersExact, OwnSqlWorks, PagesCover, AdviceFits, Answered, NoAnswer, Answer
  <1> QED BY <1>10, <1>11

LEMMA ReturnStep ==
  ASSUME CallInv, AnsInv, Return
  PROVE  CallInv' /\ AnsInv'
PROOF
  <1>1. /\ answer.status # "none" /\ call' = NoCall /\ answer' = NoAnswer
        /\ UNCHANGED <<trace, loaded, todo, got, advice, seen, faults>>
    BY DEF Return
  <1>2. todo = <<>>
    BY <1>1 DEF CallInv, NoAnswer, Answer
  <1>3. /\ Tool' = None /\ call'.p = Plain /\ Rows' = Rows /\ Shown(Rows)' = Shown(Rows)
        /\ RecommendedTools(Profile(trace))' = RecommendedTools(Profile(trace))
    BY <1>1 DEF Tool, Rows, NoCall
  <1>4. CallInv'
    <2>1. GotIsRecord(got)'
      BY <1>1 DEF CallInv, GotIsRecord
    <2> QED BY <1>1, <1>2, <1>3, <2>1, PlainIs, Names, EmptySeq DEF CallInv
  <1>5. AnsInv'
    BY <1>1, Names DEF AnsInv, AnswersExact, OwnSqlWorks, PagesCover, AdviceFits, Answered, NoAnswer, Answer
  <1> QED BY <1>4, <1>5

LEMMA InitIsFine ==
  ASSUME Init
  PROVE  CallInv /\ AnsInv
PROOF
  <1>1. /\ trace \in Traces /\ call = NoCall /\ todo = <<>> /\ answer = NoAnswer /\ advice = {} /\ seen = <<>>
    BY DEF Init
  <1>2. Tool = None /\ call.p = Plain
    BY <1>1 DEF Tool, NoCall
  <1>3. Len(seen) = 0 /\ trace.rows \in Nat /\ SubSeq(Shown(Rows), 1, 0) = <<>>
    BY <1>1, TracesAre, SubSeqEmpty
  <1>4. CallInv
    <2>1. GotIsRecord(got)
      BY DEF Init, Nothing, GotIsRecord
    <2> QED BY <1>1, <1>2, <1>3, <2>1, PlainIs, Names, EmptySeq DEF CallInv
  <1>5. AnsInv
    BY <1>1, Names DEF AnsInv, AnswersExact, OwnSqlWorks, PagesCover, AdviceFits, Answered, NoAnswer, Answer
  <1> QED BY <1>4, <1>5

\* A step that the handler has before the one that is up has been done.
LEMMA DoneEarlier ==
  ASSUME CallInv, todo # <<>>, NEW step, Earlier(step, Steps[Tool], DoneSteps + 1)
  PROVE  Done(step)
PROOF
  <1>1. DoneSteps \in Nat /\ (DoneSteps + 1) - 1 = DoneSteps
    <2>1. DoneSteps \in Nat
      BY StepIsUp
    <2> QED BY <2>1
  <1> QED BY <1>1 DEF Earlier, Done

LEMMA GotFits ==
  ASSUME CallInv, Head(todo) \notin {"limit", "shape", "rows", "count", "summary"}
  PROVE  GoFits(got)
  BY DEF CallInv, GoFits

\* Errors that name no tool, or one that always works.
LEMMA PlainRefusals ==
  ASSUME NEW why \in {"BadParam", "Query", "NoThreads", "NoSlices", "NoTrace"},
         NEW hints, hints \in {{}, {"list_processes"}, {"main_thread_hotspots", "execute_sql"}, {"load_trace"}},
         why = "NoTrace" => hints = {"load_trace"}
  PROVE  Fits(why, hints)
PROOF
  <1>1. {"list_processes", "execute_sql", "load_trace"} \cap Chrome = {}
    BY DEF Chrome, Summaries, Hotspots
  <1> QED BY <1>1 DEF Fits

\* errors.rs, chrome.rs: the tools that the message of a failed query names.
LEMMA HintsFit ==
  ASSUME NEW kind, kind # "NoTrace", kind # "BadSql", kind # "NotChrome",
         kind = "TooManyRows" => Tool \notin Limited
  PROVE  Fits(kind, Hints(kind))
PROOF
  <1> DEFINE Free == {"list_tables", "list_table_structure", "list_stdlib_modules", "execute_sql"}
  <1>1. Free \cap Chrome = {}
    BY DEF Chrome, Summaries, Hotspots
  <1>2. SqlHints(kind) \subseteq Free /\ ChromeHints(kind) \subseteq Free /\ SliceHints(kind) \subseteq Free
    BY DEF SqlHints, ChromeHints, SliceHints
  <1>3. Hints(kind) \subseteq Free
    BY <1>2 DEF Hints
  <1> HIDE DEF Free
  <1> QED BY <1>1, <1>3 DEF Fits

LEMMA OffsetIs ==
  ASSUME CallInv, todo # <<>>
  PROVE  call.p.offset \in 0..trace.rows /\ (Tool # Threads => call.p.offset = 0)
         /\ (Tool = Threads => call.p.offset = Len(seen))
PROOF
  <1>1. trace.rows \in Nat
    BY TracesAre DEF CallInv
  <1> QED BY <1>1 DEF CallInv

\* The limit in the SQL of a tool keeps the rows within the cap.
LEMMA FetchedIs ==
  ASSUME CallInv, todo # <<>>,
         Tool \in Limited => ToolLimit(call.p.limit).ok,
         Tool = "execute_sql" => ShapeAllowed(call.p)
  PROVE  /\ AskedFor(BoundSql) \in Seq(Pairs)
         /\ Tool \in Limited => BoundSql \in Bound..MaxRows /\ Bound \in 1..MaxRows /\ Fetched.ok
         /\ ~Fetched.ok => Fetched = Failed("TooManyRows")
         /\ Fetched.ok =>
              LET n == trace.rows
                  o == call.p.offset
              IN  /\ Tool \in Limited =>
                       /\ Fetched.rows = SubSeq(Shown(Rows), o + 1, o + Smaller(BoundSql, n - o))
                       /\ Len(Fetched.rows) = Smaller(BoundSql, n - o)
                  /\ Tool \notin Limited /\ (Tool # "execute_sql" \/ Bound = None) =>
                       Fetched = Table(Shown(Rows), n, FALSE)
                  /\ Tool = "execute_sql" /\ Bound # None =>
                       /\ Bound \in 0..MaxRows
                       /\ Fetched = Table(SubSeq(Shown(Rows), 1, Smaller(Bound, n)), n, Bound < n)
PROOF
  <1> DEFINE n == trace.rows
             o == call.p.offset
  <1>1. trace \in Traces /\ n \in Nat /\ o \in 0..n /\ (Tool # Threads => o = 0) /\ call.p \in ParamSet
    BY OffsetIs, TracesAre DEF CallInv
  <1>2. MaxRows \in Nat /\ None \notin Nat
    BY RowsAssumption
  <1>3. CASE Tool \in Limited
    <2>1. Bound = ToolLimit(call.p.limit).value /\ Tool # "execute_sql"
      BY <1>3, Names DEF Bound
    <2>2. Bound \in 1..MaxRows /\ Probe(Bound) \in Bound..MaxRows
      BY <1>1, <1>3, <2>1, LimitsAre
    <2>3. BoundSql \in Bound..MaxRows /\ BoundSql \in Nat
      BY <1>2, <1>3, <2>2 DEF BoundSql
    <2> DEFINE m == Smaller(BoundSql, n - o)
    <2>4. /\ m \in Nat /\ AskedFor(BoundSql) \in Seq(Pairs) /\ Len(AskedFor(BoundSql)) = m
          /\ Kept(AskedFor(BoundSql)) = SubSeq(Shown(Rows), o + 1, o + m)
      <3>1. m = IF BoundSql = None THEN trace.rows - o ELSE Smaller(BoundSql, trace.rows - o)
        BY <1>2, <2>3
      <3> HIDE DEF m
      <3> QED BY <1>1, <2>3, <3>1, AskIs
    <2>5. m <= MaxRows
      BY <1>1, <1>2, <2>3 DEF Smaller
    <2>6. Fetched = Table(Kept(AskedFor(BoundSql)), m, FALSE)
      <3> DEFINE rows == AskedFor(BoundSql)
      <3>1. rows \in Seq(Pairs) /\ Len(rows) = m
        BY <2>4
      <3>2. Fetched = Whole(rows, None)
        BY <2>1 DEF Fetched
      <3> HIDE DEF rows, m
      <3> QED BY <2>5, <3>1, <3>2, WholeIs DEF rows
    <2>7. Len(Kept(AskedFor(BoundSql))) = m
      BY <2>4, KeptAre DEF Pairs
    <2> HIDE DEF m, n, o
    <2>8. Fetched.ok /\ Fetched.rows = SubSeq(Shown(Rows), o + 1, o + m) /\ Len(Fetched.rows) = m
      BY <2>4, <2>6, <2>7 DEF Table
    <2> QED BY <1>3, <2>1, <2>2, <2>3, <2>4, <2>8, Names DEF m, n, o
  <1>4. CASE Tool \notin Limited
    <2>1. BoundSql = None /\ Tool # Threads /\ o = 0
      BY <1>1, <1>4, Names DEF BoundSql
    <2>2. AskedFor(BoundSql) \in Seq(Pairs) /\ Len(AskedFor(BoundSql)) = n /\ Kept(AskedFor(BoundSql)) = Shown(Rows)
      <3> DEFINE m == n - o
                 none == None
      <3>1. none \in Nat \cup {None} /\ m = IF none = None THEN trace.rows - o ELSE Smaller(none, trace.rows - o)
        OBVIOUS
      <3> HIDE DEF m, none
      <3>2. /\ AskedFor(none) \in Seq(Pairs) /\ Len(AskedFor(none)) = m
            /\ Kept(AskedFor(none)) = SubSeq(Shown(Rows), o + 1, o + m)
        BY <1>1, <3>1, AskIs
      <3>3. m = n /\ o + 1 = 1 /\ o + m = n
        BY <1>1, <2>1 DEF m
      <3>4. SubSeq(Shown(Rows), 1, n) = Shown(Rows)
        <4>1. Shown(Rows) \in Seq(Pairs) /\ Len(Shown(Rows)) = n
          BY <1>1, RowsTyped
        <4> HIDE DEF n
        <4> QED BY <4>1, SubSeqFull
      <3> QED BY <2>1, <3>2, <3>3, <3>4 DEF none
    <2> DEFINE rows == AskedFor(BoundSql)
    <2>3. rows \in Seq(Pairs) /\ Len(rows) = n /\ Kept(rows) = Shown(Rows)
      BY <2>2
    <2>4. Fetched = Whole(rows, IF Tool = "execute_sql" THEN Bound ELSE None)
      BY DEF Fetched
    <2>7. n \in Nat
      BY <1>1
    <2> HIDE DEF rows, n
    <2>5. CASE Tool # "execute_sql" \/ Bound = None
      <3>1. Fetched = Whole(rows, None)
        BY <2>4, <2>5
      <3>2. CASE n <= MaxRows
        <4>1. Fetched = Table(Shown(Rows), n, FALSE)
          BY <2>3, <3>1, <3>2, WholeIs
        <4> QED BY <1>4, <2>3, <2>5, <4>1 DEF Table, rows, n
      <3>3. CASE n > MaxRows
        <4>1. Fetched = Failed("TooManyRows")
          BY <2>3, <3>1, <3>3, WholeIs
        <4> QED BY <1>4, <2>3, <4>1 DEF Failed, rows
      <3>4. n <= MaxRows \/ n > MaxRows
        BY <1>2, <2>7
      <3> HIDE DEF o
      <3> QED BY <3>2, <3>3, <3>4
    <2>6. CASE Tool = "execute_sql" /\ Bound # None
      <3>1. Bound \in 0..MaxRows
        BY <1>1, <2>6, ShapesAre DEF Bound
      <3>2. Fetched = Table(SubSeq(Kept(rows), 1, Smaller(Bound, Len(rows))), Len(rows), Bound < Len(rows))
        BY <2>3, <2>4, <2>6, <3>1, WholeIs
      <3>3. Fetched = Table(SubSeq(Shown(Rows), 1, Smaller(Bound, n)), n, Bound < n)
        BY <2>3, <3>2
      <3> QED BY <1>4, <2>3, <2>6, <3>1, <3>3 DEF Table, rows, n
    <2> QED BY <2>5, <2>6
  <1> QED BY <1>3, <1>4
-----------------------------------------------------------------------------
\* A finding that a step adds to what is known.
LEMMA Noted ==
  ASSUME GotIsRecord(got), NEW x
  PROVE  /\ [got EXCEPT !.limit = x] =
              [limit |-> x, table |-> got.table, count |-> got.count, groups |-> got.groups, summary |-> got.summary]
         /\ [got EXCEPT !.table = x] =
              [limit |-> got.limit, table |-> x, count |-> got.count, groups |-> got.groups, summary |-> got.summary]
         /\ [got EXCEPT !.count = x] =
              [limit |-> got.limit, table |-> got.table, count |-> x, groups |-> got.groups, summary |-> got.summary]
         /\ [got EXCEPT !.groups = x] =
              [limit |-> got.limit, table |-> got.table, count |-> got.count, groups |-> x, summary |-> got.summary]
         /\ [got EXCEPT !.summary = x] =
              [limit |-> got.limit, table |-> got.table, count |-> got.count, groups |-> got.groups, summary |-> x]
PROOF
  <1> DEFINE a == got.limit
             b == got.table
             c == got.count
             d == got.groups
             e == got.summary
  <1>1. got = [limit |-> a, table |-> b, count |-> c, groups |-> d, summary |-> e]
    BY DEF GotIsRecord
  <1> HIDE DEF a, b, c, d, e
  <1>2. /\ [got EXCEPT !.limit = x] = [limit |-> x, table |-> b, count |-> c, groups |-> d, summary |-> e]
        /\ [got EXCEPT !.table = x] = [limit |-> a, table |-> x, count |-> c, groups |-> d, summary |-> e]
        /\ [got EXCEPT !.count = x] = [limit |-> a, table |-> b, count |-> x, groups |-> d, summary |-> e]
        /\ [got EXCEPT !.groups = x] = [limit |-> a, table |-> b, count |-> c, groups |-> x, summary |-> e]
        /\ [got EXCEPT !.summary = x] = [limit |-> a, table |-> b, count |-> c, groups |-> d, summary |-> x]
    BY <1>1
  <1> QED BY <1>2 DEF a, b, c, d, e

\* A parameter is checked: the call goes on, or it ends with BadParam.
LEMMA CheckStep ==
  ASSUME CallInv, AnsInv, todo # <<>>, NEW allowed, NEW g, Check(allowed, g), allowed => GoFits(g)
  PROVE  CallInv' /\ AnsInv'
PROOF
  <1>1. CASE allowed
    BY <1>1, GoStep DEF Check
  <1>2. CASE ~allowed
    <2>1. End(Refusal("BadParam", {}))
      BY <1>2 DEF Check
    <2>2. Fits("BadParam", {})
      BY DEF Fits
    <2> QED BY <2>1, <2>2, EndStep
  <1> QED BY <1>1, <1>2

LEMMA ShapeStep ==
  ASSUME CallInv, AnsInv, CheckShape
  PROVE  CallInv' /\ AnsInv'
PROOF
  <1> DEFINE g == [got EXCEPT !.limit = Shape(call.p).limit]
  <1>1. todo # <<>> /\ Head(todo) = "shape" /\ Check(ShapeAllowed(call.p), g)
    BY DEF CheckShape, At
  <1>2. Tool = "execute_sql" /\ Bound = Shape(call.p).limit
    BY <1>1, StepIsUp DEF Ordered, Bound
  <1>3. GotIsRecord(got)
    BY DEF CallInv
  <1>4. g = [limit |-> Shape(call.p).limit, table |-> got.table, count |-> got.count, groups |-> got.groups,
             summary |-> got.summary]
    BY <1>3, Noted
  <1> HIDE DEF g
  <1>5. ShapeAllowed(call.p) => GoFits(g)
    BY <1>1, <1>2, <1>4 DEF GoFits, GotIsRecord
  <1> QED BY <1>1, <1>5, CheckStep

LEMMA LimitStep ==
  ASSUME CallInv, AnsInv, CheckLimit
  PROVE  CallInv' /\ AnsInv'
PROOF
  <1>1. todo # <<>> /\ Head(todo) = "limit" /\ Tool \in Limited \cup {"list_stdlib_modules"}
    BY StepIsUp DEF CheckLimit, At, Ordered
  <1>2. CASE Tool = "list_stdlib_modules"
    <2>1. Check(call.p.good /\ call.p.limit # 0, got)
      BY <1>2 DEF CheckLimit
    <2>2. GoFits(got)
      BY <1>1, <1>2, Names DEF GoFits, CallInv
    <2> QED BY <1>1, <2>1, <2>2, CheckStep
  <1>3. CASE Tool # "list_stdlib_modules"
    <2> DEFINE g == [got EXCEPT !.limit = ToolLimit(call.p.limit).value]
    <2>1. Check(ToolLimit(call.p.limit).ok, g)
      BY <1>3 DEF CheckLimit
    <2>2. Tool \in Limited /\ Bound = ToolLimit(call.p.limit).value
      BY <1>1, <1>3, Names DEF Bound
    <2>3. GotIsRecord(got)
      BY DEF CallInv
    <2>4. g = [limit |-> ToolLimit(call.p.limit).value, table |-> got.table, count |-> got.count,
               groups |-> got.groups, summary |-> got.summary]
      BY <2>3, Noted
    <2> HIDE DEF g
    <2>5. ToolLimit(call.p.limit).ok => GoFits(g)
      BY <1>1, <2>2, <2>4 DEF GoFits, GotIsRecord
    <2> QED BY <1>1, <2>1, <2>5, CheckStep
  <1> QED BY <1>2, <1>3

LEMMA OtherChecks ==
  ASSUME CallInv, AnsInv, CheckSelector \/ CheckText \/ Build
  PROVE  CallInv' /\ AnsInv'
PROOF
  <1>1. PICK allowed \in {call.p.good, TextAllowed(call.p.text)} : Check(allowed, got)
    BY DEF CheckSelector, CheckText, Build
  <1>2. todo # <<>> /\ Head(todo) \in {"selector", "text", "build"}
    BY DEF CheckSelector, CheckText, Build, At
  <1>3. GoFits(got)
    BY <1>2, GotFits
  <1> QED BY <1>1, <1>2, <1>3, CheckStep

LEMMA OpenStep ==
  ASSUME CallInv, AnsInv, Open
  PROVE  CallInv' /\ AnsInv'
PROOF
  <1>1. todo # <<>> /\ Head(todo) = "open"
    BY DEF Open, At
  <1>2. \/ Go(got) \/ End(Refusal("NoTrace", {"load_trace"})) \/ End(Refusal("Query", {}))
    BY DEF Open
  <1>3. Fits("NoTrace", {"load_trace"}) /\ Fits("Query", {}) /\ GoFits(got)
    BY <1>1, GotFits, PlainRefusals
  <1> QED BY <1>1, <1>2, <1>3, GoStep, EndStep

LEMMA AskStep ==
  ASSUME CallInv, AnsInv, Ask
  PROVE  CallInv' /\ AnsInv'
PROOF
  <1>1. todo # <<>> /\ Head(todo) \in {"column", "evidence", "incomplete", "status"}
    BY DEF Ask, At
  <1>2. Go(got) \/ End(Refusal("Query", {}))
    BY DEF Ask
  <1>3. Fits("Query", {}) /\ GoFits(got)
    BY <1>1, GotFits, PlainRefusals
  <1> QED BY <1>1, <1>2, <1>3, GoStep, EndStep

LEMMA PreflightStep ==
  ASSUME CallInv, AnsInv, Preflight
  PROVE  CallInv' /\ AnsInv'
PROOF
  <1>1. todo # <<>> /\ Head(todo) = "preflight" /\ Tool \in Chrome
    BY StepIsUp DEF Preflight, At, Ordered
  <1> DEFINE hints == {"list_stdlib_modules", "execute_sql"}
  <1>2. Go(got) \/ (End(Refusal("NotChrome", hints)) /\ ~trace.chrome) \/ End(Refusal("Query", {}))
    BY DEF Preflight
  <1>3. Fits("Query", {}) /\ GoFits(got)
    BY <1>1, GotFits, PlainRefusals
  <1>4. ~trace.chrome => Fits("NotChrome", hints)
    <2>1. "execute_sql" \notin Chrome
      BY DEF Chrome, Summaries, Hotspots
    <2> QED BY <1>1, <2>1 DEF Fits
  <1> HIDE DEF hints
  <1> QED BY <1>1, <1>2, <1>3, <1>4, GoStep, EndStep

LEMMA MissingStep ==
  ASSUME CallInv, AnsInv, Missing
  PROVE  CallInv' /\ AnsInv'
PROOF
  <1>1. todo # <<>> /\ Head(todo) = "missing"
    BY DEF Missing, At
  <1> DEFINE hints == {"main_thread_hotspots", "execute_sql"}
  <1>2. Go(got) \/ End(Refusal("NoSlices", hints)) \/ End(Refusal("Query", {}))
    BY DEF Missing
  <1>3. Fits("NoSlices", hints) /\ Fits("Query", {}) /\ GoFits(got)
    BY <1>1, GotFits, PlainRefusals
  <1> HIDE DEF hints
  <1> QED BY <1>1, <1>2, <1>3, GoStep, EndStep

LEMMA SummarizeStep ==
  ASSUME CallInv, AnsInv, Summarize
  PROVE  CallInv' /\ AnsInv'
PROOF
  <1>1. todo # <<>> /\ Head(todo) = "summary" /\ GotIsRecord(got)
    BY DEF Summarize, At, CallInv
  <1>2. PICK summary \in {"unavailable", Profile(trace)} : Go([got EXCEPT !.summary = summary])
    BY DEF Summarize, SummaryFailure
  <1> DEFINE g == [got EXCEPT !.summary = summary]
  <1>3. g = [limit |-> got.limit, table |-> got.table, count |-> got.count, groups |-> got.groups,
             summary |-> summary]
    BY <1>1, Noted
  <1>4. Go(g)
    BY <1>2
  <1> HIDE DEF g
  <1>5. GoFits(g)
    BY <1>1, <1>2, <1>3 DEF GoFits, GotIsRecord
  <1> QED BY <1>1, <1>4, <1>5, GoStep

\* The threads of every process: an error only when the processes are more than the cap.
LEMMA GroupsStep ==
  ASSUME CallInv, AnsInv, CountGroups
  PROVE  CallInv' /\ AnsInv'
PROOF
  <1>1. todo # <<>> /\ Head(todo) = "groups" /\ Tool = Threads /\ GotIsRecord(got)
    BY StepIsUp DEF CountGroups, At, Ordered, CallInv
  <1>2. trace \in Traces /\ trace.size \in 1..2
    BY TracesAre DEF CallInv
  <1> DEFINE table == Decode(Reply(GroupRows, 2, trace.size), None)
             g == [got EXCEPT !.groups = [i \in DOMAIN table.rows |-> table.rows[i][2].n]]
  <1>3. table = Whole(GroupRows, None) /\ GroupRows \in Seq(Pairs) /\ Len(GroupRows) = Len(Groups)
    <2>1. GroupRows \in Seq(Pairs) /\ Len(GroupRows) = Len(Groups)
      BY <1>2, GroupsTyped
    <2> DEFINE rows == GroupRows
               size == trace.size
               max == None
    <2>2. rows \in Seq(Pairs) /\ size \in 1..2
      BY <1>2, <2>1
    <2> HIDE DEF rows, size, max
    <2>3. Decode(Reply(rows, 2, size), max) = Whole(rows, max)
      BY <2>2, Decoded
    <2> QED BY <2>1, <2>3 DEF rows, size, max
  <1>4. \/ table.ok /\ Go(g)
        \/ ~table.ok /\ End(Refusal(table.kind, {}))
        \/ End(Refusal("Query", {}))
    BY DEF CountGroups
  <1>5. GoFits(g)
    <2> DEFINE groups == [i \in DOMAIN table.rows |-> table.rows[i][2].n]
    <2>1. g = [got EXCEPT !.groups = groups]
      OBVIOUS
    <2> HIDE DEF groups, g
    <2>2. g = [limit |-> got.limit, table |-> got.table, count |-> got.count, groups |-> groups, summary |-> got.summary]
      BY <1>1, <2>1, Noted
    <2> QED BY <1>1, <2>2 DEF GoFits, GotIsRecord
  <1> HIDE DEF table, g
  <1>6. ~table.ok => Fits(table.kind, {})
    <2>1. ASSUME ~table.ok PROVE table = Failed("TooManyRows") /\ Len(Groups) > MaxRows
      <3>1. Len(GroupRows) \in Nat /\ MaxRows \in Nat
        BY <1>3, LenProperties, RowsAssumption
      <3>2. CASE Len(GroupRows) <= MaxRows
        BY <1>3, <2>1, <3>2, WholeIs DEF Table
      <3>3. CASE Len(GroupRows) > MaxRows
        BY <1>3, <3>3, WholeIs
      <3> QED BY <3>1, <3>2, <3>3
    <2> QED BY <1>1, <2>1, Names DEF Fits, Failed
  <1>7. Fits("Query", {})
    BY PlainRefusals
  <1> QED BY <1>1, <1>4, <1>5, <1>6, <1>7, GoStep, EndStep

\* The count always works, and is that of the query without its limit.
LEMMA CountStep ==
  ASSUME CallInv, AnsInv, GetCount
  PROVE  CallInv' /\ AnsInv'
PROOF
  <1>1. todo # <<>> /\ Head(todo) = "count" /\ Tool \in Limited /\ GotIsRecord(got)
    BY StepIsUp DEF GetCount, At, Ordered, CallInv
  <1>2. CountRows.ok /\ CountRows.value = trace.rows
    <2>1. call.p.page \in BOOLEAN
      BY DEF CallInv, ParamSet
    <2>2. CountSql(ToolSql(Tool, call.p.page)).ok /\ Sound(CountSql(ToolSql(Tool, call.p.page)).value)
      BY <2>1, ToolsCount
    <2>3. Tool \in Summaries => Counted[Tool] = Listed[Tool]
      BY DEF Summaries, Counted, Listed
    <2>4. Tool \in Summaries => RowsOfTable(Counted[Tool]) = trace.rows
      BY <2>3 DEF RowsOfTable
    <2>5. CountRows = Good(trace.rows)
      BY <2>2, <2>4 DEF CountRows
    <2> QED BY <2>5 DEF Good
  <1> DEFINE g == [got EXCEPT !.count = CountRows.value]
  <1>3. Go(g) \/ End(Refusal("NoThreads", {"list_processes"})) \/ End(Refusal("Query", {}))
    BY <1>2 DEF GetCount
  <1>4. GoFits(g)
    <2>1. g = [limit |-> got.limit, table |-> got.table, count |-> trace.rows, groups |-> got.groups, summary |-> got.summary]
      BY <1>1, <1>2, Noted
    <2> HIDE DEF g
    <2> QED BY <1>1, <2>1 DEF GoFits, GotIsRecord
  <1>5. Fits("NoThreads", {"list_processes"}) /\ Fits("Query", {})
    BY PlainRefusals
  <1> HIDE DEF g
  <1> QED BY <1>1, <1>3, <1>4, <1>5, GoStep, EndStep

\* A reply is decoded: to what was fetched, or to an error that fits.
LEMMA ReceivedStep ==
  ASSUME CallInv, AnsInv, todo # <<>>, Head(todo) = "rows", NEW reply, NEW table,
         table = Decode(reply, IF Tool = "execute_sql" THEN got.limit ELSE None), Received(reply),
         table.ok => table = Fetched, ~table.ok => Fits(table.kind, Hints(table.kind))
  PROVE  CallInv' /\ AnsInv'
PROOF
  <1> DEFINE g == [got EXCEPT !.table = table]
  <1>1. IF table.ok THEN Go(g) ELSE End(Refusal(table.kind, Hints(table.kind)))
    BY DEF Received
  <1>2. ASSUME table.ok PROVE GoFits(g)
    <2>1. GotIsRecord(got)
      BY DEF CallInv
    <2>2. g = [limit |-> got.limit, table |-> table, count |-> got.count, groups |-> got.groups, summary |-> got.summary]
      BY <2>1, Noted
    <2> HIDE DEF g
    <2> QED BY <1>2, <2>2 DEF GoFits, GotIsRecord
  <1> HIDE DEF g
  <1> QED BY <1>1, <1>2, GoStep, EndStep

LEMMA RowsStep ==
  ASSUME CallInv, AnsInv, GetRows
  PROVE  CallInv' /\ AnsInv'
PROOF
  <1>1. /\ todo # <<>> /\ Head(todo) = "rows" /\ Tool \in ToolNames /\ GotIsRecord(got) /\ GotInv
        /\ Ordered(Tool, Steps[Tool], DoneSteps + 1) /\ Head(todo) = Steps[Tool][DoneSteps + 1]
    BY StepIsUp DEF GetRows, At, CallInv
  <1>2. Tool \in Limited => ToolLimit(call.p.limit).ok /\ got.limit = Bound
    BY <1>1, DoneEarlier DEF Ordered, GotInv
  <1>3. Tool = "execute_sql" => ShapeAllowed(call.p) /\ got.limit = Bound
    BY <1>1, DoneEarlier DEF Ordered, GotInv
  <1>4. SqlLimit = BoundSql
    BY <1>2, Names DEF SqlLimit, BoundSql, Limited, Threads
  <1>5. Asked = AskedFor(BoundSql)
    BY <1>4 DEF Asked, AskedFor
  <1>6. /\ AskedFor(BoundSql) \in Seq(Pairs)
        /\ Tool \in Limited => Fetched.ok
        /\ ~Fetched.ok => Fetched = Failed("TooManyRows")
    <2>1. Tool \in Limited => ToolLimit(call.p.limit).ok
      BY <1>2
    <2>2. Tool = "execute_sql" => ShapeAllowed(call.p)
      BY <1>3
    <2> QED BY <1>1, <2>1, <2>2, FetchedIs
  <1> DEFINE max == IF Tool = "execute_sql" THEN got.limit ELSE None
             rows == Asked
             size == trace.size
             reply == Reply(rows, 2, size)
  <1>7. rows \in Seq(Pairs) /\ size \in 1..2 /\ (rows # <<>> => Len(rows) # 0)
    <2>1. size \in 1..2
      BY TracesAre DEF CallInv
    <2> QED BY <1>5, <1>6, <2>1, EmptySeq
  <1>8. Decode(reply, max) = Fetched
    <2>1. Fetched = Whole(rows, max)
      BY <1>3, <1>5 DEF Fetched
    <2> HIDE DEF rows, size, max
    <2>2. Decode(Reply(rows, 2, size), max) = Whole(rows, max)
      BY <1>7, Decoded
    <2> QED BY <2>1, <2>2
  <1>9. rows # <<>> => Decode(Cut(reply), max) = Failed("Other")
    <2> HIDE DEF rows, size, max
    <2> QED BY <1>7, CutFails
  <1>10. Lacking # None => Decode(ErrorReply(Lacking), max) = Failed(Lacking)
    BY DEF Decode, ErrorReply
  <1>11. Lacking # None => Lacking \in Failures
    <2>1. call.p.fails \in {None} \cup Failures
      BY DEF CallInv, ParamSet
    <2>2. trace.lacks \in {None} \cup Failures
      BY TracesAre DEF CallInv, Failures
    <2> QED BY <2>1, <2>2 DEF Lacking
  <1>12. \A kind \in Failures \cup {"Other"} : ~Failed(kind).ok /\ Fits(Failed(kind).kind, Hints(Failed(kind).kind))
    BY HintsFit DEF Failed, Failures
  <1>13. ~Fetched.ok => Fits(Fetched.kind, Hints(Fetched.kind))
    BY <1>6, HintsFit DEF Failed
  <1>14. /\ max = IF Tool = "execute_sql" THEN got.limit ELSE None
         /\ \/ Received(IF Lacking # None THEN ErrorReply(Lacking) ELSE reply)
            \/ rows # <<>> /\ Received(Cut(reply))
            \/ End(Refusal("Query", {}))
    BY DEF GetRows
  <1> HIDE DEF max, rows, size, reply
  <1>15. CASE Lacking # None /\ Received(ErrorReply(Lacking))
    <2>1. Decode(ErrorReply(Lacking), max) = Failed(Lacking) /\ Lacking \in Failures
      BY <1>10, <1>11, <1>15
    <2> QED BY <1>1, <1>12, <1>14, <1>15, <2>1, ReceivedStep
  <1>16. CASE Received(reply)
    BY <1>1, <1>8, <1>13, <1>14, <1>16, ReceivedStep
  <1>17. CASE rows # <<>> /\ Received(Cut(reply))
    BY <1>1, <1>9, <1>12, <1>14, <1>17, ReceivedStep
  <1>18. CASE End(Refusal("Query", {}))
    BY <1>1, <1>18, EndStep, PlainRefusals
  <1> QED BY <1>14, <1>15, <1>16, <1>17, <1>18
-----------------------------------------------------------------------------
\* What is known when the answer is put together.
LEMMA FoundOut ==
  ASSUME CallInv, todo # <<>>, Head(todo) = "format"
  PROVE  /\ Tool \in ToolNames /\ Tool # None
         /\ Tool \in Limited => ToolLimit(call.p.limit).ok /\ got.limit = Bound /\ got.count = trace.rows
         /\ Tool = "execute_sql" => ShapeAllowed(call.p)
         /\ Tool \notin {"list_stdlib_modules", "load_trace"} => got.table = Fetched /\ Fetched.ok
         /\ Tool = "load_trace" => got.summary \in {"unavailable", Profile(trace)}
PROOF
  <1>1. /\ Tool \in ToolNames /\ GotInv
        /\ Ordered(Tool, Steps[Tool], DoneSteps + 1) /\ Steps[Tool][DoneSteps + 1] = "format"
    BY StepIsUp DEF CallInv
  <1>2. Tool \in Limited => Done("limit") /\ Done("count")
    BY <1>1, DoneEarlier DEF Ordered
  <1>3. Tool = "execute_sql" => Done("shape")
    BY <1>1, DoneEarlier DEF Ordered
  <1>4. Tool \notin {"list_stdlib_modules", "load_trace"} => Done("rows")
    BY <1>1, DoneEarlier DEF Ordered
  <1>5. Tool = "load_trace" => Done("summary")
    BY <1>1, DoneEarlier DEF Ordered
  <1> QED BY <1>1, <1>2, <1>3, <1>4, <1>5, Names DEF GotInv

\* The first rows of what the query has.
LEMMA FirstRows ==
  ASSUME trace \in Traces, NEW m \in 0..trace.rows, NEW k \in 0..m
  PROVE  /\ SubSeq(SubSeq(Shown(Rows), 1, m), 1, k) = SubSeq(Shown(Rows), 1, k)
         /\ Len(SubSeq(Shown(Rows), 1, k)) = k
PROOF
  <1> DEFINE s == Shown(Rows)
             a == 1
  <1>1. s \in Seq(Pairs) /\ Len(s) = trace.rows /\ trace.rows \in Nat
    BY RowsTyped, TracesAre
  <1>2. a \in Nat /\ a # 0 /\ m \in Nat /\ k \in Nat /\ m <= Len(s) /\ k <= Len(s) /\ k <= (IF a <= m THEN m - a + 1 ELSE 0)
        /\ a + k - 1 = k /\ (IF a <= k THEN k - a + 1 ELSE 0) = k
    BY <1>1
  <1> HIDE DEF s, a
  <1>3. SubSeq(SubSeq(s, a, m), 1, k) = SubSeq(s, a, a + k - 1)
    BY <1>1, <1>2, FirstOfPart
  <1>4. Len(SubSeq(s, a, k)) = (IF a <= k THEN k - a + 1 ELSE 0)
    BY <1>1, <1>2, KeptPart
  <1> QED BY <1>2, <1>3, <1>4 DEF s, a

\* Exact(limit) of any answer.
IsExact(a, limit) ==
  /\ a.rows = SubSeq(Shown(Rows), 1, Smaller(limit, trace.rows))
  /\ a.count = trace.rows
  /\ a.truncated <=> trace.rows > Len(a.rows)

\* The answer of a tool with a limit.
LEMMA LimitedIsExact ==
  ASSUME CallInv, todo # <<>>, Head(todo) = "format", Tool \in Limited, Tool # Threads
  PROVE  IsExact(LimitedAnswer(got.table, got.limit, got.count), ToolLimit(call.p.limit).value)
PROOF
  <1> DEFINE n == trace.rows
             m == Smaller(BoundSql, n)
             k == Smaller(Bound, m)
  <1>1. /\ ToolLimit(call.p.limit).ok /\ got.limit = Bound /\ got.count = n /\ got.table = Fetched /\ Fetched.ok
        /\ Tool # "execute_sql"
    BY FoundOut, Names
  <1>2. trace \in Traces /\ n \in Nat /\ call.p.offset = 0 /\ MaxRows \in Nat
    BY TracesAre, RowsAssumption DEF CallInv
  <1>3. BoundSql \in Bound..MaxRows /\ Bound \in 1..MaxRows
    BY <1>1, FetchedIs
  <1>4. Fetched.rows = SubSeq(Shown(Rows), 1, m) /\ Len(Fetched.rows) = m
    <2>1. /\ Fetched.rows = SubSeq(Shown(Rows), 0 + 1, 0 + Smaller(BoundSql, n - 0))
          /\ Len(Fetched.rows) = Smaller(BoundSql, n - 0)
      BY <1>1, <1>2, FetchedIs
    <2>2. n - 0 = n /\ 0 + 1 = 1 /\ 0 + m = m
      BY <1>2, <1>3 DEF Smaller
    <2> QED BY <2>1, <2>2
  <1>5. m \in 0..n /\ k \in 0..m /\ k = Smaller(Bound, n)
    BY <1>2, <1>3 DEF Smaller
  <1>6. SubSeq(Fetched.rows, 1, k) = SubSeq(Shown(Rows), 1, k) /\ Len(SubSeq(Shown(Rows), 1, k)) = k
    BY <1>2, <1>4, <1>5, FirstRows
  <1>7. Bound = ToolLimit(call.p.limit).value
    BY <1>1 DEF Bound
  <1> HIDE DEF n, m, k
  <1> DEFINE a == LimitedAnswer(got.table, got.limit, got.count)
  <1>8. a.rows = SubSeq(Shown(Rows), 1, k) /\ a.count = n /\ (a.truncated <=> n > Len(a.rows))
    <2> DEFINE t == got.table
    <2>1. Smaller(got.limit, Len(t.rows)) = k
      BY <1>1, <1>4 DEF k
    <2>2. SubSeq(t.rows, 1, k) = SubSeq(Shown(Rows), 1, k) /\ got.count = n
      BY <1>1, <1>6
    <2> HIDE DEF t
    <2>3. LimitedAnswer(t, got.limit, got.count) = Answer(SubSeq(t.rows, 1, k), n, n > Len(SubSeq(t.rows, 1, k)))
      BY <2>1, <2>2 DEF LimitedAnswer
    <2> DEFINE b == Answer(SubSeq(t.rows, 1, k), n, n > Len(SubSeq(t.rows, 1, k)))
    <2>4. b.rows = SubSeq(t.rows, 1, k) /\ b.count = n /\ (b.truncated <=> n > Len(b.rows))
      BY DEF Answer
    <2>5. a = b
      BY <2>3 DEF t
    <2> HIDE DEF a, b, t
    <2> QED BY <2>2, <2>4, <2>5
  <1> QED BY <1>5, <1>7, <1>8 DEF IsExact, n

\* A page of threads goes on where the ones before it ended.
LEMMA PageIsNext ==
  ASSUME CallInv, todo # <<>>, Head(todo) = "format", Tool = Threads
  PROVE  LET page == PageAnswer(got.table, call.p.offset, got.count)
             whole == seen \o page.rows
         IN  /\ Len(whole) \in 0..trace.rows
             /\ whole = SubSeq(Shown(Rows), 1, Len(whole))
             /\ ~page.truncated => whole = Shown(Rows)
PROOF
  <1> DEFINE n == trace.rows
             o == call.p.offset
             m == Smaller(BoundSql, n - o)
             s == Shown(Rows)
             page == PageAnswer(got.table, o, got.count)
  <1>1. ToolLimit(call.p.limit).ok /\ got.count = n /\ got.table = Fetched /\ Fetched.ok /\ Tool # "execute_sql"
    BY FoundOut, Names
  <1>2. /\ trace \in Traces /\ n \in Nat /\ o \in 0..n /\ o = Len(seen) /\ seen = SubSeq(s, 1, o)
        /\ MaxRows \in Nat
    BY OffsetIs, TracesAre, RowsAssumption DEF CallInv
  <1>3. BoundSql \in Bound..MaxRows /\ Bound \in 1..MaxRows
    BY <1>1, Names, FetchedIs
  <1>4. Fetched.rows = SubSeq(s, o + 1, o + m) /\ Len(Fetched.rows) = m
    BY <1>1, Names, FetchedIs
  <1>5. m \in Nat /\ o + m \in 0..n
    BY <1>2, <1>3 DEF Smaller
  <1>6. s \in Seq(Pairs) /\ Len(s) = n /\ SubSeq(s, 1, n) = s
    <2>1. s \in Seq(Pairs) /\ Len(s) = n
      BY <1>2, RowsTyped
    <2> HIDE DEF s, n
    <2> QED BY <2>1, SubSeqFull
  <1>7. page.rows = SubSeq(s, o + 1, o + m) /\ (page.truncated <=> n > o + m)
    <2> HIDE DEF n, o, m, s
    <2> QED BY <1>1, <1>4 DEF PageAnswer, Answer, More
  <1>8. seen \o page.rows = SubSeq(s, 1, o + m) /\ Len(SubSeq(s, 1, o + m)) = o + m
    <2> DEFINE e == o + m
    <2>1. e \in 0..n
      BY <1>5
    <2>2. SubSeq(s, 1, o) \o SubSeq(s, o + 1, e) = SubSeq(s, 1, e)
      <3> DEFINE one == 1
      <3>1. one \in 1 .. Len(s) + 1 /\ o \in one - 1 .. Len(s) /\ e \in o .. Len(s)
        BY <1>2, <1>5, <1>6, <2>1
      <3> HIDE DEF s, n, o, e, one
      <3>2. SubSeq(s, one, o) \o SubSeq(s, o + 1, e) = SubSeq(s, one, e)
        BY <1>6, <3>1, ConcatAdjacentSubSeq
      <3> QED BY <3>2 DEF one
    <2>3. Len(SubSeq(s, 1, e)) = e
      <3> HIDE DEF n, e
      <3> QED BY <1>2, <2>1, FirstRows DEF n
    <2> QED BY <1>2, <1>7, <2>2, <2>3
  <1>9. ~page.truncated => o + m = n
    BY <1>2, <1>5, <1>7
  <1> HIDE DEF m, s, page
  <1>10. Len(seen \o page.rows) \in 0..n /\ seen \o page.rows = SubSeq(s, 1, Len(seen \o page.rows))
    BY <1>5, <1>8
  <1>11. ~page.truncated => seen \o page.rows = s
    BY <1>6, <1>8, <1>9
  <1> QED BY <1>10, <1>11 DEF s, page

\* The answers of execute_sql, mode by mode.
LEMMA SqlIsExact ==
  ASSUME CallInv, todo # <<>>, Head(todo) = "format", Tool = "execute_sql"
  PROVE  LET a == SqlAnswer(got.table, call.p, trace.redact)
             shape == Shape(call.p)
         IN  /\ shape.mode = "columns" => a.rows = <<>> /\ a.count = trace.rows
             /\ shape.mode # "columns" /\ shape.limit # None => IsExact(a, shape.limit)
             /\ shape.mode # "columns" /\ shape.limit = None =>
                  a.rows = Shown(Rows) /\ a.count \in {None, trace.rows}
PROOF
  <1> DEFINE a == SqlAnswer(got.table, call.p, trace.redact)
             p == call.p
             shape == Shape(p)
             l == shape.limit
             n == trace.rows
             t == got.table
             active == ShapeActive(p, trace.redact)
  <1>1. /\ p \in ParamSet /\ ShapeAllowed(p) /\ t = Fetched /\ Fetched.ok /\ Bound = l
        /\ trace \in Traces /\ n \in Nat /\ MaxRows \in Nat
    BY FoundOut, TracesAre, RowsAssumption DEF CallInv, Bound
  <1>2. Tool \notin Limited
    BY Names
  <1>3. l = None => t = Table(Shown(Rows), n, FALSE)
    BY <1>1, <1>2, FetchedIs
  <1>4. l # None => l \in 0..MaxRows /\ t = Table(SubSeq(Shown(Rows), 1, Smaller(l, n)), n, l < n)
    BY <1>1, <1>2, FetchedIs
  <1>5. /\ p.columns_only => shape.mode = "columns" /\ l = 0
        /\ ~p.columns_only /\ p.summary => shape.mode = "summary" /\ l # None
        /\ ~p.columns_only /\ ~p.summary => shape.mode = "rows" /\ (l = None <=> RowLimit(p) = None)
    BY <1>1, ShapesAre
  <1>6. p.columns_only \in BOOLEAN /\ p.summary \in BOOLEAN
    BY <1>1 DEF ParamSet
  <1>7. ~active => ~p.columns_only /\ ~p.summary /\ l = None
    BY <1>5 DEF ShapeActive
  <1>8. ~active => a = Answer(t.rows, None, FALSE)
    BY DEF SqlAnswer
  <1>9. active /\ shape.mode = "columns" => a = Answer(<<>>, t.count, FALSE)
    BY DEF SqlAnswer
  <1>10. active /\ (shape.mode = "summary" \/ (shape.mode = "rows" /\ l # None)) =>
           a = Answer(SubSeq(t.rows, 1, Smaller(l, Len(t.rows))), t.count, t.truncated \/ t.count > l)
    BY DEF SqlAnswer
  <1>11. active /\ shape.mode = "rows" /\ l = None => a = Answer(t.rows, t.count, FALSE)
    BY DEF SqlAnswer
  <1> HIDE DEF a, shape, l, t, active, n
  <1>12. CASE shape.mode = "columns"
    <2>1. active /\ l = 0 /\ None # 0
      BY <1>5, <1>6, <1>7, <1>12, RowsAssumption
    <2>2. a.rows = <<>> /\ a.count = n
      BY <1>4, <1>9, <1>12, <2>1 DEF Answer, Table
    <2> QED BY <1>12, <2>2 DEF a, shape, n
  <1>13. CASE shape.mode # "columns" /\ l = None
    <2>1. shape.mode = "rows" /\ t = Table(Shown(Rows), n, FALSE)
      BY <1>3, <1>5, <1>6, <1>13
    <2>2. a.rows = Shown(Rows) /\ a.count \in {None, n}
      <3>1. CASE active
        BY <1>11, <1>13, <2>1, <3>1 DEF Answer, Table
      <3>2. CASE ~active
        BY <1>8, <2>1, <3>2 DEF Answer, Table
      <3> QED BY <3>1, <3>2
    <2> QED BY <1>13, <2>2 DEF a, shape, n, l
  <1>14. CASE shape.mode # "columns" /\ l # None
    <2> DEFINE k == Smaller(l, n)
    <2>1. active /\ (shape.mode = "summary" \/ (shape.mode = "rows" /\ l # None))
      BY <1>5, <1>6, <1>7, <1>14
    <2>2. l \in 0..MaxRows /\ t.rows = SubSeq(Shown(Rows), 1, k) /\ t.count = n /\ (t.truncated <=> l < n)
      <3> DEFINE cut == l < n
      <3>1. l \in 0..MaxRows /\ t = Table(SubSeq(Shown(Rows), 1, k), n, cut)
        BY <1>4, <1>14
      <3> HIDE DEF cut, k
      <3>2. t.rows = SubSeq(Shown(Rows), 1, k) /\ t.count = n /\ t.truncated = cut
        BY <3>1 DEF Table
      <3> QED BY <3>1, <3>2 DEF cut
    <2>3. k \in 0..n /\ (k < n <=> l < n) /\ l \in Nat /\ Smaller(l, k) = k
      BY <1>1, <2>2 DEF Smaller
    <2>4. SubSeq(t.rows, 1, k) = SubSeq(Shown(Rows), 1, k) /\ Len(SubSeq(Shown(Rows), 1, k)) = k
      <3> HIDE DEF k
      <3> QED BY <1>1, <2>2, <2>3, FirstRows DEF n
    <2>5. Smaller(l, Len(t.rows)) = k
      BY <2>2, <2>3, <2>4
    <2> DEFINE over == t.truncated \/ t.count > l
    <2>6. a = Answer(SubSeq(t.rows, 1, k), t.count, over)
      <3>1. a = Answer(SubSeq(t.rows, 1, Smaller(l, Len(t.rows))), t.count, over)
        BY <1>10, <2>1
      <3> HIDE DEF k, over
      <3> QED BY <2>5, <3>1
    <2>7. over <=> n > k
      BY <1>1, <2>2, <2>3
    <2> HIDE DEF k, over
    <2>8. a.rows = SubSeq(t.rows, 1, k) /\ a.count = n /\ (a.truncated <=> over)
      BY <2>2, <2>6 DEF Answer
    <2>9. a.rows = SubSeq(Shown(Rows), 1, k) /\ a.count = n /\ (a.truncated <=> n > Len(a.rows))
      BY <2>4, <2>7, <2>8
    <2> QED BY <1>14, <2>9 DEF a, shape, n, l, k, IsExact
  <1> QED BY <1>12, <1>13, <1>14

LEMMA FormatStep ==
  ASSUME CallInv, AnsInv, Format
  PROVE  CallInv' /\ AnsInv'
PROOF
  <1>1. todo # <<>> /\ Head(todo) = "format" /\ todo' = <<>> /\ got' = Nothing /\ answer' = Formatted
        /\ trace' = trace /\ call' = call
    BY DEF Format, At
  <1>2. /\ Tool \in ToolNames /\ Tool # None
        /\ Tool' = Tool /\ Rows' = Rows /\ Shown(Rows)' = Shown(Rows) /\ Groups' = Groups
        /\ RecommendedTools(Profile(trace))' = RecommendedTools(Profile(trace))
    BY <1>1, FoundOut DEF Tool, Rows, Groups
  <1>3. Formatted.status = "ok" /\ Formatted.why = None /\ Formatted.hints = {}
    <2>1. PICK rows, count, truncated : Formatted = Answer(rows, count, truncated)
      BY DEF Formatted, SqlAnswer, PageAnswer, CatalogAnswer, LimitedAnswer
    <2> QED BY <2>1 DEF Answer
  <1>4. /\ Len(seen') \in 0..trace.rows /\ seen' = SubSeq(Shown(Rows), 1, Len(seen'))
        /\ Tool = Threads /\ ~answer'.truncated => seen' = Shown(Rows)
    <2>1. CASE Tool = Threads
      <3>1. answer' = PageAnswer(got.table, call.p.offset, got.count)
        BY <1>1, <2>1 DEF Formatted, Threads
      <3>2. seen' = seen \o answer'.rows
        BY <2>1 DEF Format, Threads
      <3> QED BY <1>1, <2>1, <3>1, <3>2, PageIsNext
    <2>2. CASE Tool # Threads
      BY <2>2 DEF Format, Threads, CallInv
    <2> QED BY <2>1, <2>2
  <1>5. advice' \in {{}, RecommendedTools(Profile(trace))}
    BY <1>1, FoundOut DEF Format, CallInv
  <1>6. CallInv'
    <2>1. GotIsRecord(got)'
      BY <1>1 DEF Nothing, GotIsRecord
    <2>2. (trace \in Traces /\ Tool \in ToolNames \cup {None} /\ call.p \in ParamSet)'
          /\ (Tool # Threads => call.p.offset = 0)' /\ (Tool # None)'
      BY <1>1, <1>2 DEF CallInv
    <2>3. (Len(seen) \in 0..trace.rows /\ seen = SubSeq(Shown(Rows), 1, Len(seen)))'
      BY <1>1, <1>2, <1>4
    <2>4. (advice \in {{}, RecommendedTools(Profile(trace))})'
      BY <1>2, <1>5
    <2>5. (todo = <<>> /\ todo \in Seq(StepNames))'
      BY <1>1, EmptySeq
    <2> QED BY <2>1, <2>2, <2>3, <2>4, <2>5 DEF CallInv
  <1>7. AnswersExact'
    <2>1. ASSUME Tool \in Limited \ {Threads} PROVE Exact(ToolLimit(call.p.limit).value)'
      <3>1. answer' = LimitedAnswer(got.table, got.limit, got.count)
        BY <1>1, <2>1, Names DEF Formatted, Threads
      <3>2. IsExact(answer', ToolLimit(call.p.limit).value)
        BY <1>1, <2>1, <3>1, LimitedIsExact
      <3> QED BY <1>1, <1>2, <3>2 DEF IsExact, Exact
    <2>2. ASSUME Tool \in {"list_tables", "list_processes"} PROVE answer'.rows = Shown(Rows)
      <3>1. Tool \notin Limited /\ got.table = Fetched /\ Fetched.ok /\ Tool # "execute_sql"
        BY <1>1, <2>2, FoundOut, Names
      <3>2. Fetched = Table(Shown(Rows), trace.rows, FALSE)
        BY <1>1, <3>1, FetchedIs
      <3>3. answer' = Answer(got.table.rows, None, FALSE)
        BY <1>1, <2>2 DEF Formatted
      <3> QED BY <3>1, <3>2, <3>3 DEF Answer, Table
    <2>3. ASSUME Tool = "execute_sql"
          PROVE  /\ Shape(call.p).mode = "columns" => answer'.rows = <<>> /\ answer'.count = trace.rows
                 /\ Shape(call.p).mode # "columns" /\ Shape(call.p).limit # None => Exact(Shape(call.p).limit)'
                 /\ Shape(call.p).mode # "columns" /\ Shape(call.p).limit = None =>
                      answer'.rows = Shown(Rows) /\ answer'.count \in {None, trace.rows}
      <3>1. answer' = SqlAnswer(got.table, call.p, trace.redact)
        BY <1>1, <2>3 DEF Formatted
      <3>2. Shape(call.p).mode # "columns" /\ Shape(call.p).limit # None => IsExact(answer', Shape(call.p).limit)
        BY <1>1, <2>3, <3>1, SqlIsExact
      <3>3. \A limit : IsExact(answer', limit) => Exact(limit)'
        BY <1>1, <1>2 DEF IsExact, Exact
      <3> QED BY <1>1, <2>3, <3>1, <3>2, <3>3, SqlIsExact
    <2>4. (Answered(Limited \ {Threads}) => Exact(ToolLimit(call.p.limit).value))'
      BY <1>1, <1>2, <2>1 DEF Answered
    <2>5. (Answered({"list_tables", "list_processes"}) => answer.rows = Shown(Rows))'
      BY <1>1, <1>2, <2>2 DEF Answered
    <2>6. (Answered({"execute_sql"}) =>
             CASE Shape(call.p).mode = "columns" -> answer.rows = <<>> /\ answer.count = trace.rows
               [] Shape(call.p).mode # "columns" /\ Shape(call.p).limit # None -> Exact(Shape(call.p).limit)
               [] OTHER -> answer.rows = Shown(Rows) /\ answer.count \in {None, trace.rows})'
      BY <1>1, <1>2, <2>3 DEF Answered
    <2> QED BY <2>4, <2>5, <2>6 DEF AnswersExact, Threads
  <1>8. OwnSqlWorks'
    BY <1>1, <1>3 DEF OwnSqlWorks
  <1>9. PagesCover'
    BY <1>1, <1>2, <1>4 DEF PagesCover, Answered, Threads
  <1>10. AdviceFits'
    BY <1>1, <1>3, Names DEF AdviceFits
  <1> QED BY <1>6, <1>7, <1>8, <1>9, <1>10 DEF AnsInv
-----------------------------------------------------------------------------
\* Every step of a handler keeps what the calls rely on.
LEMMA EveryStep ==
  ASSUME CallInv, AnsInv, [Next]_vars
  PROVE  CallInv' /\ AnsInv'
PROOF
  <1>1. ASSUME NEW tool \in ToolNames, NEW p \in Params(tool), Begin(tool, p) PROVE CallInv' /\ AnsInv'
    BY <1>1, BeginStep
  <1>2. CASE Return
    BY <1>2, ReturnStep
  <1>3. CASE CheckShape
    BY <1>3, ShapeStep
  <1>4. CASE CheckSelector \/ CheckText \/ Build
    BY <1>4, OtherChecks
  <1>5. CASE CheckLimit
    BY <1>5, LimitStep
  <1>6. CASE Open
    BY <1>6, OpenStep
  <1>7. CASE Ask
    BY <1>7, AskStep
  <1>8. CASE Preflight
    BY <1>8, PreflightStep
  <1>9. CASE Missing
    BY <1>9, MissingStep
  <1>10. CASE CountGroups
    BY <1>10, GroupsStep
  <1>11. CASE Summarize
    BY <1>11, SummarizeStep
  <1>12. CASE GetRows
    BY <1>12, RowsStep
  <1>13. CASE GetCount
    BY <1>13, CountStep
  <1>14. CASE Format
    BY <1>14, FormatStep
  <1>15. CASE UNCHANGED vars
    <2>1. /\ trace' = trace /\ call' = call /\ todo' = todo /\ got' = got /\ answer' = answer
          /\ advice' = advice /\ seen' = seen
      BY <1>15 DEF vars
    <2>2. /\ Tool' = Tool /\ Rows' = Rows /\ Shown(Rows)' = Shown(Rows) /\ Groups' = Groups
          /\ DoneSteps' = DoneSteps /\ Bound' = Bound /\ Fetched' = Fetched /\ Steps[Tool]' = Steps[Tool]
          /\ RecommendedTools(Profile(trace))' = RecommendedTools(Profile(trace))
      BY <2>1 DEF Tool, Rows, Groups, DoneSteps, Bound, Fetched, AskedFor, BoundSql
    <2>3. \A step : Done(step)' <=> Done(step)
      BY <2>2 DEF Done
    <2>4. GotInv' <=> GotInv
      BY <2>1, <2>2, <2>3 DEF GotInv
    <2>5. CallInv'
      BY <2>1, <2>2, <2>4 DEF CallInv
    <2>6. AnsInv'
      BY <2>1, <2>2 DEF AnsInv, AnswersExact, OwnSqlWorks, PagesCover, AdviceFits, Answered, Exact, TurnsDown
    <2> QED BY <2>5, <2>6
  <1> QED BY <1>1, <1>2, <1>3, <1>4, <1>5, <1>6, <1>7, <1>8, <1>9, <1>10, <1>11, <1>12, <1>13, <1>14, <1>15 DEF Next

\* What every call has found out so far is what its steps were to find out, and every
\* answer given is right: the inductive invariant of the tool handlers (server/mod.rs).
THEOREM CallsInvariant == Spec => [](CallInv /\ AnsInv)
PROOF
  <1>1. Init => CallInv /\ AnsInv
    BY InitIsFine
  <1>2. (CallInv /\ AnsInv) /\ [Next]_vars => (CallInv /\ AnsInv)'
    BY EveryStep
  <1> QED BY <1>1, <1>2, PTL DEF Spec

\* mod.rs, response.rs: whatever the batches of the reply, the cut replies and the limits, an
\* answer has the first rows of the query, its count, and "truncated" when rows are missing.
THEOREM AnswersAreExact == Spec => []AnswersExact
PROOF
  <1>1. CallInv /\ AnsInv => AnswersExact
    BY DEF AnsInv
  <1> QED BY <1>1, CallsInvariant, PTL

\* response.rs: a tool with a limit of its own never fails for the cap on rows (but threads of
\* more processes than the cap) or for the SQL it counts with.
THEOREM OwnSqlAlwaysWorks == Spec => []OwnSqlWorks
PROOF
  <1>1. CallInv /\ AnsInv => OwnSqlWorks
    BY DEF AnsInv
  <1> QED BY <1>1, CallsInvariant, PTL

\* list_threads_in_process: the pages up to the one that is not truncated have every thread once.
THEOREM PagesCoverAll == Spec => []PagesCover
PROOF
  <1>1. CallInv /\ AnsInv => PagesCover
    BY DEF AnsInv
  <1> QED BY <1>1, CallsInvariant, PTL

\* trace_summary.rs, errors.rs: no recommended tool turns the trace down, and of the tools an
\* error names one does not need what was missing.
THEOREM AdviceAlwaysFits == Spec => []AdviceFits
PROOF
  <1>1. CallInv /\ AnsInv => AdviceFits
    BY DEF AnsInv
  <1> QED BY <1>1, CallsInvariant, PTL
-----------------------------------------------------------------------------
\* The rest of the types: what is noted of limits and counts is one or none.
NotesTyped(g) == g.limit \in {None} \cup 0..MaxRows /\ g.count \in {None} \cup Nat

RestTyped == /\ loaded \in BOOLEAN /\ NotesTyped(got)
             /\ answer.status \in {"none", "ok", "error"} /\ faults \in 0..MaxFaults

\* A step of a handler either ends the call or goes on with notes of the right types.
LEMMA GoTyped ==
  ASSUME RestTyped, NEW g, Go(g), NotesTyped(g), faults' \in 0..MaxFaults
  PROVE  RestTyped'
BY DEF Go, RestTyped, NotesTyped

LEMMA EndTyped ==
  ASSUME RestTyped, NEW why, NEW hints, End(Refusal(why, hints)), faults' \in 0..MaxFaults
  PROVE  RestTyped'
BY DEF End, RestTyped, NotesTyped, Nothing, Refusal

LEMMA LimitNoted ==
  ASSUME GotIsRecord(got), NotesTyped(got), NEW x
  PROVE  /\ x \in {None} \cup 0..MaxRows => NotesTyped([got EXCEPT !.limit = x])
         /\ x \in {None} \cup Nat => NotesTyped([got EXCEPT !.count = x])
         /\ NotesTyped([got EXCEPT !.groups = x]) /\ NotesTyped([got EXCEPT !.summary = x])
         /\ NotesTyped([got EXCEPT !.table = x])
BY DEF GotIsRecord, NotesTyped

LEMMA RestKept ==
  ASSUME CallInv, RestTyped, [Next]_vars
  PROVE  RestTyped'
PROOF
  <1>0. GotIsRecord(got) /\ NotesTyped(got) /\ call.p \in ParamSet /\ MaxRows \in Nat
    BY RowsAssumption DEF CallInv, RestTyped
  <1>1. Next => faults' \in 0..MaxFaults
    <2>1. Next => Fault \/ faults' = faults
      BY DEF Next, Begin, Return, CheckShape, CheckSelector, CheckText, CheckLimit, Build, Check, Open, Ask,
             Preflight, Missing, CountGroups, Summarize, GetRows, GetCount, Format, NoFault
    <2>2. faults \in 0..MaxFaults /\ MaxFaults \in Nat
      BY TraceRowsAssumption DEF RestTyped
    <2> QED BY <2>1, <2>2 DEF Fault
  <1>2. ASSUME NEW tool \in ToolNames, NEW p \in Params(tool), Begin(tool, p), Next PROVE RestTyped'
    BY <1>1, <1>2 DEF Begin, RestTyped
  <1>3. CASE Return /\ Next
    BY <1>1, <1>3 DEF Return, RestTyped, NoAnswer, Answer
  <1>4. ASSUME NEW allowed \in BOOLEAN, NEW g, Check(allowed, g), allowed => NotesTyped(g), Next PROVE RestTyped'
    BY <1>1, <1>4, GoTyped, EndTyped DEF Check
  <1>5. CASE CheckShape /\ Next
    <2>1. ShapeAllowed(call.p) => Shape(call.p).limit \in {None} \cup 0..MaxRows
      BY <1>0, ShapesAre
    <2>2. ShapeAllowed(call.p) \in BOOLEAN
      BY DEF ShapeAllowed, TextAllowed
    <2> QED BY <1>0, <1>4, <1>5, <2>1, <2>2, LimitNoted DEF CheckShape
  <1>6. CASE (CheckSelector \/ CheckText \/ Build) /\ Next
    <2>1. call.p.good \in BOOLEAN /\ TextAllowed(call.p.text) \in BOOLEAN
      BY <1>0 DEF ParamSet, TextAllowed
    <2> QED BY <1>0, <1>4, <1>6, <2>1 DEF CheckSelector, CheckText, Build
  <1>7. CASE CheckLimit /\ Next
    <2>1. CASE Tool = "list_stdlib_modules"
      <3>1. (call.p.good /\ call.p.limit # 0) \in BOOLEAN
        BY <1>0 DEF ParamSet
      <3> QED BY <1>0, <1>4, <1>7, <2>1, <3>1 DEF CheckLimit
    <2>2. CASE Tool # "list_stdlib_modules"
      <3>1. ToolLimit(call.p.limit).ok \in BOOLEAN
        BY DEF ToolLimit, Good, Bad
      <3>2. ToolLimit(call.p.limit).ok => ToolLimit(call.p.limit).value \in 0..MaxRows
        BY <1>0, LimitsAre
      <3> QED BY <1>0, <1>4, <1>7, <2>2, <3>1, <3>2, LimitNoted DEF CheckLimit
    <2> QED BY <2>1, <2>2
  <1>8. CASE (Open \/ Ask \/ Preflight \/ Missing) /\ Next
    BY <1>0, <1>1, <1>8, GoTyped, EndTyped DEF Open, Ask, Preflight, Missing
  <1>9. CASE CountGroups /\ Next
    BY <1>0, <1>1, <1>9, GoTyped, EndTyped, LimitNoted DEF CountGroups
  <1>10. CASE Summarize /\ Next
    BY <1>0, <1>1, <1>10, GoTyped, LimitNoted DEF Summarize, SummaryFailure
  <1>11. CASE GetRows /\ Next
    <2>1. ASSUME NEW reply, Received(reply) PROVE RestTyped'
      BY <1>0, <1>1, <1>11, <2>1, GoTyped, EndTyped, LimitNoted DEF Received
    <2> QED BY <1>1, <1>11, <2>1, EndTyped DEF GetRows
  <1>12. CASE GetCount /\ Next
    <2>1. CountRows.ok => CountRows.value \in Nat
      <3>1. trace.rows \in Nat
        BY TracesAre DEF CallInv
      <3> QED BY <3>1 DEF CountRows, RowsOfTable, Good, Bad
    <2> QED BY <1>0, <1>1, <1>12, <2>1, GoTyped, EndTyped, LimitNoted DEF GetCount
  <1>13. CASE Format /\ Next
    <2>1. Formatted.status = "ok"
      BY DEF Formatted, SqlAnswer, Answer, PageAnswer, CatalogAnswer, LimitedAnswer
    <2>2. NotesTyped(Nothing)
      BY DEF NotesTyped, Nothing
    <2>3. (loaded \/ Tool = "load_trace") \in BOOLEAN
      OBVIOUS
    <2>4. /\ got' = Nothing /\ answer' = Formatted /\ loaded' = (loaded \/ Tool = "load_trace")
      BY <1>13 DEF Format
    <2> QED BY <1>1, <1>13, <2>1, <2>2, <2>3, <2>4 DEF RestTyped, NotesTyped
  <1>14. CASE UNCHANGED vars
    BY <1>14 DEF vars, RestTyped, NotesTyped
  <1> QED BY <1>2, <1>3, <1>5, <1>6, <1>7, <1>8, <1>9, <1>10, <1>11, <1>12, <1>13, <1>14 DEF Next

\* The last elements of a sequence are a suffix of it.
LEMMA LastAreSuffix ==
  ASSUME NEW S, NEW s \in Seq(S), NEW t \in Seq(S), Len(t) <= Len(s),
         t = SubSeq(s, Len(s) - Len(t) + 1, Len(s))
  PROVE  IsSuffix(t, s)
PROOF
  <1> DEFINE n == Len(s)
             m == Len(t)
             rs == [i \in 1..n |-> s[(n - i) + 1]]
             rt == [i \in 1..m |-> t[(m - i) + 1]]
  <1>1. n \in Nat /\ m \in Nat /\ m <= n
    BY LenProperties
  <1>2. \A i \in 1..n : s[i] \in S
    BY ElementOfSeq
  <1>3. \A i \in 1..m : t[i] \in S
    BY ElementOfSeq
  <1>4. \A i \in 1..m : t[i] = s[n - m + i]
    <2> DEFINE a == n - m + 1
    <2>1. a \in Int /\ n \in Int /\ n - a + 1 = m /\ \A i \in a..n : i \in 1..n
      BY <1>1
    <2>2. \A i \in 1 .. n - a + 1 : SubSeq(s, a, n)[i] = s[a + i - 1]
      <3> HIDE DEF n, a
      <3> QED BY <1>2, <2>1, SubSeqProperties
    <2>3. \A i \in 1..m : a + i - 1 = n - m + i
      BY <1>1
    <2>4. t = SubSeq(s, a, n)
      OBVIOUS
    <2> HIDE DEF n, m, a
    <2> QED BY <2>1, <2>2, <2>3, <2>4
  <1>5. Reverse(s) = rs /\ Reverse(t) = rt
    BY DEF Reverse
  <1> HIDE DEF n, m
  <1>6. rs \in Seq(S) /\ Len(rs) = n /\ rt \in Seq(S) /\ Len(rt) = m
    <2>1. \A i \in 1..n : s[(n - i) + 1] \in S
      BY <1>1, <1>2
    <2>2. \A i \in 1..m : t[(m - i) + 1] \in S
      BY <1>1, <1>3
    <2> QED BY <1>1, <2>1, <2>2
  <1>7. \A i \in 1..m : rt[i] = rs[i]
    <2>1. ASSUME NEW i \in 1..m PROVE rt[i] = rs[i]
      <3>1. (m - i) + 1 \in 1..m /\ n - m + ((m - i) + 1) = (n - i) + 1 /\ i \in 1..n
        BY <1>1
      <3> QED BY <1>4, <3>1
    <2> QED BY <2>1
  <1> HIDE DEF rs, rt
  <1>8. SubSeq(rt, 1, m) = rt
    BY <1>6, SubSeqFull
  <1>9. SubSeq(rs, 1, m) = rt
    <2>1. \A i \in 1..m : rs[i] \in S
      BY <1>1, <1>6, ElementOfSeq
    <2>2. m - 1 + 1 = m /\ \A i \in 1..m : 1 + i - 1 = i
      BY <1>1
    <2>3. /\ SubSeq(rs, 1, m) \in Seq(S) /\ Len(SubSeq(rs, 1, m)) = m
          /\ \A i \in 1..m : SubSeq(rs, 1, m)[i] = rs[i]
      <3>1. /\ SubSeq(rs, 1, m) \in Seq(S) /\ Len(SubSeq(rs, 1, m)) = IF 1 <= m THEN m - 1 + 1 ELSE 0
            /\ \A i \in 1 .. m - 1 + 1 : SubSeq(rs, 1, m)[i] = rs[1 + i - 1]
        BY <1>1, <2>1, SubSeqProperties
      <3> QED BY <1>1, <2>2, <3>1
    <2> QED BY <1>6, <1>7, <2>3, SeqEqual
  <1> QED BY <1>1, <1>5, <1>6, <1>8, <1>9 DEF IsSuffix, IsPrefix

\* mod.rs: every variable has its type; a handler always stands somewhere in its own steps,
\* and the pages put together are always the first rows of the query.
THEOREM CallsTypeCorrect == Spec => []TypeOK
PROOF
  <1>1. Init => RestTyped
    <2> SUFFICES ASSUME Init PROVE RestTyped
      OBVIOUS
    <2>1. NotesTyped(got)
      BY DEF Init, NotesTyped, Nothing
    <2>2. answer.status = "none"
      BY DEF Init, NoAnswer, Answer
    <2>3. faults \in 0..MaxFaults
      BY TraceRowsAssumption DEF Init
    <2> QED BY <2>1, <2>2, <2>3 DEF Init, RestTyped
  <1>2. CallInv /\ RestTyped /\ [Next]_vars => RestTyped'
    BY RestKept
  <1>3. CallInv /\ RestTyped => TypeOK
    <2> SUFFICES ASSUME CallInv, RestTyped PROVE TypeOK
      OBVIOUS
    <2>1. ASSUME todo # <<>> PROVE Tool # None /\ IsSuffix(todo, Steps[Tool]) /\ answer = NoAnswer
      <3>1. Tool \in ToolNames /\ Tool # None /\ answer = NoAnswer
        BY <2>1, StepIsUp, Names DEF CallInv
      <3>2. Steps[Tool] \in Seq(StepNames) /\ todo \in Seq(StepNames) /\ Len(todo) <= Len(Steps[Tool])
        BY <2>1, <3>1, StepsOrdered DEF CallInv
      <3>3. todo = SubSeq(Steps[Tool], Len(Steps[Tool]) - Len(todo) + 1, Len(Steps[Tool]))
        BY <2>1 DEF CallInv, DoneSteps
      <3> QED BY <3>1, <3>2, <3>3, LastAreSuffix
    <2>2. IsPrefix(seen, Shown(Rows))
      <3> DEFINE rows == Shown(Rows)
                 n == Len(seen)
      <3>1. rows \in Seq(Pairs) /\ Len(rows) = trace.rows /\ trace.rows \in Nat
        BY RowsTyped, TracesAre DEF CallInv
      <3>2. n \in 0..trace.rows /\ seen = SubSeq(rows, 1, n)
        BY DEF CallInv
      <3>3. seen \in Seq(Pairs) /\ n <= Len(rows)
        <4>1. \A i \in 1..n : rows[i] \in Pairs
          <5> HIDE DEF rows, n
          <5> QED BY <3>1, <3>2, ElementOfSeq
        <4> HIDE DEF rows, n
        <4> QED BY <3>1, <3>2, <4>1, SubSeqProperties
      <3>4. SubSeq(seen, 1, Len(seen)) = seen
        BY <3>3, SubSeqFull
      <3> QED BY <3>2, <3>3, <3>4 DEF IsPrefix
    <2>3. advice \subseteq ToolNames \cup {"list_table_structure"}
      <3>1. \A profile : RecommendedTools(profile) \subseteq ToolNames \cup {"list_table_structure"}
        BY DEF RecommendedTools, ToolNames, Limited, Chrome, Summaries, Hotspots
      <3> QED BY <3>1 DEF CallInv
    <2> QED BY <2>1, <2>2, <2>3 DEF TypeOK, CallInv, RestTyped, NotesTyped
  <1>4. (CallInv /\ AnsInv) /\ RestTyped => TypeOK
    BY <1>3
  <1> QED BY <1>1, <1>2, <1>4, CallsInvariant, PTL DEF Spec
=============================================================================
