---------------------------- MODULE AnalysesProofs ----------------------------
(***************************************************************************)
(* The analysis tools, for traces of any length: whatever slices and page  *)
(* loads are recorded, and whatever the depths of the walks.               *)
(*                                                                         *)
(* What the proofs need of a trace is TraceInv: its slices are in order,   *)
(* and those of a track nest.  The queries are then compared with what     *)
(* they are to find.  The window of a query is the set of instants that    *)
(* were asked about, so that the overlap of a slice is the number of those *)
(* at which it was running.  The recursions, and the sums and the first    *)
(* rows of a set, are solved by induction: on the depth, on the place of a *)
(* slice, and on the elements of the set.                                  *)
(***************************************************************************)
EXTENDS Analyses, FiniteSetTheorems, SequenceTheorems, WellFoundedInduction, TLAPS

\* A set of naturals has a least element.
LEMMA Least ==
  ASSUME NEW S \in SUBSET Nat, S # {}
  PROVE  \E n \in S : \A m \in S : n <= m
PROOF
  <1> DEFINE R == StrictSubsetOrdering(Nat)
             T == {0..n : n \in S}
  <1>1. IsWellFoundedOn(R, FiniteSubsetsOf(Nat))
    BY FS_StrictSubsetOrderingWellFounded
  <1>2. T \subseteq FiniteSubsetsOf(Nat) /\ T # {}
    <2>1. \A n \in Nat : IsFiniteSet(0..n) /\ 0..n \subseteq Nat
      BY FS_Interval
    <2> QED BY <2>1 DEF FiniteSubsetsOf
  <1>3. PICK t \in T : \A u \in T : ~(<<u, t>> \in R)
    <2> HIDE DEF R, T
    <2> QED BY <1>1, <1>2, WFMin
  <1>4. PICK n \in S : t = 0..n
    OBVIOUS
  <1>5. ASSUME NEW m \in S, ~(n <= m) PROVE FALSE
    <2>1. 0..m \subseteq 0..n /\ n \in 0..n /\ n \notin 0..m /\ 0..m \in T
      BY <1>5
    <2>2. 0..m # 0..n /\ 0..n \in SUBSET Nat /\ 0..m \in SUBSET Nat
      BY <2>1
    <2>3. <<0..m, 0..n>> \in R
      BY <2>1, <2>2 DEF StrictSubsetOrdering
    <2> QED BY <2>3, <2>1, <1>3, <1>4
  <1> QED BY <1>4, <1>5

\* Induction on the naturals, for sets.
LEMMA Inductive ==
  ASSUME NEW S, 0 \in S, \A n \in Nat : n \in S => n + 1 \in S
  PROVE  Nat \subseteq S
PROOF
  <1> SUFFICES ASSUME Nat \ S # {} PROVE FALSE
    OBVIOUS
  <1>1. PICK n \in Nat \ S : \A m \in Nat \ S : n <= m
    BY Least
  <1>2. n # 0 /\ n - 1 \in Nat /\ n - 1 \in S
    BY <1>1
  <1> QED BY <1>1, <1>2

\* Induction on the subsets of a finite set.
LEMMA SetInduction ==
  ASSUME NEW S, IsFiniteSet(S), NEW Q, {} \in Q,
         \A s \in SUBSET S : \A x \in S \ s : s \in Q => s \cup {x} \in Q
  PROVE  S \in Q
PROOF
  <1> DEFINE T == {k \in Nat : \A s \in SUBSET S : Cardinality(s) = k => s \in Q}
  <1>1. \A s \in SUBSET S : IsFiniteSet(s) /\ Cardinality(s) \in Nat
    BY FS_Subset, FS_CardinalityType
  <1>2. 0 \in T
    BY <1>1, FS_EmptySet
  <1>3. ASSUME NEW k \in Nat, k \in T PROVE k + 1 \in T
    <2>1. ASSUME NEW s \in SUBSET S, Cardinality(s) = k + 1 PROVE s \in Q
      <3>1. s # {}
        <4>1. k + 1 # 0
          OBVIOUS
        <4> QED BY <2>1, <4>1, FS_EmptySet
      <3>2. PICK x \in s : TRUE
        BY <3>1
      <3>3. Cardinality(s \ {x}) = k
        <4>1. Cardinality(s \ {x}) = Cardinality(s) - 1
          BY <1>1, <3>2, FS_RemoveElement
        <4> QED BY <2>1, <4>1
      <3>4. s \ {x} \in SUBSET S /\ x \in S \ (s \ {x}) /\ s = (s \ {x}) \cup {x}
        BY <3>2
      <3>5. s \ {x} \in Q
        BY <1>3, <3>3, <3>4
      <3> QED BY <3>4, <3>5
    <2>2. k + 1 \in Nat
      OBVIOUS
    <2> QED BY <2>1, <2>2
  <1>4. Nat \subseteq T
    <2> HIDE DEF T
    <2> QED BY <1>2, <1>3, Inductive
  <1> QED BY <1>1, <1>4

\* Sums, element by element in whatever order.
Adds(total, f, S) ==
  /\ total = [s \in SUBSET S |-> total[s]]
  /\ total[{}] = 0
  /\ \A s \in SUBSET S : total[s] \in Int /\ \A x \in s : total[s] = f[x] + total[s \ {x}]

LEMMA AddsExists ==
  ASSUME NEW S, IsFiniteSet(S), NEW f, \A x \in S : f[x] \in Int
  PROVE  \E total : Adds(total, f, S)
PROOF
  <1> DEFINE Q == {s \in SUBSET S : \E total : Adds(total, f, s)}
  <1>1. {} \in Q
    <2> DEFINE total == [s \in SUBSET {} |-> 0]
    <2>1. Adds(total, f, {})
      BY DEF Adds
    <2> QED BY <2>1
  <1>2. ASSUME NEW s \in SUBSET S, NEW x \in S \ s, s \in Q PROVE s \cup {x} \in Q
    <2>1. PICK old : Adds(old, f, s)
      BY <1>2
    <2> DEFINE D == SUBSET (s \cup {x})
               new == [t \in D |-> IF x \in t THEN f[x] + old[t \ {x}] ELSE old[t]]
    <2>2. \A t \in D : t \ {x} \in SUBSET s /\ (x \notin t => t \in SUBSET s)
      OBVIOUS
    <2>3. \A t \in SUBSET s : old[t] \in Int /\ \A y \in t : old[t] = f[y] + old[t \ {y}]
      BY <2>1 DEF Adds
    <2>4. old[{}] = 0
      BY <2>1 DEF Adds
    <2>5. \A t \in D : new[t] = IF x \in t THEN f[x] + old[t \ {x}] ELSE old[t]
      OBVIOUS
    <2>6. new[{}] = 0
      BY <2>4, <2>5
    <2>7. ASSUME NEW t \in D PROVE new[t] \in Int
      BY <2>2, <2>3, <2>5
    <2>8. ASSUME NEW t \in D, NEW y \in t PROVE new[t] = f[y] + new[t \ {y}]
      <3>1. t \ {y} \in D /\ t \ {x} \in SUBSET s /\ f[x] \in Int /\ f[y] \in Int
        OBVIOUS
      <3>2. CASE y = x
        <4>1. new[t \ {x}] = old[t \ {x}]
          BY <2>5, <3>1, <3>2
        <4> QED BY <2>5, <3>2, <4>1
      <3>3. CASE y # x /\ x \in t
        <4>1. old[t \ {x}] = f[y] + old[(t \ {x}) \ {y}] /\ old[(t \ {x}) \ {y}] \in Int
          BY <2>3, <3>1, <3>3
        <4>2. (t \ {y}) \ {x} = (t \ {x}) \ {y} /\ x \in t \ {y}
          BY <3>3
        <4>3. new[t \ {y}] = f[x] + old[(t \ {x}) \ {y}]
          BY <2>5, <3>1, <4>2
        <4>4. new[t] = f[x] + old[t \ {x}]
          BY <2>5, <3>3
        <4> HIDE DEF new
        <4> QED BY <3>1, <4>1, <4>3, <4>4
      <3>4. CASE y # x /\ x \notin t
        <4>1. new[t] = old[t] /\ new[t \ {y}] = old[t \ {y}] /\ t \in SUBSET s
          BY <2>2, <2>5, <3>1, <3>4
        <4> QED BY <2>3, <4>1
      <3> QED BY <3>2, <3>3, <3>4
    <2>9. Adds(new, f, s \cup {x})
      <3>1. new = [t \in D |-> new[t]]
        OBVIOUS
      <3> HIDE DEF new
      <3> QED BY <2>6, <2>7, <2>8, <3>1 DEF Adds
    <2> HIDE DEF new
    <2> QED BY <2>9
  <1>3. S \in Q
    <2> HIDE DEF Q
    <2> QED BY <1>1, <1>2, SetInduction
  <1> QED BY <1>3

\* What adds up element by element is the sum.
LEMMA SumIs ==
  ASSUME NEW S, IsFiniteSet(S), NEW f, DOMAIN f = S, NEW total, Adds(total, f, S)
  PROVE  SumFunction(f) = total[S]
PROOF
  <1> DEFINE D == SUBSET S
             Folds(g) == g = [s \in D |-> IF s = {} THEN 0 ELSE f[CHOOSE x \in s : TRUE] + g[s \ {CHOOSE x \in s : TRUE}]]
             it == CHOOSE g : Folds(g)
  <1>1. SumFunction(f) = it[S]
    BY DEF SumFunction, SumFunctionOnSet, FoldFunctionOnSet, MapThenFoldSet
  <1>2. Folds(total)
    <2>1. ASSUME NEW s \in D, s # {}
          PROVE  total[s] = f[CHOOSE x \in s : TRUE] + total[s \ {CHOOSE x \in s : TRUE}]
      <3>1. (CHOOSE x \in s : TRUE) \in s
        BY <2>1
      <3> QED BY <3>1 DEF Adds
    <2>2. \A s \in D : total[s] = IF s = {} THEN 0 ELSE f[CHOOSE x \in s : TRUE] + total[s \ {CHOOSE x \in s : TRUE}]
      BY <2>1 DEF Adds
    <2>3. total = [s \in D |-> total[s]]
      BY DEF Adds
    <2> QED BY <2>2, <2>3
  <1>3. Folds(it)
    <2> HIDE DEF Folds
    <2> QED BY <1>2
  <1>4. it[{}] = 0 /\ \A s \in D : s # {} => it[s] = f[CHOOSE x \in s : TRUE] + it[s \ {CHOOSE x \in s : TRUE}]
    <2> HIDE DEF it
    <2>1. {} \in D
      OBVIOUS
    <2> QED BY <1>3, <2>1
  <1> DEFINE T == {k \in Nat : \A s \in D : Cardinality(s) = k => it[s] = total[s]}
  <1>5. \A s \in D : IsFiniteSet(s) /\ Cardinality(s) \in Nat
    BY FS_Subset, FS_CardinalityType
  <1> HIDE DEF it, Folds
  <1>6. 0 \in T
    BY <1>4, <1>5, FS_EmptySet DEF Adds
  <1>7. ASSUME NEW k \in Nat, k \in T PROVE k + 1 \in T
    <2>1. ASSUME NEW s \in D, Cardinality(s) = k + 1 PROVE it[s] = total[s]
      <3> DEFINE x == CHOOSE x \in s : TRUE
      <3>1. s # {}
        <4>1. k + 1 # 0
          OBVIOUS
        <4> QED BY <2>1, <4>1, FS_EmptySet
      <3>2. x \in s
        BY <3>1
      <3>3. it[s] = f[x] + it[s \ {x}]
        BY <1>4, <3>1
      <3> HIDE DEF x
      <3>4. s \ {x} \in D
        OBVIOUS
      <3>5. Cardinality(s \ {x}) = k
        <4>1. Cardinality(s \ {x}) = Cardinality(s) - 1
          BY <1>5, <3>2, FS_RemoveElement
        <4> QED BY <2>1, <4>1
      <3>6. it[s \ {x}] = total[s \ {x}]
        BY <1>7, <3>4, <3>5
      <3> QED BY <3>2, <3>3, <3>6 DEF Adds
    <2>2. k + 1 \in Nat
      OBVIOUS
    <2> QED BY <2>1, <2>2
  <1>8. Nat \subseteq T
    <2> HIDE DEF T
    <2> QED BY <1>6, <1>7, Inductive
  <1>9. S \in D /\ Cardinality(S) \in T
    <2> HIDE DEF T
    <2> QED BY <1>5, <1>8
  <1> QED BY <1>1, <1>9

\* The sum over a part of the domain.
SumOver(f, S) == SumFunction([x \in S |-> f[x]])

\* A sum is that of the others and the one that is left out.
LEMMA SumOverRules ==
  ASSUME NEW S, IsFiniteSet(S), NEW f, \A x \in S : f[x] \in Int
  PROVE  /\ SumOver(f, {}) = 0
         /\ SumOver(f, S) \in Int
         /\ \A x \in S : SumOver(f, S) = f[x] + SumOver(f, S \ {x})
PROOF
  <1>1. PICK total : Adds(total, f, S)
    BY AddsExists
  <1>2. ASSUME NEW s \in SUBSET S PROVE SumOver(f, s) = total[s]
    <2> DEFINE g == [x \in s |-> f[x]]
               part == [t \in SUBSET s |-> total[t]]
    <2>1. IsFiniteSet(s) /\ DOMAIN g = s
      BY FS_Subset
    <2>2. Adds(part, g, s)
      <3>1. \A t \in SUBSET s : t \in SUBSET S /\ part[t] = total[t] /\ \A x \in t : t \ {x} \in SUBSET s /\ g[x] = f[x]
        OBVIOUS
      <3>2. part = [t \in SUBSET s |-> part[t]] /\ {} \in SUBSET s
        OBVIOUS
      <3> HIDE DEF part, g
      <3> QED BY <1>1, <3>1, <3>2 DEF Adds
    <2>3. SumFunction(g) = part[s]
      <3> HIDE DEF g, part
      <3> QED BY <2>1, <2>2, SumIs
    <2> QED BY <2>3 DEF SumOver
  <1>3. {} \in SUBSET S /\ S \in SUBSET S /\ \A x \in S : S \ {x} \in SUBSET S
    OBVIOUS
  <1> QED BY <1>1, <1>2, <1>3 DEF Adds
-------------------------------------------------------------------------------
\* The largest and the smallest of some integers.
LEMMA Extremes ==
  ASSUME NEW S, IsFiniteSet(S), S \subseteq Int, S # {}
  PROVE  /\ Max(S) \in S /\ \A y \in S : Max(S) >= y
         /\ Min(S) \in S /\ \A y \in S : Min(S) <= y
PROOF
  <1> DEFINE Q == {s \in SUBSET S : s = {} \/ ((\E x \in s : \A y \in s : x >= y) /\ (\E x \in s : \A y \in s : x <= y))}
  <1>1. {} \in Q
    OBVIOUS
  <1>2. ASSUME NEW s \in SUBSET S, NEW x \in S \ s, s \in Q PROVE s \cup {x} \in Q
    <2>1. CASE s = {}
      <3>1. s \cup {x} = {x} /\ x >= x /\ x <= x
        BY <2>1
      <3> QED BY <3>1
    <2>2. CASE s # {}
      <3>1. PICK hi \in s : \A y \in s : hi >= y
        BY <2>2, <1>2
      <3>2. PICK lo \in s : \A y \in s : lo <= y
        BY <2>2, <1>2
      <3>3. \E z \in s \cup {x} : \A y \in s \cup {x} : z >= y
        <4>1. CASE hi >= x
          BY <3>1, <4>1
        <4>2. CASE x >= hi
          <5>1. \A y \in s : x >= y
            BY <3>1, <4>2
          <5> QED BY <5>1
        <4> QED BY <4>1, <4>2
      <3>4. \E z \in s \cup {x} : \A y \in s \cup {x} : z <= y
        <4>1. CASE lo <= x
          BY <3>2, <4>1
        <4>2. CASE x <= lo
          <5>1. \A y \in s : x <= y
            BY <3>2, <4>2
          <5> QED BY <5>1
        <4> QED BY <4>1, <4>2
      <3> QED BY <3>3, <3>4
    <2> QED BY <2>1, <2>2
  <1>3. S \in Q
    <2> HIDE DEF Q
    <2> QED BY <1>1, <1>2, SetInduction
  <1> QED BY <1>3 DEF Max, Min

\* A set has no fewer elements than what they are mapped to.
LEMMA Images ==
  ASSUME NEW S, IsFiniteSet(S), NEW f
  PROVE  IsFiniteSet({f[x] : x \in S}) /\ Cardinality({f[x] : x \in S}) <= Cardinality(S)
PROOF
  <1> DEFINE image(s) == {f[x] : x \in s}
             Q == {s \in SUBSET S : IsFiniteSet(image(s)) /\ Cardinality(image(s)) <= Cardinality(s)}
  <1>1. {} \in Q
    <2>1. image({}) = {} /\ {} \in SUBSET S
      OBVIOUS
    <2>2. Cardinality({}) <= Cardinality({})
      BY FS_EmptySet
    <2> HIDE DEF image
    <2> QED BY <2>1, <2>2, FS_EmptySet
  <1>2. ASSUME NEW s \in SUBSET S, NEW x \in S \ s, s \in Q PROVE s \cup {x} \in Q
    <2>1. image(s \cup {x}) = image(s) \cup {f[x]}
      OBVIOUS
    <2>2. IsFiniteSet(s) /\ s \cup {x} \in SUBSET S
      BY FS_Subset
    <2>3. IsFiniteSet(image(s)) /\ Cardinality(image(s)) <= Cardinality(s)
      BY <1>2
    <2> HIDE DEF image
    <2> DEFINE y == f[x]
    <2>4. Cardinality(s \cup {x}) = Cardinality(s) + 1 /\ Cardinality(s) \in Nat
      BY <2>2, <1>2, FS_AddElement, FS_CardinalityType
    <2> HIDE DEF y
    <2>5. /\ IsFiniteSet(image(s) \cup {y}) /\ Cardinality(image(s)) \in Nat
          /\ Cardinality(image(s) \cup {y}) = IF y \in image(s) THEN Cardinality(image(s)) ELSE Cardinality(image(s)) + 1
      BY <2>3, FS_AddElement, FS_CardinalityType
    <2>6. Cardinality(image(s) \cup {y}) <= Cardinality(s) + 1
      BY <2>3, <2>4, <2>5
    <2>7. image(s \cup {x}) = image(s) \cup {y}
      BY <2>1 DEF y
    <2> QED BY <2>2, <2>4, <2>5, <2>6, <2>7
  <1>3. S \in Q
    <2> HIDE DEF Q
    <2> QED BY <1>1, <1>2, SetInduction
  <1> QED BY <1>3

LEMMA OneExtreme == ASSUME NEW x \in Int PROVE Max({x}) = x /\ Min({x}) = x
PROOF
  <1>1. IsFiniteSet({x}) /\ {x} \subseteq Int /\ {x} # {}
    BY FS_Singleton
  <1> QED BY <1>1, Extremes

\* The order of the rows of two columns, and of the ids when they are equal.
LEMMA BeforeThree ==
  ASSUME NEW a \in Int, NEW b \in Int, NEW c \in Int, NEW x \in Int, NEW y \in Int, NEW z \in Int
  PROVE  Before(Append(<<a, b>>, c), Append(<<x, y>>, z)) <=> (a > x \/ (a = x /\ (b > y \/ (b = y /\ c > z))))
PROOF
  <1> DEFINE p == Append(<<a, b>>, c)
             q == Append(<<x, y>>, z)
  <1>1. ASSUME NEW u \in Int, NEW v \in Int, NEW w \in Int
        PROVE  /\ DOMAIN Append(<<u, v>>, w) = {1, 2, 3} /\ Append(<<u, v>>, w)[1] = u
               /\ Append(<<u, v>>, w)[2] = v /\ Append(<<u, v>>, w)[3] = w
    <2> DEFINE s == <<u, v>>
    <2>1. s \in Seq(Int) /\ Len(s) = 2 /\ s[1] = u /\ s[2] = v
      OBVIOUS
    <2> HIDE DEF s
    <2> DEFINE t == Append(s, w)
    <2>a. /\ t \in Seq(Int) /\ Len(t) = Len(s) + 1
          /\ \A i \in 1..Len(s) : t[i] = s[i]
          /\ t[Len(s) + 1] = w
      <3> DEFINE Z == Int
      <3>1. s \in Seq(Z) /\ w \in Z
        BY <2>1
      <3> HIDE DEF Z
      <3>2. Append(s, w) \in Seq(Z) /\ Len(Append(s, w)) = Len(s) + 1
        BY <3>1, AppendProperties
      <3>3. (\A i \in 1..Len(s) : Append(s, w)[i] = s[i]) /\ Append(s, w)[Len(s) + 1] = w
        BY <3>1, AppendProperties
      <3> QED BY <3>2, <3>3 DEF Z
    <2> HIDE DEF t
    <2>2. /\ t \in Seq(Int) /\ Len(t) = 3
          /\ \A i \in 1..2 : t[i] = s[i]
          /\ t[3] = w
      BY <2>1, <2>a
    <2> USE DEF t
    <2>3. DOMAIN Append(s, w) = 1..3 /\ 1..3 = {1, 2, 3}
      BY <2>2
    <2>4. 1 \in 1..2 /\ 2 \in 1..2
      OBVIOUS
    <2>5. /\ DOMAIN Append(s, w) = {1, 2, 3} /\ Append(s, w)[1] = u /\ Append(s, w)[2] = v /\ Append(s, w)[3] = w
      BY <2>1, <2>2, <2>3, <2>4
    <2> QED BY <2>5 DEF s
  <1>2. DOMAIN p = {1, 2, 3} /\ p[1] = a /\ p[2] = b /\ p[3] = c /\ q[1] = x /\ q[2] = y /\ q[3] = z
    BY <1>1
  <1>3. 1 .. 1 - 1 = {} /\ 1 .. 2 - 1 = {1} /\ 1 .. 3 - 1 = {1, 2}
    OBVIOUS
  <1> HIDE DEF p, q
  <1>4. Before(p, q) <=> \/ p[1] > q[1] /\ \A j \in 1 .. 1 - 1 : p[j] = q[j]
                         \/ p[2] > q[2] /\ \A j \in 1 .. 2 - 1 : p[j] = q[j]
                         \/ p[3] > q[3] /\ \A j \in 1 .. 3 - 1 : p[j] = q[j]
    BY <1>2 DEF Before
  <1>5. Before(p, q) <=> \/ p[1] > q[1]
                         \/ p[2] > q[2] /\ p[1] = q[1]
                         \/ p[3] > q[3] /\ p[1] = q[1] /\ p[2] = q[2]
    BY <1>3, <1>4
  <1>6. Before(p, q) <=> (a > x \/ (a = x /\ (b > y \/ (b = y /\ c > z))))
    BY <1>2, <1>5
  <1> QED BY <1>6 DEF p, q

\* First is one of the ids: no two of them rank the same.
LEMMA FirstIsOne ==
  ASSUME NEW ids, IsFiniteSet(ids), ids \subseteq Nat, ids # {}, NEW a, NEW b,
         \A i \in ids : a[i] \in Int /\ b[i] \in Int
  PROVE  First([i \in ids |-> <<a[i], b[i]>>]) \in ids
PROOF
  <1> DEFINE rank == [i \in ids |-> <<a[i], b[i]>>]
             Ahead(i, j) == Before(Append(rank[i], -i), Append(rank[j], -j))
             Q == {s \in SUBSET ids : s = {} \/ \E i \in s : \A j \in s \ {i} : Ahead(i, j)}
  <1>1. \A i, j \in ids : Ahead(i, j) <=> (a[i] > a[j] \/ (a[i] = a[j] /\ (b[i] > b[j] \/ (b[i] = b[j] /\ i < j))))
    <2> TAKE i, j \in ids
    <2>1. rank[i] = <<a[i], b[i]>> /\ rank[j] = <<a[j], b[j]>>
      OBVIOUS
    <2>2. i \in Nat /\ j \in Nat /\ -i \in Int /\ -j \in Int /\ a[i] \in Int /\ b[i] \in Int /\ a[j] \in Int /\ b[j] \in Int
      OBVIOUS
    <2> HIDE DEF rank
    <2>3. Ahead(i, j) <=> (a[i] > a[j] \/ (a[i] = a[j] /\ (b[i] > b[j] \/ (b[i] = b[j] /\ -i > -j))))
      BY <2>1, <2>2, BeforeThree
    <2> QED BY <2>2, <2>3
  <1> HIDE DEF Ahead
  <1>2. {} \in Q
    OBVIOUS
  <1>3. ASSUME NEW s \in SUBSET ids, NEW x \in ids \ s, s \in Q PROVE s \cup {x} \in Q
    <2>1. CASE s = {}
      BY <2>1
    <2>2. CASE s # {}
      <3>1. PICK i \in s : \A j \in s \ {i} : Ahead(i, j)
        BY <2>2, <1>3
      <3>2. i # x /\ i \in ids /\ x \in ids
        BY <1>3
      <3>3. Ahead(i, x) \/ Ahead(x, i)
        BY <1>1, <3>2
      <3>4. CASE Ahead(i, x)
        <4>1. \A j \in (s \cup {x}) \ {i} : Ahead(i, j)
          BY <3>1, <3>4
        <4> QED BY <4>1, <3>1
      <3>5. CASE Ahead(x, i)
        <4>1. \A j \in s : Ahead(x, j)
          BY <1>1, <3>1, <3>2, <3>5
        <4> QED BY <4>1
      <3> QED BY <3>3, <3>4, <3>5
    <2> QED BY <2>1, <2>2
  <1>4. ids \in Q
    <2> HIDE DEF Q
    <2> QED BY <1>2, <1>3, SetInduction
  <1>5. PICK i \in ids : \A j \in ids \ {i} : Ahead(i, j)
    BY <1>4
  <1>6. DOMAIN rank = ids
    OBVIOUS
  <1> HIDE DEF rank
  <1>7. \E m \in ids : \A j \in ids \ {m} : Before(Append(rank[m], -m), Append(rank[j], -j))
    BY <1>5 DEF Ahead
  <1>8. First(rank) \in ids
    BY <1>6, <1>7 DEF First
  <1> QED BY <1>8 DEF rank
-------------------------------------------------------------------------------
\* What can be asked.
QuestionSet ==
  [page : {None, 1}, nav : {None, 2}, phase : {None} \cup DOMAIN Phases, from : {None, -1, 1, 2}, to : {None, 1, 2},
   min : {0, 2}, limit : {None, 0, 1}, upid : {None, 1}, ids : SUBSET Int, depth : Int \cup {None},
   part : {None, "doc", "", "a", "https"}, example : Nat \cup {None}, grouping : {"full", "without_query"}]

Plain == {q \in QuestionSet : q.part = None /\ q.example = None /\ IsFiniteSet(q.ids)}

LEMMA PlainQuestion == Question \in Plain
PROOF
  <1>1. Question \in QuestionSet
    BY DEF Question, QuestionSet
  <1>2. Question.part = None /\ Question.example = None /\ Question.ids = {}
    BY DEF Question
  <1> QED BY <1>1, <1>2, FS_EmptySet DEF Plain

\* A question of which something else is asked.
LEMMA Altered ==
  ASSUME NEW q \in Plain
  PROVE  /\ \A x \in {None, 1} : [q EXCEPT !.page = x] \in Plain /\ [q EXCEPT !.upid = x] \in Plain
         /\ \A x \in {None, 2} : [q EXCEPT !.nav = x] \in Plain
         /\ \A x \in DOMAIN Phases \cup {None} : [q EXCEPT !.phase = x] \in Plain
         /\ \A x \in {None, -1, 1, 2} : [q EXCEPT !.from = x] \in Plain
         /\ \A x \in {None, 1, 2} : [q EXCEPT !.to = x] \in Plain
         /\ \A x \in {0, 2} : [q EXCEPT !.min = x] \in Plain
         /\ \A x \in {None, 0, 1} : [q EXCEPT !.limit = x] \in Plain
         /\ \A x \in SUBSET Int : IsFiniteSet(x) => [q EXCEPT !.ids = x] \in Plain
         /\ \A x \in Int \cup {None} : [q EXCEPT !.depth = x] \in Plain
         /\ \A x \in {"full", "without_query"} : [q EXCEPT !.grouping = x] \in Plain
PROOF
  <1>1. q \in QuestionSet /\ q.part = None /\ q.example = None /\ IsFiniteSet(q.ids)
    BY DEF Plain
  <1> DEFINE D == DOMAIN Phases
  <1> HIDE DEF D
  <1>2. \A x \in {None, 1} : [q EXCEPT !.page = x] \in Plain
    BY <1>1 DEF QuestionSet, Plain
  <1>3. \A x \in {None, 1} : [q EXCEPT !.upid = x] \in Plain
    BY <1>1 DEF QuestionSet, Plain
  <1>4. \A x \in {None, 2} : [q EXCEPT !.nav = x] \in Plain
    BY <1>1 DEF QuestionSet, Plain
  <1>5. \A x \in DOMAIN Phases \cup {None} : [q EXCEPT !.phase = x] \in Plain
    BY <1>1 DEF QuestionSet, Plain
  <1>6. \A x \in {None, -1, 1, 2} : [q EXCEPT !.from = x] \in Plain
    BY <1>1 DEF QuestionSet, Plain
  <1>7. \A x \in {None, 1, 2} : [q EXCEPT !.to = x] \in Plain
    BY <1>1 DEF QuestionSet, Plain
  <1>8. \A x \in {0, 2} : [q EXCEPT !.min = x] \in Plain
    BY <1>1 DEF QuestionSet, Plain
  <1>9. \A x \in {None, 0, 1} : [q EXCEPT !.limit = x] \in Plain
    BY <1>1 DEF QuestionSet, Plain
  <1>10. \A x \in SUBSET Int : IsFiniteSet(x) => [q EXCEPT !.ids = x] \in Plain
    BY <1>1 DEF QuestionSet, Plain
  <1>11. \A x \in Int \cup {None} : [q EXCEPT !.depth = x] \in Plain
    BY <1>1 DEF QuestionSet, Plain
  <1>12. \A x \in {"full", "without_query"} : [q EXCEPT !.grouping = x] \in Plain
    BY <1>1 DEF QuestionSet, Plain
  <1> QED BY <1>2, <1>3, <1>4, <1>5, <1>6, <1>7, <1>8, <1>9, <1>10, <1>11, <1>12

LEMMA PlainWindows == Spans \subseteq Plain /\ Windows \subseteq Plain
PROOF
  <1>1. ASSUME NEW f \in {None, 1}, NEW t \in {None, 2} PROVE [Question EXCEPT !.from = f, !.to = t] \in Plain
    <2>1. [Question EXCEPT !.from = f] \in Plain
      BY PlainQuestion, Altered
    <2> DEFINE r == [Question EXCEPT !.from = f]
    <2> HIDE DEF r
    <2>2. [r EXCEPT !.to = t] \in Plain
      BY <2>1, Altered DEF r
    <2>3. [r EXCEPT !.to = t] = [Question EXCEPT !.from = f, !.to = t]
      BY DEF r
    <2> QED BY <2>2, <2>3
  <1>2. Spans \subseteq Plain
    BY <1>1 DEF Spans
  <1>3. ASSUME NEW i \in {None, 1}, NEW n \in {None, 2} PROVE [Question EXCEPT !.page = i, !.nav = n] \in Plain
    <2>1. [Question EXCEPT !.page = i] \in Plain
      BY PlainQuestion, Altered
    <2> DEFINE r == [Question EXCEPT !.page = i]
    <2> HIDE DEF r
    <2>2. [r EXCEPT !.nav = n] \in Plain
      BY <2>1, Altered DEF r
    <2>3. [r EXCEPT !.nav = n] = [Question EXCEPT !.page = i, !.nav = n]
      BY DEF r
    <2> QED BY <2>2, <2>3
  <1>4. \A p \in DOMAIN Phases : [Question EXCEPT !.phase = p] \in Plain
    BY PlainQuestion, Altered
  <1>5. [Question EXCEPT !.phase = "navigation_to_load", !.from = 1] \in Plain
    <2> DEFINE r == [Question EXCEPT !.phase = "navigation_to_load"]
    <2>1. "navigation_to_load" \in DOMAIN Phases
      BY DEF Phases
    <2>2. r \in Plain
      BY <2>1, <1>4
    <2> HIDE DEF r
    <2>3. [r EXCEPT !.from = 1] \in Plain
      BY <2>2, Altered
    <2>4. [r EXCEPT !.from = 1] = [Question EXCEPT !.phase = "navigation_to_load", !.from = 1]
      BY DEF r
    <2> QED BY <2>3, <2>4
  <1>6. [Question EXCEPT !.from = 2, !.to = 1] \in Plain
    <2> DEFINE r == [Question EXCEPT !.from = 2]
    <2>2. r \in Plain
      BY PlainQuestion, Altered
    <2> HIDE DEF r
    <2>3. [r EXCEPT !.to = 1] \in Plain
      BY <2>2, Altered
    <2>4. [r EXCEPT !.to = 1] = [Question EXCEPT !.from = 2, !.to = 1]
      BY DEF r
    <2> QED BY <2>3, <2>4
  <1>7. [Question EXCEPT !.from = -1] \in Plain
    BY PlainQuestion, Altered
  <1>8. Windows \subseteq Plain
    <2>1. {[Question EXCEPT !.page = i, !.nav = n] : i \in {None, 1}, n \in {None, 2}} \subseteq Plain
      BY <1>3
    <2>2. {[Question EXCEPT !.phase = p] : p \in DOMAIN Phases} \subseteq Plain
      BY <1>4
    <2> DEFINE A == {[Question EXCEPT !.page = i, !.nav = n] : i \in {None, 1}, n \in {None, 2}}
               B == {[Question EXCEPT !.phase = p] : p \in DOMAIN Phases}
               x == [Question EXCEPT !.phase = "navigation_to_load", !.from = 1]
               y == [Question EXCEPT !.from = 2, !.to = 1]
               z == [Question EXCEPT !.from = -1]
    <2>3. Windows = Spans \cup A \cup B \cup {x, y, z}
      BY DEF Windows
    <2>4. A \subseteq Plain /\ B \subseteq Plain /\ x \in Plain /\ y \in Plain /\ z \in Plain
      BY <2>1, <2>2, <1>5, <1>6, <1>7
    <2> HIDE DEF A, B, x, y, z
    <2> QED BY <1>2, <2>3, <2>4
  <1> QED BY <1>2, <1>8

LEMMA PlainGroups == ASSUME NEW S \in SUBSET Plain PROVE Grouped(S) \subseteq Plain
PROOF
  <1>1. ASSUME NEW q \in S, NEW g \in {"full", "without_query"} PROVE [q EXCEPT !.grouping = g] \in Plain
    BY Altered
  <1> DEFINE F(q, g) == [q EXCEPT !.grouping = g]
  <1>2. \A q \in S, g \in {"full", "without_query"} : F(q, g) \in Plain
    BY <1>1
  <1> HIDE DEF F
  <1>3. {F(q, g) : q \in S, g \in {"full", "without_query"}} \subseteq Plain
    BY <1>2
  <1> QED BY <1>3 DEF Grouped, F

LEMMA PlainMinimums ==
  ASSUME NEW S \in SUBSET Plain PROVE {[w EXCEPT !.min = m] : w \in S, m \in {0, 2}} \subseteq Plain
PROOF
  <1>1. ASSUME NEW q \in S, NEW m \in {0, 2} PROVE [q EXCEPT !.min = m] \in Plain
    BY Altered
  <1> DEFINE F(w, m) == [w EXCEPT !.min = m]
  <1>2. \A w \in S, m \in {0, 2} : F(w, m) \in Plain
    BY <1>1
  <1> HIDE DEF F
  <1>3. {F(w, m) : w \in S, m \in {0, 2}} \subseteq Plain
    BY <1>2
  <1> QED BY <1>3 DEF F

LEMMA Few == \A a, b : IsFiniteSet({a}) /\ IsFiniteSet({a, b})
PROOF
  <1> TAKE a, b
  <1>1. IsFiniteSet({a}) /\ {a, b} = {a} \cup {b}
    BY FS_Singleton
  <1>2. IsFiniteSet({a} \cup {b})
    BY <1>1, FS_AddElement
  <1> QED BY <1>1, <1>2

\* No question but one about the pipeline of a resource names one.
LEMMA QuestionsPlain ==
  ASSUME NEW tool \in Tools \ {"resource_pipeline"} PROVE Questions(tool) \subseteq Plain
PROOF
  <1>0. MaxDepth \in Int /\ MaxDepth + 1 \in Int /\ MaxEvents + 1 \in Int
    BY DepthAssumption, AnalysesAssumption
  <1>1. OneRow \in Plain
    BY PlainQuestion, Altered DEF OneRow
  <1>2. CASE tool = "main_thread_hotspots"
    <2>1. [Question EXCEPT !.limit = 0] \in Plain /\ [Question EXCEPT !.upid = 1] \in Plain
      BY PlainQuestion, Altered
    <2>2. {[w EXCEPT !.min = m] : w \in Windows, m \in {0, 2}} \subseteq Plain
      BY PlainWindows, PlainMinimums
    <2>3. Questions(tool) = {[w EXCEPT !.min = m] : w \in Windows, m \in {0, 2}}
                            \cup {[Question EXCEPT !.limit = 0], [Question EXCEPT !.upid = 1], OneRow}
      BY <1>2 DEF Questions
    <2> DEFINE W == {[w EXCEPT !.min = m] : w \in Windows, m \in {0, 2}}
               x == [Question EXCEPT !.limit = 0]
               y == [Question EXCEPT !.upid = 1]
    <2> HIDE DEF W, x, y
    <2>4. W \subseteq Plain /\ x \in Plain /\ y \in Plain
      BY <2>1, <2>2 DEF W, x, y
    <2>5. Questions(tool) = W \cup {x, y, OneRow}
      BY <2>3 DEF W, x, y
    <2> QED BY <1>1, <2>4, <2>5
  <1>3. CASE tool = "script_hotspots"
    <2>1. [Question EXCEPT !.from = 2] \in Plain
      BY PlainQuestion, Altered
    <2>2. {[w EXCEPT !.min = m] : w \in Spans, m \in {0, 2}} \subseteq Plain
      BY PlainWindows, PlainMinimums
    <2>3. Questions(tool) = {[w EXCEPT !.min = m] : w \in Spans, m \in {0, 2}} \cup {[Question EXCEPT !.from = 2], OneRow}
      BY <1>3 DEF Questions
    <2> DEFINE W == {[w EXCEPT !.min = m] : w \in Spans, m \in {0, 2}}
               x == [Question EXCEPT !.from = 2]
    <2> HIDE DEF W, x
    <2>4. W \subseteq Plain /\ x \in Plain
      BY <2>1, <2>2 DEF W, x
    <2>5. Questions(tool) = W \cup {x, OneRow}
      BY <2>3 DEF W, x
    <2> QED BY <1>1, <2>4, <2>5
  <1>4. CASE tool = "slice_descendants_breakdown"
    <2> DEFINE I == {{}, {1}, {1, 2}, {-1}, 1 .. MaxRoots + 1}
               D == {None, 0, 1, MaxDepth, MaxDepth + 1}
               many == 1 .. MaxRoots + 1
    <2>1. ASSUME NEW i \in I, NEW d \in D PROVE [Question EXCEPT !.ids = i, !.depth = d] \in Plain
      <3>1. i \in SUBSET Int /\ IsFiniteSet(i)
        <4>1. IsFiniteSet({1}) /\ IsFiniteSet({1, 2})
          BY Few, Zenon
        <4>2. IsFiniteSet({})
          BY FS_EmptySet
        <4> DEFINE refused == -1
        <4>7. IsFiniteSet(many) /\ many \in SUBSET Int
          <5>1. 1 \in Int /\ MaxRoots + 1 \in Int
            BY DepthAssumption
          <5> QED BY <5>1, FS_Interval
        <4>8. refused \in Int
          OBVIOUS
        <4>9. {} \in SUBSET Int /\ {1} \in SUBSET Int /\ {1, 2} \in SUBSET Int
          OBVIOUS
        <4> HIDE DEF refused, many
        <4>10. {refused} \in SUBSET Int
          BY <4>8
        <4>3. IsFiniteSet({refused})
          BY Few
        <4>4. i = {} \/ i = {1} \/ i = {1, 2} \/ i = {refused} \/ i = many
          BY DEF refused, many
        <4>5. IsFiniteSet(i)
          BY <4>1, <4>2, <4>3, <4>4, <4>7
        <4>6. i \in SUBSET Int
          BY <4>4, <4>7, <4>9, <4>10
        <4> QED BY <4>5, <4>6
      <3>2. d \in Int \cup {None}
        BY <1>0
      <3> DEFINE r == [Question EXCEPT !.ids = i]
      <3>3. r \in Plain
        BY <3>1, PlainQuestion, Altered
      <3> HIDE DEF r
      <3>4. [r EXCEPT !.depth = d] \in Plain
        BY <3>2, <3>3, Altered
      <3>5. [r EXCEPT !.depth = d] = [Question EXCEPT !.ids = i, !.depth = d]
        BY DEF r
      <3> QED BY <3>4, <3>5
    <2>2. [Question EXCEPT !.ids = {1}, !.min = 2] \in Plain
      <3> DEFINE r == [Question EXCEPT !.ids = {1}]
      <3>3. r \in Plain
        <4>1. IsFiniteSet({1})
          BY Few, Zenon
        <4>2. {1} \in SUBSET Int
          OBVIOUS
        <4> QED BY <4>1, <4>2, PlainQuestion, Altered
      <3> HIDE DEF r
      <3>4. [r EXCEPT !.min = 2] \in Plain
        BY <3>3, Altered
      <3>5. [r EXCEPT !.min = 2] = [Question EXCEPT !.ids = {1}, !.min = 2]
        BY DEF r
      <3> QED BY <3>4, <3>5
    <2>3. [OneRow EXCEPT !.ids = {1, MaxEvents + 1}] \in Plain
      <3>1. {1, MaxEvents + 1} = {1} \cup {MaxEvents + 1} /\ {1, MaxEvents + 1} \in SUBSET Int
        BY <1>0
      <3>2. IsFiniteSet({1, MaxEvents + 1})
        BY Few, Zenon
      <3> QED BY <1>1, <3>1, <3>2, Altered
    <2>4. Questions(tool) = {[Question EXCEPT !.ids = i, !.depth = d] : i \in I, d \in D}
         \cup {[Question EXCEPT !.ids = {1}, !.min = 2], [OneRow EXCEPT !.ids = {1, MaxEvents + 1}]}
      BY <1>4 DEF Questions
    <2> DEFINE F(i, d) == [Question EXCEPT !.ids = i, !.depth = d]
    <2>5. \A i \in I, d \in D : F(i, d) \in Plain
      BY <2>1
    <2> DEFINE A == {F(i, d) : i \in I, d \in D}
               x == [Question EXCEPT !.ids = {1}, !.min = 2]
               y == [OneRow EXCEPT !.ids = {1, MaxEvents + 1}]
    <2>6. Questions(tool) = A \cup {x, y} /\ x \in Plain /\ y \in Plain
      BY <2>2, <2>3, <2>4
    <2> HIDE DEF I, D, F, x, y
    <2>7. A \subseteq Plain
      BY <2>5
    <2> QED BY <2>6, <2>7
  <1>5. CASE tool = "resource_hotspots"
    <2>2. {[w EXCEPT !.min = m] : w \in Windows, m \in {0, 2}} \subseteq Plain
      BY PlainWindows, PlainMinimums
    <2>3. Questions(tool) = {[w EXCEPT !.min = m] : w \in Windows, m \in {0, 2}} \cup {OneRow}
      BY <1>5 DEF Questions
    <2> DEFINE W == {[w EXCEPT !.min = m] : w \in Windows, m \in {0, 2}}
    <2> HIDE DEF W
    <2>4. W \subseteq Plain
      BY <2>2 DEF W
    <2>5. Questions(tool) = W \cup {OneRow}
      BY <2>3 DEF W
    <2> QED BY <1>1, <2>4, <2>5
  <1>6. CASE tool = "resource_summary"
    <2>1. [Question EXCEPT !.page = 1] \in Plain /\ [Question EXCEPT !.phase = "fcp_to_load"] \in Plain
      <3>1. "fcp_to_load" \in DOMAIN Phases
        BY DEF Phases
      <3> QED BY <3>1, PlainQuestion, Altered
    <2>2. [OneRow EXCEPT !.min = 2] \in Plain
      BY <1>1, Altered
    <2>3. Grouped(Spans \cup {[OneRow EXCEPT !.min = 2]}) \subseteq Plain
      <3>1. Spans \cup {[OneRow EXCEPT !.min = 2]} \in SUBSET Plain
        BY <2>2, PlainWindows
      <3> QED BY <3>1, PlainGroups
    <2>4. Questions(tool) = Grouped(Spans \cup {[OneRow EXCEPT !.min = 2]})
                            \cup {[Question EXCEPT !.page = 1], [Question EXCEPT !.phase = "fcp_to_load"]}
      BY <1>6 DEF Questions
    <2> QED BY <2>1, <2>3, <2>4, Zenon
  <1> QED BY <1>2, <1>3, <1>4, <1>5, <1>6 DEF Tools
-------------------------------------------------------------------------------
\* The traces that are recorded.
AllKinds == UNION {Kinds(tool) : tool \in Tools}
Slice == [ts : Nat, dur : Int, parent : Nat \cup {None}, track : {k.track : k \in AllKinds},
          name : {k.name : k \in AllKinds}, args : {k.args : k \in AllKinds}]
Load == [start : Nat, url : {4, 7}, fcp : Nat \cup {None}, dcl : Nat \cup {None}, load : Nat \cup {None}]

SliceTyped(s, i) ==
  /\ s.ts \in 0 .. TraceEnd - 1
  /\ s.dur \in {Incomplete} \cup 0 .. TraceEnd - s.ts
  /\ s.parent \in {None} \cup 1 .. i - 1
  /\ Kind(s.track, s.name, s.args) \in Kinds(purpose)

SlicesTyped == \A i \in DOMAIN trace : SliceTyped(trace[i], i)
InOrder     == \A i, j \in DOMAIN trace : i < j => trace[i].ts <= trace[j].ts
WithinParent ==
  \A i \in DOMAIN trace : trace[i].parent # None =>
    /\ trace[trace[i].parent].track = trace[i].track
    /\ trace[i].ts \in Instants(trace[trace[i].parent])
    /\ \/ trace[trace[i].parent].dur = Incomplete
       \/ trace[i].dur # Incomplete /\ End(trace[i]) <= End(trace[trace[i].parent])
UnderTheNearest ==
  \A i, j \in DOMAIN trace : j < i /\ trace[j].track = trace[i].track /\ trace[i].ts \in Instants(trace[j]) =>
    trace[i].parent # None /\ j <= trace[i].parent

LoadTyped(n) == /\ n.start \in 0 .. TraceEnd - 1
                /\ \A m \in {n.fcp, n.dcl, n.load} : m \in {None, 1, 2, 3} /\ (m # None => m > n.start)
LoadsTyped  == \A n \in DOMAIN navs : LoadTyped(navs[n])
LoadsInOrder == \A m, n \in DOMAIN navs : m < n => navs[m].start < navs[n].start

TraceInv ==
  /\ purpose \in Tools /\ trace \in Seq(Slice) /\ navs \in Seq(Load)
  /\ Len(trace) + Len(navs) <= MaxEvents
  /\ purpose \in {"main_thread_hotspots", "resource_hotspots"} => Len(trace) <= 2
  /\ SlicesTyped /\ InOrder /\ WithinParent /\ UnderTheNearest
  /\ LoadsTyped /\ LoadsInOrder

\* What is answered: as many of the tool's rows as there may be.
Permitted(tool, q) ==
  CASE tool = "main_thread_hotspots"        -> MainThreadAllowed(q)
    [] tool = "script_hotspots"             -> ScriptsAllowed(q)
    [] tool = "slice_descendants_breakdown" -> DescendantsAllowed(q)
    [] tool = "resource_hotspots"           -> ResourcesAllowed(q)
    [] tool = "resource_summary"            -> ResourcesAllowed(q)
    [] tool = "resource_pipeline"           -> PipelineAllowed(q)

Ranked(tool, q, tr, nv) ==
  CASE tool = "main_thread_hotspots"        -> MainThreadRank(MainThreadRows(tr, Window(q, nv), q))
    [] tool = "script_hotspots"             -> ScriptRank(ScriptRows(tr, Window(q, nv), q))
    [] tool = "slice_descendants_breakdown" -> DescendantRank(DescendantRows(tr, q))
    [] tool = "resource_hotspots"           -> HotspotRank(HotspotRows(tr, Window(q, nv), q))
    [] tool = "resource_summary"            -> SummaryRank(SummaryRows(tr, nv, Window(q, nv), q))
    [] tool = "resource_pipeline"           -> PipelineRank(PipelineRows(tr, Window(q, nv), q))

Default(tool) == IF tool = "resource_summary" THEN 25 ELSE IF tool = "resource_pipeline" THEN 30 ELSE 100

Answered(tool, q, tr, nv, a) ==
  \/ ~Permitted(tool, q) /\ a = NoAnswer
  \/ /\ Permitted(tool, q) /\ a.ok = TRUE
     /\ a.rows \in Tops(Ranked(tool, q, tr, nv), RowsUpTo(q.limit, Default(tool)))
     /\ tool = "slice_descendants_breakdown" => a.unended = IncompleteBelow(tr, q)

AskedInv ==
  /\ asked.tool \in {None, purpose, "resource_pipeline"}
  /\ asked.tool = None => answer = NoAnswer
  /\ asked.tool = purpose => asked.q \in Questions(purpose)
  /\ asked.tool # None => Answered(asked.tool, asked.q, trace, navs, answer)

LEMMA NullIsNoTool == None \notin Tools /\ None \notin DOMAIN Phases /\ None # "" /\ None \notin Int
PROOF BY NullAssumption, TraceAssumption

\* A handler answers by its query, or turns the question down.
LEMMA AnswerGives ==
  ASSUME NEW tool \in Tools, NEW q, Answer(tool, q)
  PROVE  /\ Answered(tool, q, trace, navs, answer') /\ asked' = Asking(tool, q)
         /\ UNCHANGED <<purpose, trace, navs>>
PROOF
  <1>1. asked' = Asking(tool, q) /\ UNCHANGED <<purpose, trace, navs>>
    BY DEF Answer
  <1>2. CASE tool = "main_thread_hotspots"
    <2>1. MainThread(q)
      BY <1>2 DEF Answer
    <2>2. Permitted(tool, q) <=> MainThreadAllowed(q)
      BY <1>2 DEF Permitted
    <2>3. Ranked(tool, q, trace, navs) = MainThreadRank(MainThreadRows(trace, Window(q, navs), q)) /\ Default(tool) = 100
      BY <1>2 DEF Ranked, Default
    <2> QED BY <1>1, <1>2, <2>1, <2>2, <2>3 DEF MainThread, Show, Refuse, Answered
  <1>3. CASE tool = "script_hotspots"
    <2>1. ScriptHotspots(q)
      BY <1>3 DEF Answer
    <2>2. Permitted(tool, q) <=> ScriptsAllowed(q)
      BY <1>3 DEF Permitted
    <2>3. Ranked(tool, q, trace, navs) = ScriptRank(ScriptRows(trace, Window(q, navs), q)) /\ Default(tool) = 100
      BY <1>3 DEF Ranked, Default
    <2> QED BY <1>1, <1>3, <2>1, <2>2, <2>3 DEF ScriptHotspots, Show, Refuse, Answered
  <1>4. CASE tool = "slice_descendants_breakdown"
    <2>1. Descendants(q)
      BY <1>4 DEF Answer
    <2>2. Permitted(tool, q) <=> DescendantsAllowed(q)
      BY <1>4 DEF Permitted
    <2>3. Ranked(tool, q, trace, navs) = DescendantRank(DescendantRows(trace, q)) /\ Default(tool) = 100
      BY <1>4 DEF Ranked, Default
    <2> QED BY <1>1, <1>4, <2>1, <2>2, <2>3 DEF Descendants, Show, Refuse, Answered
  <1>5. CASE tool = "resource_hotspots"
    <2>1. ResourceHotspots(q)
      BY <1>5 DEF Answer
    <2>2. Permitted(tool, q) <=> ResourcesAllowed(q)
      BY <1>5 DEF Permitted
    <2>3. Ranked(tool, q, trace, navs) = HotspotRank(HotspotRows(trace, Window(q, navs), q)) /\ Default(tool) = 100
      BY <1>5 DEF Ranked, Default
    <2> QED BY <1>1, <1>5, <2>1, <2>2, <2>3 DEF ResourceHotspots, Show, Refuse, Answered
  <1>6. CASE tool = "resource_summary"
    <2>1. ResourceSummary(q)
      BY <1>6 DEF Answer
    <2>2. Permitted(tool, q) <=> ResourcesAllowed(q)
      BY <1>6 DEF Permitted
    <2>3. Ranked(tool, q, trace, navs) = SummaryRank(SummaryRows(trace, navs, Window(q, navs), q)) /\ Default(tool) = 25
      BY <1>6 DEF Ranked, Default
    <2> QED BY <1>1, <1>6, <2>1, <2>2, <2>3 DEF ResourceSummary, Show, Refuse, Answered
  <1>7. CASE tool = "resource_pipeline"
    <2>1. ResourcePipeline(q)
      BY <1>7 DEF Answer
    <2>2. Permitted(tool, q) <=> PipelineAllowed(q)
      BY <1>7 DEF Permitted
    <2>3. Ranked(tool, q, trace, navs) = PipelineRank(PipelineRows(trace, Window(q, navs), q)) /\ Default(tool) = 30
      BY <1>7 DEF Ranked, Default
    <2> QED BY <1>1, <1>7, <2>1, <2>2, <2>3 DEF ResourcePipeline, Show, Refuse, Answered
  <1> QED BY <1>2, <1>3, <1>4, <1>5, <1>6, <1>7 DEF Tools

LEMMA AskedKept == TraceInv /\ AskedInv /\ [Next]_vars => AskedInv'
PROOF
  <1> SUFFICES ASSUME TraceInv, AskedInv, [Next]_vars PROVE AskedInv'
    OBVIOUS
  <1>0. purpose \in Tools
    BY DEF TraceInv
  <1>1. CASE AddSlice \/ AddLoad
    <2>1. asked' = asked /\ answer' = answer /\ purpose' = purpose /\ asked.tool = None
      BY <1>1 DEF AddSlice, AddLoad, Recording
    <2>2. asked.tool # purpose
      BY <1>0, <2>1, NullIsNoTool
    <2>3. asked'.tool # purpose' /\ asked'.tool = None /\ answer' = NoAnswer
      BY <2>1, <2>2 DEF AskedInv
    <2> QED BY <2>3 DEF AskedInv
  <1>2. CASE Ask
    <2>1. PICK q \in Questions(purpose) : Answer(purpose, q)
      BY <1>2 DEF Ask
    <2>2. /\ Answered(purpose, q, trace, navs, answer') /\ asked' = Asking(purpose, q)
          /\ UNCHANGED <<purpose, trace, navs>>
      BY <1>0, <2>1, AnswerGives
    <2>3. asked'.tool = purpose /\ asked'.q = q /\ purpose # None
      BY <1>0, <2>2, NullIsNoTool DEF Asking
    <2> QED BY <2>1, <2>2, <2>3 DEF AskedInv
  <1>3. CASE Follow
    <2> DEFINE follows(q) == Answer("resource_pipeline", q)
    <2>1. PICK q : Answer("resource_pipeline", q)
      BY <1>3 DEF Follow
    <2>2. asked.tool \in {"resource_summary", "resource_hotspots"}
      BY <1>3 DEF Follow
    <2>3. purpose \in {"resource_summary", "resource_hotspots"}
      BY <2>2, NullIsNoTool DEF AskedInv, Tools
    <2> DEFINE tool == "resource_pipeline"
    <2>4. tool \in Tools /\ tool # purpose /\ tool # None
      BY <2>3, NullIsNoTool DEF Tools
    <2>5. Answer(tool, q)
      BY <2>1
    <2>6. tool = "resource_pipeline"
      OBVIOUS
    <2> HIDE DEF tool
    <2>7. /\ Answered(tool, q, trace, navs, answer') /\ asked' = Asking(tool, q)
          /\ UNCHANGED <<purpose, trace, navs>>
      BY <2>4, <2>5, AnswerGives
    <2>8. asked'.tool = tool /\ asked'.q = q
      BY <2>7 DEF Asking
    <2> QED BY <2>4, <2>6, <2>7, <2>8 DEF AskedInv
  <1>4. CASE Done
    <2>1. asked'.tool = None /\ answer' = NoAnswer /\ purpose' = purpose
      BY <1>4 DEF Done, Asking
    <2>2. None # purpose
      BY <1>0, NullIsNoTool
    <2> QED BY <2>1, <2>2 DEF AskedInv
  <1>5. CASE UNCHANGED vars
    BY <1>5 DEF vars, AskedInv
  <1> QED BY <1>1, <1>2, <1>3, <1>4, <1>5 DEF Next
-------------------------------------------------------------------------------
LEMMA PlacesFinite == ASSUME TraceInv PROVE IsFiniteSet(DOMAIN trace) /\ DOMAIN trace = 1 .. Len(trace) /\ Len(trace) \in Nat
PROOF
  <1>1. DOMAIN trace = 1 .. Len(trace) /\ Len(trace) \in Nat
    BY DEF TraceInv
  <1>2. IsFiniteSet(1 .. Len(trace))
    BY <1>1, FS_Interval
  <1> QED BY <1>1, <1>2

\* What is running on a track is the last of its slices that is.
LEMMA RunningIs ==
  ASSUME TraceInv, NEW ts, NEW track
  PROVE  LET on == {i \in DOMAIN trace : trace[i].track = track /\ ts \in Instants(trace[i])}
         IN  \/ Running(ts, track) = None /\ on = {}
             \/ Running(ts, track) \in on /\ \A j \in on : j <= Running(ts, track)
PROOF
  <1> DEFINE on == {i \in DOMAIN trace : trace[i].track = track /\ ts \in Instants(trace[i])}
  <1>1. IsFiniteSet(on) /\ on \subseteq Int
    <2>1. on \in SUBSET DOMAIN trace
      OBVIOUS
    <2>2. DOMAIN trace \subseteq Int
      BY PlacesFinite
    <2> QED BY <2>1, <2>2, PlacesFinite, FS_Subset
  <1>2. Running(ts, track) = IF on = {} THEN None ELSE Max(on)
    BY DEF Running, Largest
  <1> HIDE DEF on
  <1>3. CASE on = {}
    BY <1>2, <1>3 DEF on
  <1>4. CASE on # {}
    <2>1. Max(on) \in on /\ \A j \in on : Max(on) >= j
      BY <1>1, <1>4, Extremes
    <2>2. \A j \in on : j <= Max(on)
      BY <1>1, <2>1
    <2>3. Running(ts, track) \in on /\ \A j \in on : j <= Running(ts, track)
      BY <1>2, <1>4, <2>1, <2>2
    <2> QED BY <2>3 DEF on
  <1> QED BY <1>3, <1>4

\* A slice that is added starts last, and is nested within the one that is running.
LEMMA AddSliceKeeps == ASSUME TraceInv, AddSlice PROVE TraceInv'
PROOF
  <1>1. /\ Len(trace) + Len(navs) < MaxEvents /\ Len(trace) < Slices(purpose)
        /\ UNCHANGED <<purpose, navs>>
    BY DEF AddSlice
  <1> DEFINE adds(k, ts, dur) ==
          /\ trace # <<>> => ts >= Last(trace).ts
          /\ Fits(ts, dur, Running(ts, k.track))
          /\ trace' = Append(trace, [ts |-> ts, dur |-> dur, parent |-> Running(ts, k.track),
                                     track |-> k.track, name |-> k.name, args |-> k.args])
  <1>a. PICK k \in Kinds(purpose), ts \in 0 .. TraceEnd - 1 :
          \E dur \in {Incomplete} \cup 0 .. TraceEnd - ts : adds(k, ts, dur)
    BY DEF AddSlice
  <1>2. PICK dur \in {Incomplete} \cup 0 .. TraceEnd - ts : adds(k, ts, dur)
    BY <1>a
  <1> DEFINE parent == Running(ts, k.track)
             track  == k.track
             name   == k.name
             args   == k.args
             new    == [ts |-> ts, dur |-> dur, parent |-> parent, track |-> track, name |-> name, args |-> args]
             n      == Len(trace)
  <1>3. trace' = Append(trace, new)
    BY <1>2
  <1>4. /\ new.ts = ts /\ new.dur = dur /\ new.parent = parent /\ new.track = track /\ new.name = name
        /\ new.args = args
    OBVIOUS
  <1>5. k \in AllKinds /\ Kind(track, name, args) = k
    <2>1. purpose \in Tools
      BY DEF TraceInv
    <2>2. k \in AllKinds
      BY <2>1 DEF AllKinds
    <2>3. \E t, m, a : k = Kind(t, m, a)
      <3>1. CASE purpose = "main_thread_hotspots"
        BY <3>1 DEF Kinds
      <3>2. CASE purpose = "script_hotspots"
        BY <3>2 DEF Kinds
      <3>3. CASE purpose = "slice_descendants_breakdown"
        BY <3>3 DEF Kinds
      <3>4. CASE purpose = "resource_hotspots"
        BY <3>4 DEF Kinds
      <3>5. CASE purpose = "resource_summary"
        BY <3>5 DEF Kinds
      <3>6. CASE purpose = "resource_pipeline"
        BY <3>6 DEF Kinds
      <3> QED BY <2>1, <3>1, <3>2, <3>3, <3>4, <3>5, <3>6 DEF Tools
    <2> QED BY <2>2, <2>3 DEF Kind
  <1>6. TraceEnd \in Nat /\ ts \in Nat /\ ts <= TraceEnd - 1 /\ dur \in Int /\ None \notin Int
    BY TraceAssumption DEF Incomplete
  <1>7. n \in Nat /\ DOMAIN trace = 1 .. n /\ trace \in Seq(Slice)
    BY DEF TraceInv
  <1>8. \/ parent = None /\ \A i \in DOMAIN trace : ~(trace[i].track = track /\ ts \in Instants(trace[i]))
        \/ /\ parent \in DOMAIN trace /\ trace[parent].track = track /\ ts \in Instants(trace[parent])
           /\ \A j \in DOMAIN trace : trace[j].track = track /\ ts \in Instants(trace[j]) => j <= parent
    BY RunningIs
  <1>9. parent \in {None} \cup 1 .. n
    BY <1>7, <1>8
  <1>10. parent # None => trace[parent].dur = Incomplete \/ (dur # Incomplete /\ ts + dur <= End(trace[parent]))
    BY <1>2 DEF Fits
  <1>11. \A i \in DOMAIN trace : trace[i].ts <= ts
    <2> TAKE i \in DOMAIN trace
    <2>1. trace # <<>> /\ n \in 1 .. n
      BY <1>7
    <2>2. trace[n].ts <= ts /\ trace[n].ts \in Int /\ trace[i].ts \in Int
      <3>1. \A j \in 1 .. n : trace[j].ts \in Nat
        <4>1. \A j \in 1 .. n : trace[j] \in Slice
          BY <1>7
        <4> QED BY <4>1 DEF Slice
      <3>2. ts >= trace[n].ts
        BY <1>2, <2>1 DEF Last
      <3>3. i \in 1 .. n
        BY <1>7
      <3> HIDE DEF n, adds
      <3> QED BY <3>1, <3>2, <3>3, <2>1, <1>6
    <2>3. trace[i].ts <= trace[n].ts
      <3>1. CASE i = n
        BY <2>2, <3>1
      <3>2. CASE i # n
        <4>1. i < n
          BY <1>7, <3>2
        <4> QED BY <1>7, <2>1, <4>1 DEF TraceInv, InOrder
      <3> QED BY <3>1, <3>2
    <2> QED BY <1>6, <2>2, <2>3
  <1>12. new \in Slice
    <2>1. parent \in Nat \cup {None}
      BY <1>7, <1>9
    <2>2. track \in {x.track : x \in AllKinds} /\ name \in {x.name : x \in AllKinds} /\ args \in {x.args : x \in AllKinds}
      BY <1>5
    <2> HIDE DEF parent, track, name, args
    <2> QED BY <1>6, <2>1, <2>2 DEF Slice
  <1> HIDE DEF parent, track, name, args, new, n
  <1>13. /\ trace' \in Seq(Slice) /\ Len(trace') = n + 1 /\ \A i \in 1 .. n : trace'[i] = trace[i]
         /\ trace'[n + 1] = new
    BY <1>3, <1>7, <1>12, AppendProperties DEF n
  <1>14. DOMAIN trace' = 1 .. n + 1 /\ \A i \in DOMAIN trace' : i \in DOMAIN trace \/ i = n + 1
    BY <1>7, <1>13
  <1>15. SlicesTyped'
    <2>1. \A i \in 1 .. n : SliceTyped(trace[i], i)
      BY <1>7 DEF TraceInv, SlicesTyped
    <2>2. SliceTyped(new, n + 1)
      <3>1. (n + 1) - 1 = n
        BY <1>7
      <3>2. parent \in {None} \cup 1 .. (n + 1) - 1
        BY <1>9, <3>1
      <3>3. Kind(new.track, new.name, new.args) \in Kinds(purpose)
        BY <1>4, <1>5
      <3>4. new.ts \in 0 .. TraceEnd - 1
        BY <1>4
      <3>5. new.dur \in {Incomplete} \cup 0 .. TraceEnd - new.ts
        BY <1>4
      <3>6. new.parent \in {None} \cup 1 .. (n + 1) - 1
        BY <1>4, <3>2
      <3> QED BY <3>3, <3>4, <3>5, <3>6 DEF SliceTyped
    <2>3. \A i \in 1 .. n + 1 : SliceTyped(trace'[i], i)
      BY <1>13, <2>1, <2>2, <1>7
    <2>4. \A s, i : SliceTyped(s, i)' <=> SliceTyped(s', i')
      BY <1>1 DEF SliceTyped
    <2> QED BY <1>14, <2>3, <1>1 DEF SlicesTyped, SliceTyped
  <1>16. InOrder'
    <2>1. ASSUME NEW i \in 1 .. n + 1, NEW j \in 1 .. n + 1, i < j PROVE trace'[i].ts <= trace'[j].ts
      <3>1. i \in 1 .. n
        BY <2>1, <1>7
      <3>2. CASE j \in 1 .. n
        <4>1. trace[i].ts <= trace[j].ts
          BY <1>7, <2>1, <3>1, <3>2 DEF TraceInv, InOrder
        <4> QED BY <4>1, <3>1, <3>2, <1>13
      <3>3. CASE j = n + 1
        <4>1. trace[i].ts <= new.ts
          BY <1>4, <1>11, <1>7, <3>1
        <4> QED BY <4>1, <3>1, <3>3, <1>13
      <3> QED BY <3>2, <3>3, <1>7
    <2> QED BY <1>14, <2>1 DEF InOrder
  <1>17. WithinParent'
    <2> DEFINE Good(s) == s.parent # None =>
                 /\ trace[s.parent].track = s.track
                 /\ s.ts \in Instants(trace[s.parent])
                 /\ \/ trace[s.parent].dur = Incomplete
                    \/ s.dur # Incomplete /\ End(s) <= End(trace[s.parent])
    <2>1. \A i \in 1 .. n : Good(trace[i])
      BY <1>7 DEF TraceInv, WithinParent
    <2>2. Good(new)
      BY <1>4, <1>8, <1>10 DEF End
    <2>3. \A i \in 1 .. n + 1 : Good(trace'[i])
      BY <1>13, <2>1, <2>2, <1>7
    <2>4. \A i \in 1 .. n + 1 : trace'[i].parent # None => trace'[i].parent \in 1 .. n
      <3>1. \A i \in 1 .. n : trace[i].parent # None => trace[i].parent \in 1 .. i - 1
        BY <1>7 DEF TraceInv, SlicesTyped, SliceTyped
      <3>2. \A i \in 1 .. n : trace[i].parent # None => trace[i].parent \in 1 .. n
        BY <3>1, <1>7
      <3> QED BY <1>4, <1>7, <1>9, <1>13, <3>2
    <2>5. \A i \in 1 .. n + 1 : trace'[i].parent # None => trace'[trace'[i].parent] = trace[trace'[i].parent]
      BY <2>4, <1>13
    <2>6. \A i \in 1 .. n + 1 : trace'[i].parent # None =>
            /\ trace'[trace'[i].parent].track = trace'[i].track
            /\ trace'[i].ts \in Instants(trace'[trace'[i].parent])
            /\ \/ trace'[trace'[i].parent].dur = Incomplete
               \/ trace'[i].dur # Incomplete /\ End(trace'[i]) <= End(trace'[trace'[i].parent])
      BY <2>3, <2>5
    <2> QED BY <2>6, <1>14 DEF WithinParent, Instants, End
  <1>18. UnderTheNearest'
    <2>1. ASSUME NEW i \in 1 .. n + 1, NEW j \in 1 .. n + 1, j < i, trace'[j].track = trace'[i].track,
                 trace'[i].ts \in Instants(trace'[j])
          PROVE  trace'[i].parent # None /\ j <= trace'[i].parent
      <3>1. j \in 1 .. n /\ trace'[j] = trace[j]
        BY <2>1, <1>7, <1>13
      <3>2. CASE i \in 1 .. n
        <4>1. trace'[i] = trace[i]
          BY <3>2, <1>13
        <4>2. trace[j].track = trace[i].track /\ trace[i].ts \in Instants(trace[j])
          BY <2>1, <3>1, <4>1
        <4>3. trace[i].parent # None /\ j <= trace[i].parent
          BY <2>1, <3>1, <3>2, <4>2, <1>7 DEF TraceInv, UnderTheNearest
        <4> QED BY <4>1, <4>3
      <3>3. CASE i = n + 1
        <4>1. trace'[i] = new
          BY <3>3, <1>13
        <4>2. trace[j].track = track /\ ts \in Instants(trace[j])
          BY <2>1, <3>1, <4>1, <1>4
        <4>3. parent # None /\ j <= parent
          BY <4>2, <3>1, <1>7, <1>8, <1>6
        <4> QED BY <4>1, <4>3, <1>4
      <3> QED BY <3>2, <3>3, <1>7
    <2> QED BY <2>1, <1>14 DEF UnderTheNearest, Instants, End
  <1>19. Len(trace') + Len(navs') <= MaxEvents
    BY <1>1, <1>7, <1>13, AnalysesAssumption DEF TraceInv, n
  <1>20. (purpose \in {"main_thread_hotspots", "resource_hotspots"} => Len(trace) <= 2)'
    <2>1. purpose \in {"main_thread_hotspots", "resource_hotspots"} => Slices(purpose) <= 2
      BY DEF Slices
    <2>2. purpose \in {"main_thread_hotspots", "resource_hotspots"} => Slices(purpose) \in {1, 2}
      BY DEF Slices
    <2> QED BY <1>1, <1>7, <1>13, <2>2 DEF n
  <1>21. (LoadsTyped /\ LoadsInOrder /\ navs \in Seq(Load) /\ purpose \in Tools)'
    BY <1>1 DEF TraceInv, LoadsTyped, LoadsInOrder, LoadTyped
  <1> QED BY <1>13, <1>15, <1>16, <1>17, <1>18, <1>19, <1>20, <1>21 DEF TraceInv

LEMMA AddLoadKeeps == ASSUME TraceInv, AddLoad PROVE TraceInv'
PROOF
  <1>1. /\ trace = <<>> /\ Len(navs) < Smaller(2, MaxEvents) /\ UNCHANGED <<purpose, trace>>
    BY DEF AddLoad
  <1> DEFINE M == {<<None, None, None>>, <<1, 2, 2>>, <<2, 1, 3>>, <<None, 1, None>>}
  <1>2. PICK start \in 0 .. TraceEnd - 1, m \in M :
          /\ navs # <<>> => start > Last(navs).start
          /\ \A i \in 1..3 : m[i] # None => m[i] > start
          /\ navs' = Append(navs, [start |-> start, url |-> IF start = 0 THEN 4 ELSE 7,
                                   fcp |-> m[1], dcl |-> m[2], load |-> m[3]])
    BY DEF AddLoad
  <1> DEFINE url == IF start = 0 THEN 4 ELSE 7
             a   == m[1]
             b   == m[2]
             c   == m[3]
             new == [start |-> start, url |-> url, fcp |-> a, dcl |-> b, load |-> c]
             n   == Len(navs)
  <1>3. navs' = Append(navs, new)
    BY <1>2
  <1>4. /\ new.start = start /\ new.url = url /\ new.fcp = a /\ new.dcl = b /\ new.load = c
        /\ url \in {4, 7}
    OBVIOUS
  <1>5. \A v \in {a, b, c} : v \in {None, 1, 2, 3} /\ (v # None => v > start)
    <2>1. a \in {None, 1, 2, 3} /\ b \in {None, 1, 2, 3} /\ c \in {None, 1, 2, 3}
      OBVIOUS
    <2>2. (a # None => a > start) /\ (b # None => b > start) /\ (c # None => c > start)
      BY <1>2
    <2> QED BY <2>1, <2>2
  <1>6. TraceEnd \in Nat /\ start \in Nat /\ start <= TraceEnd - 1
    BY TraceAssumption
  <1> HIDE DEF url, a, b, c
  <1>7. new \in Load
    BY <1>4, <1>5, <1>6 DEF Load
  <1>8. navs \in Seq(Load) /\ n \in Nat /\ DOMAIN navs = 1 .. n
    BY DEF TraceInv
  <1> HIDE DEF new, n, M
  <1>9. /\ navs' \in Seq(Load) /\ Len(navs') = n + 1 /\ \A i \in 1 .. n : navs'[i] = navs[i]
        /\ navs'[n + 1] = new
    BY <1>3, <1>7, <1>8, AppendProperties DEF n
  <1>10. DOMAIN navs' = 1 .. n + 1
    BY <1>8, <1>9
  <1>11. LoadsTyped'
    <2>1. LoadTyped(new)
      BY <1>2, <1>4, <1>5 DEF LoadTyped
    <2>2. \A i \in 1 .. n : LoadTyped(navs[i])
      BY <1>8 DEF TraceInv, LoadsTyped
    <2>3. \A i \in 1 .. n + 1 : LoadTyped(navs'[i])
      BY <2>1, <2>2, <1>8, <1>9
    <2> QED BY <2>3, <1>10 DEF LoadsTyped, LoadTyped
  <1>12. LoadsInOrder'
    <2>1. ASSUME NEW i \in 1 .. n + 1, NEW j \in 1 .. n + 1, i < j PROVE navs'[i].start < navs'[j].start
      <3>1. i \in 1 .. n /\ n \in 1 .. n /\ navs # <<>>
        BY <2>1, <1>8
      <3>2. CASE j \in 1 .. n
        <4>1. navs[i].start < navs[j].start
          BY <1>8, <2>1, <3>1, <3>2 DEF TraceInv, LoadsInOrder
        <4> QED BY <4>1, <3>1, <3>2, <1>9
      <3>3. CASE j = n + 1
        <4>1. navs[n].start < start /\ navs[n].start \in Nat /\ navs[i].start \in Nat
          <5>1. \A v \in 1 .. n : navs[v].start \in Nat
            <6>1. \A v \in 1 .. n : navs[v] \in Load
              BY <1>8
            <6> QED BY <6>1 DEF Load
          <5>2. start > navs[n].start
            BY <1>2, <3>1 DEF Last, n
          <5> QED BY <5>1, <5>2, <3>1, <1>6
        <4>2. navs[i].start <= navs[n].start
          <5>1. CASE i = n
            BY <4>1, <5>1
          <5>2. CASE i # n
            <6>1. i < n
              BY <5>2, <3>1, <1>8
            <6>2. navs[i].start < navs[n].start
              BY <6>1, <1>8, <3>1 DEF TraceInv, LoadsInOrder
            <6> QED BY <6>2, <4>1
          <5> QED BY <5>1, <5>2
        <4>3. navs[i].start < new.start
          BY <4>1, <4>2, <1>4, <1>6
        <4> QED BY <4>3, <3>1, <3>3, <1>9
      <3> QED BY <3>2, <3>3, <1>8
    <2> QED BY <1>10, <2>1 DEF LoadsInOrder
  <1>13. Len(trace') + Len(navs') <= MaxEvents
    <2>1. Len(trace) = 0 /\ n < MaxEvents
      BY <1>1, AnalysesAssumption, <1>8 DEF Smaller, n
    <2> QED BY <1>1, <1>8, <1>9, <2>1, AnalysesAssumption
  <1>14. (SlicesTyped /\ InOrder /\ WithinParent /\ UnderTheNearest /\ trace \in Seq(Slice) /\ purpose \in Tools
            /\ (purpose \in {"main_thread_hotspots", "resource_hotspots"} => Len(trace) <= 2))'
    BY <1>1 DEF TraceInv, SlicesTyped, SliceTyped, InOrder, WithinParent, UnderTheNearest
  <1> QED BY <1>9, <1>11, <1>12, <1>13, <1>14 DEF TraceInv

LEMMA TraceKept == TraceInv /\ [Next]_vars => TraceInv'
PROOF
  <1> SUFFICES ASSUME TraceInv, [Next]_vars PROVE TraceInv'
    OBVIOUS
  <1>1. CASE AddSlice
    BY <1>1, AddSliceKeeps
  <1>2. CASE AddLoad
    BY <1>2, AddLoadKeeps
  <1>3. CASE Ask \/ Follow \/ Done \/ UNCHANGED vars
    <2>1. UNCHANGED <<purpose, trace, navs>>
      BY <1>3 DEF Ask, Follow, Done, vars, Answer
    <2> QED BY <2>1 DEF TraceInv, SlicesTyped, SliceTyped, InOrder, WithinParent, UnderTheNearest, LoadsTyped,
                        LoadTyped, LoadsInOrder
  <1> QED BY <1>1, <1>2, <1>3 DEF Next

LEMMA StartsRight == Init => TraceInv /\ AskedInv
PROOF
  <1> SUFFICES ASSUME Init PROVE TraceInv /\ AskedInv
    OBVIOUS
  <1>1. /\ purpose \in Tools /\ trace = <<>> /\ navs = <<>> /\ asked.tool = None /\ answer = NoAnswer
    BY DEF Init, Asking
  <1>2. TraceInv
    BY <1>1, AnalysesAssumption DEF TraceInv, SlicesTyped, InOrder, WithinParent, UnderTheNearest, LoadsTyped, LoadsInOrder
  <1>3. AskedInv
    BY <1>1, NullIsNoTool DEF AskedInv
  <1> QED BY <1>2, <1>3
-------------------------------------------------------------------------------
\* What a slice of the trace is like.
LEMMA SliceFacts ==
  ASSUME TraceInv, NEW i \in DOMAIN trace
  PROVE  /\ i \in Nat /\ trace[i].ts \in Nat /\ trace[i].dur \in Int /\ trace[i].ts <= TraceEnd - 1
         /\ trace[i].dur = Incomplete \/ (trace[i].dur >= 0 /\ End(trace[i]) <= TraceEnd)
         /\ End(trace[i]) \in Int /\ TraceEnd \in Nat
         /\ trace[i].parent = None \/ trace[i].parent \in 1 .. i - 1
         /\ Kind(trace[i].track, trace[i].name, trace[i].args) \in Kinds(purpose)
PROOF
  <1>1. SliceTyped(trace[i], i) /\ i \in Nat
    BY PlacesFinite DEF TraceInv, SlicesTyped
  <1>2. TraceEnd \in Nat
    BY TraceAssumption
  <1>3. trace[i].ts \in Nat /\ trace[i].ts <= TraceEnd - 1
    BY <1>1, <1>2 DEF SliceTyped
  <1>4. trace[i].dur \in Int /\ (trace[i].dur = Incomplete \/ (trace[i].dur >= 0 /\ trace[i].ts + trace[i].dur <= TraceEnd))
    BY <1>1, <1>2, <1>3 DEF SliceTyped, Incomplete
  <1> QED BY <1>1, <1>2, <1>3, <1>4 DEF SliceTyped, End

\* The bounds of the phases of a page load.
LEMMA PhaseBounds ==
  ASSUME TraceInv, NEW n \in DOMAIN navs, NEW p \in DOMAIN Phases
  PROVE  /\ Phases[p][1] # Phases[p][2]
         /\ navs[n][Phases[p][1]] \in Nat \cup {None} /\ navs[n][Phases[p][2]] \in {None, 1, 2, 3}
         /\ navs[n].start \in 0 .. TraceEnd - 1
PROOF
  <1>1. LoadTyped(navs[n])
    BY DEF TraceInv, LoadsTyped
  <1>2. navs[n].start \in Nat
    BY <1>1, TraceAssumption DEF LoadTyped
  <1>3. CASE p = "navigation_to_fcp"
    <2>1. Phases[p][1] = "start" /\ Phases[p][2] = "fcp"
      BY <1>3 DEF Phases
    <2> QED BY <1>1, <1>2, <2>1 DEF LoadTyped
  <1>4. CASE p = "navigation_to_load"
    <2>1. Phases[p][1] = "start" /\ Phases[p][2] = "load"
      BY <1>4 DEF Phases
    <2> QED BY <1>1, <1>2, <2>1 DEF LoadTyped
  <1>5. CASE p = "dcl_to_fcp"
    <2>1. Phases[p][1] = "dcl" /\ Phases[p][2] = "fcp"
      BY <1>5 DEF Phases
    <2> QED BY <1>1, <1>2, <2>1 DEF LoadTyped
  <1>6. CASE p = "fcp_to_load"
    <2>1. Phases[p][1] = "fcp" /\ Phases[p][2] = "load"
      BY <1>6 DEF Phases
    <2> QED BY <1>1, <1>2, <2>1 DEF LoadTyped
  <1> QED BY <1>3, <1>4, <1>5, <1>6 DEF Phases

\* The load a window is taken from is the one that started last.
LEMMA LatestIs ==
  ASSUME TraceInv, NEW q, Matching(q, navs) # {}
  PROVE  Latest(q, navs) \in Matching(q, navs) /\ \A m \in Matching(q, navs) : m <= Latest(q, navs)
PROOF
  <1>1. DOMAIN navs = 1 .. Len(navs) /\ Len(navs) \in Nat
    BY DEF TraceInv
  <1>2. IsFiniteSet(1 .. Len(navs))
    BY <1>1, FS_Interval
  <1> DEFINE S == Matching(q, navs)
  <1>3. S \in SUBSET (1 .. Len(navs))
    BY <1>1 DEF Matching
  <1>4. IsFiniteSet(S) /\ S \subseteq Int
    BY <1>1, <1>2, <1>3, FS_Subset
  <1> HIDE DEF S
  <1>5. S # {}
    BY DEF S
  <1>6. Max(S) \in S /\ \A y \in S : Max(S) >= y
    BY <1>4, <1>5, Extremes
  <1>7. \A y \in S : y <= Max(S)
    BY <1>4, <1>6
  <1> QED BY <1>6, <1>7 DEF S, Latest

LEMMA PhaseIs == ASSUME NEW q \in Plain PROVE Phase(q) = None \/ Phase(q) \in DOMAIN Phases
PROOF
  <1>1. q.phase \in {None} \cup DOMAIN Phases
    BY DEF Plain, QuestionSet
  <1>2. "navigation_to_fcp" \in DOMAIN Phases
    BY DEF Phases
  <1> QED BY <1>1, <1>2 DEF Phase

WindowTyped(w) ==
  /\ w.start \in Int \cup {None} /\ w.end \in Int \cup {None}
  /\ w.end # None => w.end <= TraceEnd
  /\ w.empty \in BOOLEAN

\* Bounds of a window that are given are instants, and the upper one is in the trace.
LEMMA WindowIsTyped == ASSUME TraceInv, NEW q \in Plain PROVE WindowTyped(Window(q, navs))
PROOF
  <1> DEFINE w == Window(q, navs)
             phase == Phase(q)
             nav   == navs[Latest(q, navs)]
             from  == nav[Phases[phase][1]]
             to    == nav[Phases[phase][2]]
             start == IF phase = None THEN q.from ELSE Later(from, q.from)
             end   == IF phase = None THEN q.to ELSE Earlier(to, q.to)
  <1>1. w = IF phase # None /\ (Matching(q, navs) = {} \/ None \in {from, to}) THEN Closed
            ELSE IF None \notin {start, end} /\ end <= start THEN Closed
            ELSE [empty |-> FALSE, start |-> start, end |-> end]
    BY DEF Window
  <1>2. q.from \in {None, -1, 1, 2} /\ q.to \in {None, 1, 2}
    BY DEF Plain, QuestionSet
  <1>3. WindowTyped(Closed)
    BY DEF WindowTyped, Closed
  <1>4. CASE phase # None /\ (Matching(q, navs) = {} \/ None \in {from, to})
    BY <1>1, <1>3, <1>4
  <1>5. CASE ~(phase # None /\ (Matching(q, navs) = {} \/ None \in {from, to}))
    <2>1. start \in Int \cup {None} /\ end \in Int \cup {None} /\ (end # None => end <= TraceEnd)
      <3>0. 3 <= TraceEnd /\ TraceEnd \in Nat
        BY AnalysesAssumption, TraceAssumption
      <3>1. CASE phase = None
        BY <3>0, <3>1, <1>2
      <3>2. CASE phase # None
        <4>1. phase \in DOMAIN Phases
          BY <3>2, PhaseIs
        <4>2. Latest(q, navs) \in DOMAIN navs
          BY <1>5, <3>2, LatestIs DEF Matching
        <4>3. from \in Nat /\ to \in {1, 2, 3}
          BY <4>1, <4>2, <1>5, <3>2, PhaseBounds
        <4>4. start = Later(from, q.from) /\ end = Earlier(to, q.to)
          BY <3>2
        <4> HIDE DEF start, end, from, to
        <4>5. start \in Int
          BY <1>2, <4>3, <4>4 DEF Later, Larger
        <4>6. end \in Int /\ end <= 3
          BY <1>2, <4>3, <4>4 DEF Earlier, Smaller
        <4> QED BY <3>0, <4>5, <4>6
      <3> QED BY <3>1, <3>2
    <2>2. w = Closed \/ w = [empty |-> FALSE, start |-> start, end |-> end]
      BY <1>1, <1>5
    <2> HIDE DEF start, end, w
    <2>3. WindowTyped([empty |-> FALSE, start |-> start, end |-> end])
      BY <2>1 DEF WindowTyped
    <2>4. WindowTyped(w)
      BY <1>3, <2>2, <2>3
    <2> QED BY <2>4 DEF w
  <1> QED BY <1>4, <1>5

LEMMA OverlapIsTyped ==
  ASSUME TraceInv, NEW w, WindowTyped(w), NEW i \in DOMAIN trace
  PROVE  /\ ResourceOverlap(trace[i], w) \in Int /\ TaskOverlap(trace[i], w) \in Int
         /\ ResourceEnd(trace[i], w) \in Int /\ OverlapStart(trace[i], w) \in Int /\ TaskEnd(trace[i], w) \in Int
PROOF
  <1>1. /\ trace[i].ts \in Int /\ trace[i].dur \in Int /\ End(trace[i]) \in Int /\ TraceEnd \in Int
        /\ w.start \in Int \cup {None} /\ w.end \in Int \cup {None} /\ None \notin Int
    <2>1. trace[i].ts \in Int /\ trace[i].dur \in Int /\ End(trace[i]) \in Int /\ TraceEnd \in Int
      BY SliceFacts
    <2>2. w.start \in Int \cup {None} /\ w.end \in Int \cup {None} /\ None \notin Int
      BY NullIsNoTool DEF WindowTyped
    <2> QED BY <2>1, <2>2
  <1>2. OverlapStart(trace[i], w) \in Int
    BY <1>1 DEF OverlapStart, Later, Larger
  <1>3. ResourceEnd(trace[i], w) \in Int
    BY <1>1 DEF ResourceEnd, Earlier, Smaller
  <1>4. TaskEnd(trace[i], w) \in Int
    BY <1>1 DEF TaskEnd, Earlier, Smaller
  <1> QED BY <1>1, <1>2, <1>3, <1>4 DEF ResourceOverlap, TaskOverlap
-------------------------------------------------------------------------------
\* The resources of a URL.
KeyOf(tr, i, grouping) == UrlKey(SelectedUrl(tr[i]), grouping)
OfKey(tr, w, k, grouping) == {i \in Candidates(tr, w, 0) : KeyOf(tr, i, grouping) = k}

Laps(tr, w, S) == {ResourceOverlap(tr[i], w) : i \in S}

\* What both tools say of a resource.
Tells(r, tr, w, k, S) ==
  r.key = k /\ r.count = Cardinality(S) /\ r.max = Max(Laps(tr, w, S)) /\ r.example = ByOverlap(tr, w, S)

\* A row of the summary tells of the resources of a URL.
LEMMA SummaryRowIs ==
  ASSUME NEW w, NEW q, NEW r \in SummaryRows(trace, navs, w, q)
  PROVE  \E i \in Candidates(trace, w, 0) :
           LET k == KeyOf(trace, i, q.grouping) IN Tells(r, trace, w, k, OfKey(trace, w, k, q.grouping))
PROOF
  <1> DEFINE rows    == Candidates(trace, w, 0)
             context == Context(q, navs)
             targets == Targets(trace, w, context)
             key(i)  == UrlKey(SelectedUrl(trace[i]), q.grouping)
             of(k)   == {i \in rows : key(i) = k}
             lap(i)  == ResourceOverlap(trace[i], w)
             upids(k) == {ProcessOf(trace[i].track) : i \in of(k)} \ {None}
             a       == context.status
             b(k)    == Relation(k, context, q.grouping)
             c(k)    == RendererRelation(upids(k), \E i \in of(k) : InRenderer(trace[i].track), targets)
             d(k)    == Cardinality({i \in of(k) : trace[i].dur < 0})
             e(k)    == SumFunction([i \in of(k) |-> lap(i)])
             f(k)    == Max({ResourceEnd(trace[i], w) : i \in of(k)}) - Min({OverlapStart(trace[i], w) : i \in of(k)})
             g(k)    == Min({OverlapStart(trace[i], w) : i \in of(k)})
             h(k)    == ByOverlap(trace, w, {i \in of(k) : trace[i].name \notin NotDetailed})
             count(k)   == Cardinality(of(k))
             max(k)     == Max({lap(i) : i \in of(k)})
             example(k) == ByOverlap(trace, w, of(k))
             row(k)  == [key |-> k, context |-> a, relation |-> b(k), upids |-> upids(k), renderer |-> c(k),
                         count |-> count(k), unended |-> d(k), max |-> max(k), summed |-> e(k), span |-> f(k),
                         first |-> g(k), example |-> example(k), detail |-> h(k)]
  <1>1. SummaryRows(trace, navs, w, q) = {s \in {row(key(i)) : i \in rows} : s.max >= q.min}
    BY DEF SummaryRows
  <1>2. \A k : row(k).key = k /\ row(k).count = count(k) /\ row(k).max = max(k) /\ row(k).example = example(k)
    <2> HIDE DEF a, b, c, d, e, f, g, h, count, max, example, upids
    <2> QED OBVIOUS
  <1>3. PICK i \in rows : r = row(key(i))
    <2> HIDE DEF row, key, rows
    <2> QED BY <1>1
  <1>4. of(key(i)) = OfKey(trace, w, KeyOf(trace, i, q.grouping), q.grouping) /\ key(i) = KeyOf(trace, i, q.grouping)
    BY DEF OfKey, KeyOf
  <1> DEFINE k == KeyOf(trace, i, q.grouping)
             S == OfKey(trace, w, k, q.grouping)
  <1>5. count(k) = Cardinality(S) /\ max(k) = Max(Laps(trace, w, S)) /\ example(k) = ByOverlap(trace, w, S)
    BY <1>4 DEF Laps
  <1>6. r = row(k)
    BY <1>3, <1>4
  <1> HIDE DEF row, count, max, example
  <1>7. r.key = k /\ r.count = count(k) /\ r.max = max(k) /\ r.example = example(k)
    BY <1>2, <1>6
  <1>8. Tells(r, trace, w, k, S)
    BY <1>5, <1>7 DEF Tells
  <1> QED BY <1>8

\* A pipeline of one URL has one row, which tells of the same resources.
LEMMA OneKeyRow ==
  ASSUME NEW w, NEW q, NEW k,
         PipelineResources(trace, w, q) = OfKey(trace, w, k, q.grouping),
         OfKey(trace, w, k, q.grouping) # {}
  PROVE  \E p : PipelineRows(trace, w, q) = {p} /\ Tells(p, trace, w, k, OfKey(trace, w, k, q.grouping))
PROOF
  <1> DEFINE rows    == PipelineResources(trace, w, q)
             key(i)  == UrlKey(SelectedUrl(trace[i]), q.grouping)
             keys    == {key(i) : i \in rows}
             scripts == PipelineScripts(trace, w, keys, q)
             of(x)   == {i \in rows : key(i) = x}
             runs(x) == {i \in scripts : key(i) = x}
             lap(i)  == ResourceOverlap(trace[i], w)
             ran(i)  == TaskOverlap(trace[i], w)
             by(i)   == MatchedBy(trace, SelectedUrl(trace[i]), q)
             best(x) == First([i \in of(x) |-> <<MatchRank(by(i)), lap(i), trace[i].dur>>])
             named(S, names) == {i \in S : trace[i].name \in names}
             work(x, kind)   == Rollup(trace, w, runs(x), scripts, PipelineWork[kind])
             a(x) == by(best(x))
             b(x) == Min({trace[i].ts : i \in of(x)})
             c(x) == Largest({lap(i) : i \in named(of(x), RequestNames)})
             d(x) == ByOverlap(trace, w, {i \in of(x) : trace[i].name \notin NotDetailed})
             e(x) == ResultsOf(trace, of(x))
             f(x) == Cardinality(runs(x))
             g(x) == SumFunction([i \in named(runs(x), BackgroundParse) |-> ran(i)])
             h(x) == SumFunction([i \in named(runs(x), Evaluations) |-> ran(i)])
             l(x) == Largest({ran(i) : i \in named(runs(x), Callbacks)})
             m(x) == First([i \in runs(x) |-> <<ran(i), trace[i].dur>>])
             count(x) == Cardinality(of(x))
             max(x) == Max({lap(i) : i \in of(x)})
             example(x) == ByOverlap(trace, w, of(x))
             forced(x) == work(x, "forced")
             style(x) == work(x, "style")
             layout(x) == work(x, "layout")
             row(x)  == [key |-> x, matched |-> a(x), count |-> count(x), max |-> max(x), first |-> b(x), request |-> c(x),
                         example |-> example(x), detail |-> d(x), results |-> e(x), scripts |-> f(x), background |-> g(x),
                         evaluated |-> h(x), callback |-> l(x), forced |-> forced(x), style |-> style(x),
                         layout |-> layout(x), script |-> m(x)]
  <1>1. PipelineRows(trace, w, q) = {row(x) : x \in keys}
    BY DEF PipelineRows
  <1>2. keys = {k}
    BY DEF OfKey, KeyOf
  <1>3. of(k) = OfKey(trace, w, k, q.grouping)
    BY DEF OfKey, KeyOf
  <1>4. /\ count(k) = Cardinality(OfKey(trace, w, k, q.grouping))
        /\ max(k) = Max(Laps(trace, w, OfKey(trace, w, k, q.grouping)))
        /\ example(k) = ByOverlap(trace, w, OfKey(trace, w, k, q.grouping))
    BY <1>3 DEF Laps
  <1>5. row(k).key = k /\ row(k).count = count(k) /\ row(k).max = max(k) /\ row(k).example = example(k)
    <2> HIDE DEF a, b, c, d, e, f, g, h, l, m, count, max, example, forced, style, layout
    <2> QED OBVIOUS
  <1> HIDE DEF row, count, max, example, keys
  <1>6. PipelineRows(trace, w, q) = {row(k)}
    BY <1>1, <1>2
  <1>7. Tells(row(k), trace, w, k, OfKey(trace, w, k, q.grouping))
    BY <1>4, <1>5 DEF Tells
  <1> QED BY <1>6, <1>7
-------------------------------------------------------------------------------
\* A limit that is not reached leaves all rows; and no limit adds any.
LEMMA AllOfFew ==
  ASSUME NEW rank, IsFiniteSet(DOMAIN rank), NEW n \in Nat, Cardinality(DOMAIN rank) <= n
  PROVE  Tops(rank, n) = {DOMAIN rank}
PROOF BY DEF Tops

LEMMA OnlyTheirRows ==
  ASSUME NEW rank, NEW n, NEW top \in Tops(rank, n)
  PROVE  top \subseteq DOMAIN rank
PROOF BY DEF Tops, kSubset

\* A resource that is looked into by its example, in the window it is of.
Into(q, i) == [q EXCEPT !.example = i, !.min = 0, !.limit = None]

\* The pipeline of an example has the one row of its URL.
LEMMA LookedInto ==
  ASSUME TraceInv, NEW q \in Plain, ResourcesAllowed(q), NEW i \in Candidates(trace, Window(q, navs), 0),
         NEW a, Answered("resource_pipeline", Into(q, i), trace, navs, a)
  PROVE  LET w == Window(q, navs)
             k == KeyOf(trace, i, q.grouping)
             S == OfKey(trace, w, k, q.grouping)
         IN  \E p : a.rows = {p} /\ Tells(p, trace, w, k, S)
PROOF
  <1> DEFINE w == Window(q, navs)
             k == KeyOf(trace, i, q.grouping)
             S == OfKey(trace, w, k, q.grouping)
             n == Into(q, i)
  <1>1. q \in QuestionSet /\ q.part = None
    BY DEF Plain
  <1>2. /\ n.page = q.page /\ n.nav = q.nav /\ n.phase = q.phase /\ n.from = q.from /\ n.to = q.to
        /\ n.part = None /\ n.example = i /\ n.limit = None /\ n.grouping = q.grouping
    BY <1>1 DEF Into, QuestionSet
  <1> HIDE DEF n
  <1>3. Window(n, navs) = w
    BY <1>2 DEF Window, Phase, Latest, Matching
  <1>4. i \in DOMAIN trace /\ SelectedUrl(trace[i]) # None
    BY DEF Candidates
  <1>5. i # None /\ None # 0
    <2>1. i \in Int /\ 0 \in Int
      BY <1>4, SliceFacts
    <2> QED BY <2>1, NullIsNoTool
  <1>6. PipelineAllowed(n)
    <2>1. WindowAllowed(n)
      BY <1>2 DEF ResourcesAllowed, WindowAllowed
    <2> QED BY <2>1, <1>2, <1>5, NullIsNoTool DEF PipelineAllowed, LimitAllowed
  <1>7. PipelineResources(trace, w, n) = S
    <2>1. \A url : ~HasPart(url, n)
      BY <1>2 DEF HasPart
    <2>2. UrlOf(trace, n.example) = SelectedUrl(trace[i])
      BY <1>2, <1>4 DEF UrlOf
    <2>3. \A url : LikeExample(trace, url, n) <=> UrlKey(url, q.grouping) = k
      BY <1>2, <1>4, <1>5, <2>2 DEF LikeExample, KeyOf
    <2> QED BY <2>1, <2>3 DEF PipelineResources, OfKey, KeyOf
  <1>8. i \in S
    BY DEF OfKey
  <1>9. PICK p : PipelineRows(trace, w, n) = {p} /\ Tells(p, trace, w, k, S)
    <2> DEFINE g == n.grouping
    <2>1. S = OfKey(trace, w, k, g)
      BY <1>2
    <2> HIDE DEF S, k, w
    <2>2. PipelineResources(trace, w, n) = OfKey(trace, w, k, g) /\ OfKey(trace, w, k, g) # {}
      BY <1>7, <1>8, <2>1
    <2>3. \E p : PipelineRows(trace, w, n) = {p} /\ Tells(p, trace, w, k, OfKey(trace, w, k, g))
      BY <2>2, OneKeyRow
    <2> QED BY <2>1, <2>3
  <1> DEFINE tool == "resource_pipeline"
             rank == PipelineRank({p})
  <1>10. Permitted(tool, n) /\ Ranked(tool, n, trace, navs) = rank /\ Default(tool) = 30
    <2>1. Ranked(tool, n, trace, navs) = PipelineRank(PipelineRows(trace, Window(n, navs), n))
      BY DEF Ranked
    <2>2. Permitted(tool, n) <=> PipelineAllowed(n)
      BY DEF Permitted
    <2> QED BY <2>1, <2>2, <1>3, <1>6, <1>9 DEF Default
  <1>11. a.rows \in Tops(rank, 30)
    <2>1. RowsUpTo(n.limit, 30) = 30
      BY <1>2 DEF RowsUpTo
    <2>2. Answered(tool, n, trace, navs, a)
      BY DEF n
    <2>3. a.rows \in Tops(Ranked(tool, n, trace, navs), RowsUpTo(n.limit, Default(tool)))
      <3> HIDE DEF tool
      <3> QED BY <2>2, <1>10 DEF Answered
    <2> QED BY <2>1, <2>3, <1>10
  <1>12. DOMAIN rank = {p} /\ IsFiniteSet({p}) /\ Cardinality({p}) = 1
    BY FS_Singleton DEF PipelineRank
  <1>13. a.rows = {p}
    <2> DEFINE most == 30
    <2>1. most \in Nat /\ Cardinality(DOMAIN rank) <= most /\ IsFiniteSet(DOMAIN rank) /\ a.rows \in Tops(rank, most)
      BY <1>11, <1>12
    <2> HIDE DEF rank, most
    <2>2. Tops(rank, most) = {DOMAIN rank}
      BY <2>1, AllOfFew
    <2> QED BY <2>1, <2>2, <1>12
  <1> QED BY <1>9, <1>13

LEMMA ExampleIsOne ==
  ASSUME TraceInv, NEW w, WindowTyped(w), NEW S \in SUBSET DOMAIN trace, S # {}
  PROVE  ByOverlap(trace, w, S) \in S
PROOF
  <1> DEFINE a == [i \in S |-> ResourceOverlap(trace[i], w)]
             b == [i \in S |-> trace[i].dur]
  <1>1. IsFiniteSet(S) /\ S \subseteq Nat
    BY PlacesFinite, FS_Subset
  <1>2. \A i \in S : a[i] = ResourceOverlap(trace[i], w) /\ b[i] = trace[i].dur /\ a[i] \in Int /\ b[i] \in Int
    BY OverlapIsTyped, SliceFacts
  <1>3. [i \in S |-> <<a[i], b[i]>>] = [i \in S |-> <<ResourceOverlap(trace[i], w), trace[i].dur>>]
    OBVIOUS
  <1> HIDE DEF a, b
  <1>4. First([i \in S |-> <<a[i], b[i]>>]) \in S
    BY <1>1, <1>2, FirstIsOne
  <1> QED BY <1>3, <1>4 DEF ByOverlap

Drill ==
  asked'.tool = "resource_pipeline" /\ asked.tool # None =>
       \A r \in answer.rows :
         /\ asked.tool = "resource_summary" /\ r.example = asked'.q.example =>
              \E p \in answer'.rows : p.key = r.key /\ p.count = r.count /\ p.max = r.max /\ p.example = r.example
         /\ asked.tool = "resource_hotspots" /\ r.id = asked'.q.example =>
              \E p \in answer'.rows : p.max >= r.overlap

\* The question that is followed: its rows are what the tool found.
LEMMA FollowedRows ==
  ASSUME TraceInv, AskedInv, asked.tool \in {"resource_summary", "resource_hotspots"}, NEW r \in answer.rows
  PROVE  /\ asked.q \in Plain /\ ResourcesAllowed(asked.q)
         /\ asked.tool = "resource_summary" => r \in SummaryRows(trace, navs, Window(asked.q, navs), asked.q)
         /\ asked.tool = "resource_hotspots" => r \in HotspotRows(trace, Window(asked.q, navs), asked.q)
PROOF
  <1> DEFINE q == asked.q
             tool == asked.tool
  <1>1. tool = purpose /\ tool \in Tools \ {"resource_pipeline"} /\ tool # None
    BY NullIsNoTool DEF AskedInv, Tools
  <1>2. q \in Plain
    BY <1>1, QuestionsPlain DEF AskedInv
  <1>3. Answered(tool, q, trace, navs, answer)
    BY <1>1 DEF AskedInv
  <1>4. Permitted(tool, q) /\ answer.rows \in Tops(Ranked(tool, q, trace, navs), RowsUpTo(q.limit, Default(tool)))
    BY <1>3 DEF Answered, NoAnswer
  <1>5. r \in DOMAIN Ranked(tool, q, trace, navs)
    BY <1>4, OnlyTheirRows
  <1>6. CASE tool = "resource_summary"
    <2>1. Permitted(tool, q) <=> ResourcesAllowed(q)
      BY <1>6 DEF Permitted
    <2>2. Ranked(tool, q, trace, navs) = SummaryRank(SummaryRows(trace, navs, Window(q, navs), q))
      BY <1>6 DEF Ranked
    <2> QED BY <1>2, <1>4, <1>5, <1>6, <2>1, <2>2 DEF SummaryRank
  <1>7. CASE tool = "resource_hotspots"
    <2>1. Permitted(tool, q) <=> ResourcesAllowed(q)
      BY <1>7 DEF Permitted
    <2>2. Ranked(tool, q, trace, navs) = HotspotRank(HotspotRows(trace, Window(q, navs), q))
      BY <1>7 DEF Ranked
    <2> QED BY <1>2, <1>4, <1>5, <1>7, <2>1, <2>2 DEF HotspotRank
  <1> QED BY <1>6, <1>7

\* The question that follows finds what it was about.
LEMMA DrillStep == TraceInv /\ AskedInv /\ [Next]_vars => (Drill \/ UNCHANGED vars)
PROOF
  <1> SUFFICES ASSUME TraceInv, AskedInv, Next, asked'.tool = "resource_pipeline", asked.tool # None,
                      NEW r \in answer.rows
               PROVE  /\ asked.tool = "resource_summary" /\ r.example = asked'.q.example =>
                           \E p \in answer'.rows : /\ p.key = r.key /\ p.count = r.count /\ p.max = r.max
                                                   /\ p.example = r.example
                      /\ asked.tool = "resource_hotspots" /\ r.id = asked'.q.example =>
                           \E p \in answer'.rows : p.max >= r.overlap
    BY DEF Drill
  <1>1. Follow
    <2>1. ~AddSlice /\ ~AddLoad /\ ~Ask
      BY DEF AddSlice, AddLoad, Ask, Recording
    <2>2. ~Done
      <3>1. "resource_pipeline" \in Tools
        BY DEF Tools
      <3>2. Done => asked'.tool = None
        BY DEF Done, Asking
      <3> QED BY <3>1, <3>2, NullIsNoTool
    <2> QED BY <2>1, <2>2 DEF Next
  <1>2. asked.tool \in {"resource_summary", "resource_hotspots"}
    BY <1>1 DEF Follow
  <1> DEFINE q == asked.q
             w == Window(q, navs)
             i == asked'.q.example
  <1>3. /\ q \in Plain /\ ResourcesAllowed(q)
        /\ asked.tool = "resource_summary" => r \in SummaryRows(trace, navs, w, q)
        /\ asked.tool = "resource_hotspots" => r \in HotspotRows(trace, w, q)
    BY <1>2, FollowedRows
  <1>4. asked'.q = Into(q, i) /\ Answered("resource_pipeline", Into(q, i), trace, navs, answer')
    <2> DEFINE tool == "resource_pipeline"
    <2>1. PICK x : Answer(tool, [q EXCEPT !.example = x, !.min = 0, !.limit = None])
      BY <1>1 DEF Follow
    <2>2. tool \in Tools
      BY DEF Tools
    <2> DEFINE n == [q EXCEPT !.example = x, !.min = 0, !.limit = None]
    <2>3. n.example = x /\ n = Into(q, x)
      BY <1>3 DEF Plain, QuestionSet, Into
    <2> HIDE DEF tool, n
    <2>4. Answered(tool, n, trace, navs, answer') /\ asked' = Asking(tool, n)
      BY <2>1, <2>2, AnswerGives DEF n
    <2> QED BY <2>3, <2>4 DEF Asking, tool
  <1>5. WindowTyped(w)
    BY <1>3, WindowIsTyped
  <1>6. Candidates(trace, w, 0) \subseteq DOMAIN trace
    BY DEF Candidates
  <1> HIDE DEF w, i
  <1>7. CASE asked.tool = "resource_summary" /\ r.example = i
    <2>1. PICK j \in Candidates(trace, w, 0) :
             LET k == KeyOf(trace, j, q.grouping) IN Tells(r, trace, w, k, OfKey(trace, w, k, q.grouping))
      BY <1>3, <1>7, SummaryRowIs
    <2> DEFINE k == KeyOf(trace, j, q.grouping)
               S == OfKey(trace, w, k, q.grouping)
    <2>2. j \in S /\ S \in SUBSET DOMAIN trace /\ S \subseteq Candidates(trace, w, 0)
      BY <1>6 DEF OfKey
    <2>3. i \in S
      BY <1>5, <1>7, <2>1, <2>2, ExampleIsOne DEF Tells
    <2>4. KeyOf(trace, i, q.grouping) = k
      BY <2>3 DEF OfKey
    <2>5. \E p : answer'.rows = {p} /\ Tells(p, trace, w, k, S)
      <3>1. i \in Candidates(trace, w, 0)
        BY <2>2, <2>3
      <3> DEFINE ki == KeyOf(trace, i, q.grouping)
      <3>2. \E p : answer'.rows = {p} /\ Tells(p, trace, w, ki, OfKey(trace, w, ki, q.grouping))
        BY <1>3, <1>4, <3>1, LookedInto DEF w
      <3> QED BY <3>2, <2>4
    <2> HIDE DEF k, S
    <2>6. Tells(r, trace, w, k, S)
      BY <2>1 DEF k, S
    <2> QED BY <1>7, <2>5, <2>6 DEF i, Tells
  <1>8. CASE asked.tool = "resource_hotspots" /\ r.id = i
    <2>1. i \in Candidates(trace, w, q.min) /\ r.overlap = ResourceOverlap(trace[i], w)
      BY <1>3, <1>8 DEF HotspotRows
    <2>2. i \in DOMAIN trace /\ ResourceOverlap(trace[i], w) \in Int
      BY <2>1, <1>5, OverlapIsTyped DEF Candidates
    <2>3. i \in Candidates(trace, w, 0)
      <3>1. q.min \in {0, 2}
        BY <1>3 DEF Plain, QuestionSet
      <3> QED BY <2>1, <2>2, <3>1 DEF Candidates
    <2> DEFINE k == KeyOf(trace, i, q.grouping)
               S == OfKey(trace, w, k, q.grouping)
               laps == Laps(trace, w, S)
    <2>5. PICK p : answer'.rows = {p} /\ p.max = Max(laps)
      <3>1. \E p : answer'.rows = {p} /\ Tells(p, trace, w, k, S)
        BY <1>3, <1>4, <2>3, LookedInto DEF w
      <3> QED BY <3>1 DEF Tells
    <2>6. i \in S /\ S \in SUBSET DOMAIN trace
      BY <1>6, <2>3 DEF OfKey
    <2>7. IsFiniteSet(laps) /\ laps \subseteq Int /\ r.overlap \in laps
      <3>1. IsFiniteSet(S)
        BY <2>6, PlacesFinite, FS_Subset
      <3>2. IsFiniteSet(laps)
        <4> DEFINE lap == [l \in S |-> ResourceOverlap(trace[l], w)]
        <4> HIDE DEF S
        <4>1. laps = {lap[l] : l \in S}
          BY DEF Laps
        <4> HIDE DEF lap, laps
        <4> QED BY <4>1, <3>1, Images
      <3>3. \A l \in S : ResourceOverlap(trace[l], w) \in Int
        BY <1>5, <2>6, OverlapIsTyped
      <3> QED BY <3>2, <3>3, <2>1, <2>6 DEF Laps
    <2>8. Max(laps) >= r.overlap
      <3> HIDE DEF laps
      <3> QED BY <2>7, Extremes
    <2> QED BY <1>8, <2>5, <2>8 DEF i
  <1> QED BY <1>7, <1>8 DEF i
-------------------------------------------------------------------------------
\* A window says which instants are asked about.
InWindow(t, w) == ~w.empty /\ (w.start = None \/ w.start <= t) /\ (w.end = None \/ t < w.end)

\* What is asked about is what is in the window of the query.
LEMMA AskedIs ==
  ASSUME TraceInv, NEW q \in Plain, NEW t \in 0 .. TraceEnd - 1
  PROVE  t \in Asked(q) <=> InWindow(t, Window(q, navs))
PROOF
  <1> DEFINE w     == Window(q, navs)
             phase == Phase(q)
             nav   == navs[Latest(q, navs)]
             from  == nav[Phases[phase][1]]
             to    == nav[Phases[phase][2]]
             start == IF phase = None THEN q.from ELSE Later(from, q.from)
             end   == IF phase = None THEN q.to ELSE Earlier(to, q.to)
             loads == {n \in DOMAIN navs : q.page \in {None, n} /\ q.nav \in {None, n}}
             meant == {n \in loads : \A m \in loads : navs[m].start <= navs[n].start}
             reached(n) == /\ None \notin {navs[n][Phases[phase][1]], navs[n][Phases[phase][2]]}
                           /\ navs[n][Phases[phase][1]] <= t /\ t < navs[n][Phases[phase][2]]
  <1>1. w = IF phase # None /\ (Matching(q, navs) = {} \/ None \in {from, to}) THEN Closed
            ELSE IF None \notin {start, end} /\ end <= start THEN Closed
            ELSE [empty |-> FALSE, start |-> start, end |-> end]
    BY DEF Window
  <1>2. q.from \in {None, -1, 1, 2} /\ q.to \in {None, 1, 2} /\ None \notin Int /\ t \in Int
    <2>1. q \in QuestionSet
      BY DEF Plain
    <2>2. q.from \in {None, -1, 1, 2} /\ q.to \in {None, 1, 2}
      BY <2>1 DEF QuestionSet
    <2>3. t \in Int
      BY TraceAssumption
    <2> QED BY <2>2, <2>3, NullIsNoTool
  <1>3. t \in Asked(q) <=> /\ q.from = None \/ q.from <= t
                           /\ q.to = None \/ t < q.to
                           /\ phase = None \/ \E n \in meant : reached(n)
    BY DEF Asked
  <1>4. loads = Matching(q, navs)
    BY DEF Matching
  <1>5. InWindow(t, Closed) = FALSE
    BY DEF InWindow, Closed
  <1>6. InWindow(t, [empty |-> FALSE, start |-> start, end |-> end])
          <=> (start = None \/ start <= t) /\ (end = None \/ t < end)
    <2> HIDE DEF start, end
    <2> QED BY DEF InWindow
  <1>7. CASE phase = None
    <2>1. start = q.from /\ end = q.to
      BY <1>7
    <2>2. w = IF None \notin {start, end} /\ end <= start THEN Closed
              ELSE [empty |-> FALSE, start |-> start, end |-> end]
      BY <1>1, <1>7
    <2> HIDE DEF w, start, end
    <2>3. InWindow(t, w) <=> (q.from = None \/ q.from <= t) /\ (q.to = None \/ t < q.to)
      <3>1. CASE None \notin {start, end} /\ end <= start
        BY <1>2, <1>5, <2>1, <2>2, <3>1
      <3>2. CASE ~(None \notin {start, end} /\ end <= start)
        BY <1>6, <2>1, <2>2, <3>2
      <3> QED BY <3>1, <3>2
    <2> QED BY <1>3, <1>7, <2>3 DEF w
  <1>8. CASE phase # None /\ loads = {}
    <2>1. w = Closed
      BY <1>1, <1>4, <1>8
    <2>2. ~ \E n \in meant : reached(n)
      BY <1>8
    <2> HIDE DEF w
    <2>3. ~InWindow(t, w)
      BY <1>5, <2>1
    <2> QED BY <1>3, <1>8, <2>2, <2>3 DEF w
  <1>9. CASE phase # None /\ loads # {}
    <2> DEFINE last == Latest(q, navs)
    <2>1. last \in loads /\ \A m \in loads : m <= last
      BY <1>4, <1>9, LatestIs
    <2>2. phase \in DOMAIN Phases
      BY <1>9, PhaseIs
    <2>3. \A n \in loads : n \in DOMAIN navs /\ n \in Nat /\ navs[n].start \in Int
      <3>1. \A n \in DOMAIN navs : n \in Nat
        BY DEF TraceInv
      <3>2. \A n \in DOMAIN navs : navs[n].start \in Int
        BY TraceAssumption DEF TraceInv, LoadsTyped, LoadTyped
      <3> QED BY <3>1, <3>2
    <2>4. meant = {last}
      <3> HIDE DEF last, loads
      <3>1. \A m \in loads : m # last => navs[m].start < navs[last].start
        <4>1. \A m \in loads : m # last => m < last
          BY <2>1, <2>3
        <4> QED BY <2>1, <2>3, <4>1 DEF TraceInv, LoadsInOrder
      <3>2. \A m \in loads : navs[m].start <= navs[last].start
        BY <2>1, <2>3, <3>1
      <3>3. \A n \in loads : n # last => ~(navs[last].start <= navs[n].start)
        BY <2>1, <2>3, <3>1
      <3> QED BY <2>1, <3>2, <3>3
    <2>5. from \in Nat \cup {None} /\ to \in {None, 1, 2, 3}
      BY <2>1, <2>2, <2>3, PhaseBounds
    <2>6. (\E n \in meant : reached(n)) <=> None \notin {from, to} /\ from <= t /\ t < to
      BY <2>4
    <2>7. CASE None \in {from, to}
      <3>1. w = Closed
        BY <1>1, <1>9, <2>7
      <3> HIDE DEF w, from, to, reached, meant
      <3>2. ~InWindow(t, w)
        BY <1>5, <3>1
      <3> QED BY <1>3, <1>9, <2>6, <2>7, <3>2 DEF w
    <2>8. CASE None \notin {from, to}
      <3>1. from \in Nat /\ to \in {1, 2, 3}
        BY <2>5, <2>8
      <3>2. start = Later(from, q.from) /\ end = Earlier(to, q.to)
        BY <1>9
      <3>3. w = IF None \notin {start, end} /\ end <= start THEN Closed
                ELSE [empty |-> FALSE, start |-> start, end |-> end]
        BY <1>1, <1>4, <1>9, <2>8
      <3> HIDE DEF w, from, to, start, end, reached, meant, loads
      <3>4. start \in Int /\ (start <= t <=> from <= t /\ (q.from = None \/ q.from <= t))
        BY <1>2, <3>1, <3>2 DEF Later, Larger
      <3>5. end \in Int /\ (t < end <=> t < to /\ (q.to = None \/ t < q.to))
        BY <1>2, <3>1, <3>2 DEF Earlier, Smaller
      <3>6. InWindow(t, w) <=> start <= t /\ t < end
        <4>0. start # None /\ end # None
          BY <1>2, <3>4, <3>5
        <4>1. CASE end <= start
          <5>1. w = Closed
            BY <3>3, <4>0, <4>1
          <5>2. ~(start <= t /\ t < end)
            BY <1>2, <3>4, <3>5, <4>1
          <5> QED BY <1>5, <5>1, <5>2
        <4>2. CASE ~(end <= start)
          <5>1. w = [empty |-> FALSE, start |-> start, end |-> end]
            BY <3>3, <4>2
          <5> QED BY <1>6, <4>0, <5>1
        <4> QED BY <4>1, <4>2
      <3>7. InWindow(t, w) <=> /\ from <= t /\ (q.from = None \/ q.from <= t)
                               /\ t < to /\ (q.to = None \/ t < q.to)
        BY <3>4, <3>5, <3>6
      <3> QED BY <1>3, <1>9, <2>6, <2>8, <3>7 DEF w
    <2> QED BY <2>7, <2>8
  <1> QED BY <1>7, <1>8, <1>9

\* So the time a slice shares with what is asked about is its overlap with the window.
LEMMA SharedIs ==
  ASSUME TraceInv, NEW q \in Plain, NEW i \in DOMAIN trace
  PROVE  LET w  == Window(q, navs)
             lo == OverlapStart(trace[i], w)
             hi == ResourceEnd(trace[i], w)
         IN  /\ Shared(i, q) \in Nat
             /\ Shared(i, q) > 0 <=> ~w.empty /\ lo < hi
             /\ Shared(i, q) > 0 => Shared(i, q) = hi - lo
PROOF
  <1> DEFINE w  == Window(q, navs)
             s  == trace[i]
             lo == OverlapStart(s, w)
             hi == ResourceEnd(s, w)
             common == Instants(s) \cap Asked(q)
  <1>1. WindowTyped(w)
    BY WindowIsTyped
  <1>2. /\ s.ts \in Nat /\ s.dur \in Int /\ s.ts <= TraceEnd - 1
        /\ s.dur = Incomplete \/ (s.dur >= 0 /\ End(s) <= TraceEnd)
        /\ End(s) \in Int /\ TraceEnd \in Nat
    BY SliceFacts
  <1>3. lo \in Int /\ hi \in Int
    BY <1>1, OverlapIsTyped
  <1>4. \A t \in Instants(s) : t \in 0 .. TraceEnd - 1
    BY <1>2 DEF Instants
  <1>5. \A t \in 0 .. TraceEnd - 1 : t \in Asked(q) <=> InWindow(t, w)
    BY AskedIs
  <1>6. Shared(i, q) = Cardinality(common)
    BY DEF Shared
  <1>7. CASE w.empty
    <2> HIDE DEF w
    <2>1. common = {}
      BY <1>4, <1>5, <1>7 DEF InWindow
    <2>2. Shared(i, q) = 0
      BY <1>6, <2>1, FS_EmptySet
    <2> HIDE DEF lo, hi
    <2> QED BY <1>7, <2>2 DEF w, lo, hi
  <1>8. CASE ~w.empty
    <2>1. w.start \in Int \cup {None} /\ w.end \in Int \cup {None} /\ (w.end # None => w.end <= TraceEnd) /\ None \notin Int
      BY <1>1, NullIsNoTool DEF WindowTyped
    <2> HIDE DEF w, s
    <2>2. \A t \in Int : t \in Instants(s) <=> s.ts <= t /\ (IF s.dur = Incomplete THEN t < TraceEnd ELSE t < End(s))
      BY <1>2 DEF Instants
    <2>3. \A t \in Int : lo <= t <=> s.ts <= t /\ (w.start = None \/ w.start <= t)
      BY <1>2, <2>1 DEF OverlapStart, Later, Larger
    <2>4. \A t \in Int : t < hi <=> (IF s.dur = Incomplete THEN t < TraceEnd ELSE t < End(s)) /\ (w.end = None \/ t < w.end)
      <3>1. CASE s.dur = Incomplete
        BY <1>2, <2>1, <3>1 DEF ResourceEnd, Incomplete
      <3>2. CASE s.dur >= 0
        BY <1>2, <2>1, <3>2 DEF ResourceEnd, Earlier, Smaller, Incomplete
      <3> QED BY <1>2, <3>1, <3>2
    <2> HIDE DEF lo, hi
    <2>5. common = lo .. (hi - 1)
      <3>1. \A t \in Int : t \in common <=> t \in Instants(s) /\ InWindow(t, w)
        BY <1>4, <1>5
      <3>2. \A t \in Int : t \in common <=> lo <= t /\ t < hi
        BY <2>2, <2>3, <2>4, <3>1, <1>8 DEF InWindow
      <3>3. \A t \in common : t \in Int
        BY <1>4, <1>2
      <3> HIDE DEF common
      <3>4. \A t : t \in lo .. (hi - 1) <=> t \in Int /\ lo <= t /\ t < hi
        BY <1>3
      <3> QED BY <3>2, <3>3, <3>4
    <2>6. Cardinality(lo .. (hi - 1)) = IF lo > hi - 1 THEN 0 ELSE (hi - 1) - lo + 1
      <3> DEFINE h == hi - 1
      <3>1. h \in Int
        BY <1>3
      <3> HIDE DEF h
      <3>2. Cardinality(lo .. h) = IF lo > h THEN 0 ELSE h - lo + 1
        BY <1>3, <3>1, FS_Interval
      <3> QED BY <3>2 DEF h
    <2> DEFINE sh == Shared(i, q)
    <2>7. sh = IF lo > hi - 1 THEN 0 ELSE (hi - 1) - lo + 1
      BY <1>6, <2>5, <2>6
    <2> HIDE DEF sh
    <2>8. sh \in Nat /\ (sh > 0 <=> lo < hi) /\ (sh > 0 => sh = hi - lo)
      BY <1>3, <2>7
    <2> QED BY <1>8, <2>8 DEF sh, lo, hi, w, s
  <1> QED BY <1>7, <1>8
-------------------------------------------------------------------------------
LEMMA ArgUrlOf == \A key, url : Arg(key, url).key = key /\ Arg(key, url).url = url
PROOF BY DEF Arg

\* The requests of a trace all name a URL.
LEMMA RequestsNameUrls ==
  ASSUME TraceInv, purpose = "resource_hotspots", NEW i \in DOMAIN trace
  PROVE  trace[i].name \in ResourceNames \ NotResources /\ SelectedUrl(trace[i]) # None
           <=> trace[i].name \in {"ScheduledResourceRequest", "Cache::GetResource"}
PROOF
  <1> DEFINE s == trace[i]
  <1>1. Kind(s.track, s.name, s.args) \in
         {Kind(3, "ScheduledResourceRequest", {Arg("url", 5), Arg("site_url", 4)}),
          Kind(5, "Cache::GetResource", {Arg("url", 3), Arg("some_url", 7)}),
          Kind(1, "PageLoadMetricsResource", {Arg("url", 4)})}
    BY SliceFacts DEF Kinds
  <1>2. \/ s.name = "ScheduledResourceRequest" /\ s.args = {Arg("url", 5), Arg("site_url", 4)}
        \/ s.name = "Cache::GetResource" /\ s.args = {Arg("url", 3), Arg("some_url", 7)}
        \/ s.name = "PageLoadMetricsResource"
    BY <1>1 DEF Kind
  <1> HIDE DEF s
  <1>3. CASE s.name = "PageLoadMetricsResource"
    BY <1>3 DEF NotResources, s
  <1> DEFINE a1 == Arg("url", 5)
             a2 == Arg("site_url", 4)
             b1 == Arg("url", 3)
             b2 == Arg("some_url", 7)
  <1>4. CASE s.name = "ScheduledResourceRequest" /\ s.args = {a1, a2}
    <2>1. a1.key = "url" /\ a1.url = 5 /\ a2.key = "site_url" /\ a2.url = 4
      BY ArgUrlOf
    <2> HIDE DEF a1, a2
    <2>2. Priority(a1) = 1 /\ Priority(a2) = 8
      BY <2>1 DEF Priority, KeyPriority, Unisolated
    <2>3. {a \in s.args : IsUrl(a)} = {a1, a2}
      BY <1>4, <2>2 DEF IsUrl
    <2>4. {a \in {a1, a2} : \A b \in {a1, a2} : Priority(a) <= Priority(b)} = {a1}
      BY <2>2
    <2>5. SelectedUrl(s) = Min({a.url : a \in {a1}})
      BY <2>3, <2>4 DEF SelectedUrl
    <2>6. {a.url : a \in {a1}} = {a1.url} /\ a1.url \in Int
      BY <2>1
    <2> DEFINE u == a1.url
    <2> HIDE DEF u
    <2>7. u \in Int /\ SelectedUrl(s) = Min({u})
      BY <2>5, <2>6 DEF u
    <2>8. SelectedUrl(s) # None
      BY <2>7, OneExtreme, NullIsNoTool
    <2> QED BY <1>4, <2>8 DEF s, ResourceNames, NotResources
  <1>5. CASE s.name = "Cache::GetResource" /\ s.args = {b1, b2}
    <2>1. b1.key = "url" /\ b1.url = 3 /\ b2.key = "some_url" /\ b2.url = 7
      BY ArgUrlOf
    <2> HIDE DEF b1, b2
    <2>2. Priority(b1) = 90 /\ Priority(b2) = 5
      BY <2>1 DEF Priority, KeyPriority, Unisolated
    <2>3. {a \in s.args : IsUrl(a)} = {b1, b2}
      BY <1>5, <2>2 DEF IsUrl
    <2>4. {a \in {b1, b2} : \A b \in {b1, b2} : Priority(a) <= Priority(b)} = {b2}
      BY <2>2
    <2>5. SelectedUrl(s) = Min({a.url : a \in {b2}})
      BY <2>3, <2>4 DEF SelectedUrl
    <2>6. {a.url : a \in {b2}} = {b2.url} /\ b2.url \in Int
      BY <2>1
    <2> DEFINE u == b2.url
    <2> HIDE DEF u
    <2>7. u \in Int /\ SelectedUrl(s) = Min({u})
      BY <2>5, <2>6 DEF u
    <2>8. SelectedUrl(s) # None
      BY <2>7, OneExtreme, NullIsNoTool
    <2> QED BY <1>5, <2>8 DEF s, ResourceNames, NotResources
  <1> QED BY <1>2, <1>3, <1>4, <1>5

\* Rows of a few slices are all shown.
RankOf(rank, f, S) == DOMAIN rank = {f[i] : i \in S}

\* As few rows as the slices of a trace of these tools.
LEMMA FewRows ==
  ASSUME TraceInv, Len(trace) <= 2, NEW f, NEW S \in SUBSET DOMAIN trace, NEW rank,
         RankOf(rank, f, S), NEW n \in Nat, 2 <= n
  PROVE  Tops(rank, n) = {DOMAIN rank}
PROOF
  <1>1. IsFiniteSet(S) /\ Cardinality(S) <= Len(trace) /\ Cardinality(S) \in Nat /\ Len(trace) \in Nat
    <2> DEFINE D == DOMAIN trace
    <2>1. IsFiniteSet(D) /\ D = 1 .. Len(trace) /\ Len(trace) \in Nat
      BY PlacesFinite
    <2>2. Cardinality(1 .. Len(trace)) <= Len(trace)
      <3> DEFINE one == 1
      <3>1. one \in Int /\ Len(trace) \in Int
        BY <2>1
      <3>2. one = 1
        OBVIOUS
      <3> HIDE DEF one
      <3>3. Cardinality(one .. Len(trace)) = IF one > Len(trace) THEN 0 ELSE Len(trace) - one + 1
        BY <3>1, FS_Interval
      <3> QED BY <2>1, <3>2, <3>3
    <2> HIDE DEF D
    <2>3. S \in SUBSET D
      BY DEF D
    <2>4. IsFiniteSet(S) /\ Cardinality(S) <= Cardinality(D) /\ Cardinality(S) \in Nat /\ Cardinality(D) \in Nat
      BY <2>1, <2>3, FS_Subset, FS_CardinalityType
    <2> QED BY <2>1, <2>2, <2>4
  <1>2. IsFiniteSet(DOMAIN rank) /\ Cardinality(DOMAIN rank) <= Cardinality(S)
    BY <1>1, Images DEF RankOf
  <1>3. Cardinality(DOMAIN rank) \in Nat
    BY <1>2, FS_CardinalityType
  <1>4. Cardinality(DOMAIN rank) <= n
    BY <1>1, <1>2, <1>3
  <1> QED BY <1>2, <1>4, AllOfFew

\* chrome_resources.rs:23: the requests, with the part of each in the window.
LEMMA ResourceOverlapExact ==
  ASSUME TraceInv, AskedInv, asked.tool = "resource_hotspots", answer.ok, asked.q.limit = None
  PROVE  {<<r.id, r.overlap>> : r \in {s \in answer.rows : s.overlap > 0}}
           = {<<i, Shared(i, asked.q)>> :
               i \in {j \in Due(asked.tool, asked.q) : Shared(j, asked.q) > 0 /\ Shared(j, asked.q) >= asked.q.min}}
PROOF
  <1> DEFINE q    == asked.q
             tool == asked.tool
             w    == Window(q, navs)
             C    == Candidates(trace, w, q.min)
             row(i) == [id |-> i, overlap |-> ResourceOverlap(trace[i], w), dur |-> trace[i].dur, start |-> trace[i].ts]
             f    == [i \in C |-> row(i)]
  <1>1. tool = purpose /\ tool \in Tools \ {"resource_pipeline"} /\ tool # None
    BY NullIsNoTool DEF AskedInv, Tools
  <1>2. q \in Plain
    BY <1>1, QuestionsPlain DEF AskedInv
  <1>3. q.min \in {0, 2}
    BY <1>2 DEF Plain, QuestionSet
  <1>4. Permitted(tool, q) /\ answer.rows \in Tops(Ranked(tool, q, trace, navs), RowsUpTo(q.limit, Default(tool)))
    <2>1. Answered(tool, q, trace, navs, answer)
      BY <1>1 DEF AskedInv
    <2> QED BY <2>1 DEF Answered, NoAnswer
  <1> DEFINE rank == HotspotRank(HotspotRows(trace, w, q))
  <1>5. Ranked(tool, q, trace, navs) = rank /\ RowsUpTo(q.limit, Default(tool)) = 100
    BY DEF Ranked, Default, RowsUpTo
  <1>6. DOMAIN rank = {f[i] : i \in C}
    BY DEF HotspotRank, HotspotRows
  <1>7. Len(trace) <= 2 /\ C \in SUBSET DOMAIN trace
    BY <1>1 DEF TraceInv, Candidates
  <1>8. answer.rows = {f[i] : i \in C}
    <2> DEFINE most == 100
    <2>1. most \in Nat /\ 2 <= most /\ answer.rows \in Tops(rank, most)
      BY <1>4, <1>5
    <2> HIDE DEF most, rank, f, C
    <2>2. Tops(rank, most) = {DOMAIN rank}
      <3>1. RankOf(rank, f, C)
        BY <1>6 DEF RankOf
      <3> QED BY <3>1, <1>7, <2>1, FewRows
    <2> QED BY <1>6, <2>1, <2>2
  <1>9. \A i \in C : f[i].id = i /\ f[i].overlap = ResourceOverlap(trace[i], w)
    OBVIOUS
  <1>10. \A i \in DOMAIN trace :
           /\ Shared(i, q) \in Nat /\ ResourceOverlap(trace[i], w) \in Int
           /\ i \in C /\ ResourceOverlap(trace[i], w) > 0
                <=> i \in Due(tool, q) /\ Shared(i, q) > 0 /\ Shared(i, q) >= q.min
           /\ Shared(i, q) > 0 => ResourceOverlap(trace[i], w) = Shared(i, q)
    <2> TAKE i \in DOMAIN trace
    <2> DEFINE lo == OverlapStart(trace[i], w)
               hi == ResourceEnd(trace[i], w)
               sh == Shared(i, q)
               lap == ResourceOverlap(trace[i], w)
    <2>1. lo \in Int /\ hi \in Int /\ lap = hi - lo
      BY <1>2, WindowIsTyped, OverlapIsTyped DEF ResourceOverlap
    <2>2. sh \in Nat /\ (sh > 0 <=> ~w.empty /\ lo < hi) /\ (sh > 0 => sh = hi - lo)
      BY <1>2, SharedIs
    <2>3. i \in Due(tool, q) <=> trace[i].name \in ResourceNames \ NotResources /\ SelectedUrl(trace[i]) # None
      <3>1. i \in Due(tool, q) <=> trace[i].name \in {"ScheduledResourceRequest", "Cache::GetResource"}
        BY DEF Due
      <3> QED BY <1>1, <3>1, RequestsNameUrls
    <2>4. i \in C <=> /\ trace[i].name \in ResourceNames \ NotResources /\ SelectedUrl(trace[i]) # None
                      /\ ResourceTouches(trace[i], w) /\ lap >= q.min
      BY DEF Candidates
    <2>5. ~w.empty /\ lo < hi => ResourceTouches(trace[i], w)
      <3>1. trace[i].ts \in Int /\ WindowTyped(w) /\ trace[i].dur \in Int /\ End(trace[i]) \in Int /\ TraceEnd \in Int
        BY <1>2, WindowIsTyped, SliceFacts
      <3>2. w.start \in Int \cup {None} /\ w.end \in Int \cup {None} /\ None \notin Int
        BY <3>1, NullIsNoTool DEF WindowTyped
      <3> HIDE DEF w
      <3>3. lo >= trace[i].ts /\ (w.start # None => lo >= w.start)
        BY <3>1, <3>2 DEF OverlapStart, Later, Larger
      <3>4. w.end # None => hi <= w.end
        BY <3>1, <3>2 DEF ResourceEnd, Earlier, Smaller
      <3> HIDE DEF lo
      <3>5. w.end # None /\ lo < hi => trace[i].ts < w.end
        BY <3>1, <3>2, <3>3, <3>4, <2>1
      <3>6. w.start # None /\ lo < hi => hi > w.start
        BY <3>1, <3>2, <3>3, <2>1
      <3> QED BY <3>5, <3>6 DEF ResourceTouches, StartsBefore
    <2>6. i \in C => ~w.empty
      BY <2>4 DEF ResourceTouches
    <2> HIDE DEF lo, hi, sh, lap, C, w, q, tool
    <2>7. sh > 0 => lap = sh
      BY <2>1, <2>2
    <2>8. i \in C /\ lap > 0 <=> i \in Due(tool, q) /\ sh > 0 /\ sh >= q.min
      <3>1. lap > 0 <=> lo < hi
        BY <2>1
      <3>2. ASSUME i \in C, lap > 0 PROVE i \in Due(tool, q) /\ sh > 0 /\ sh >= q.min
        BY <3>1, <3>2, <2>2, <2>3, <2>4, <2>6, <2>7
      <3>3. ASSUME i \in Due(tool, q), sh > 0, sh >= q.min PROVE i \in C /\ lap > 0
        BY <3>1, <3>3, <2>2, <2>3, <2>4, <2>5, <2>7
      <3> QED BY <3>2, <3>3
    <2>9. lap \in Int
      BY <2>1
    <2> QED BY <2>2, <2>7, <2>8, <2>9 DEF sh, lap
  <1> DEFINE L == {<<r.id, r.overlap>> : r \in {s \in answer.rows : s.overlap > 0}}
             R == {<<i, Shared(i, q)>> : i \in {j \in Due(tool, q) : Shared(j, q) > 0 /\ Shared(j, q) >= q.min}}
  <1>11. Due(tool, q) \subseteq DOMAIN trace
    BY DEF Due
  <1> HIDE DEF f, C, q, tool, w
  <1>12. ASSUME NEW p \in L PROVE p \in R
    <2>1. PICK r \in answer.rows : r.overlap > 0 /\ p = <<r.id, r.overlap>>
      BY <1>12
    <2>2. PICK i \in C : r = f[i]
      BY <1>8
    <2>3. p = <<i, ResourceOverlap(trace[i], w)>> /\ ResourceOverlap(trace[i], w) > 0
      BY <1>9, <2>1, <2>2
    <2>4. /\ i \in Due(tool, q) /\ Shared(i, q) > 0 /\ Shared(i, q) >= q.min
          /\ ResourceOverlap(trace[i], w) = Shared(i, q)
      BY <1>7, <1>10, <2>2, <2>3
    <2> QED BY <2>3, <2>4
  <1>13. ASSUME NEW p \in R PROVE p \in L
    <2>1. PICK i \in Due(tool, q) : Shared(i, q) > 0 /\ Shared(i, q) >= q.min /\ p = <<i, Shared(i, q)>>
      BY <1>13
    <2>2. i \in C /\ ResourceOverlap(trace[i], w) > 0 /\ ResourceOverlap(trace[i], w) = Shared(i, q)
      BY <1>10, <1>11, <2>1
    <2>3. f[i] \in answer.rows /\ f[i].id = i /\ f[i].overlap = ResourceOverlap(trace[i], w)
      BY <1>8, <1>9, <2>2
    <2>4. p = <<f[i].id, f[i].overlap>> /\ f[i].overlap > 0
      BY <2>1, <2>2, <2>3
    <2> QED BY <2>3, <2>4
  <1> HIDE DEF L, R
  <1>14. L = R
    BY <1>12, <1>13
  <1> QED BY <1>14 DEF L, R, q, tool

\* chrome_main_thread.rs:47: the tasks that have ended, with the part of each in the window.
LEMMA TaskOverlapExact ==
  ASSUME TraceInv, AskedInv, asked.tool = "main_thread_hotspots", answer.ok, asked.q.limit = None
  PROVE  {<<r.id, r.overlap>> : r \in {s \in answer.rows : s.overlap > 0}}
           = {<<i, Shared(i, asked.q)>> :
               i \in {j \in Due(asked.tool, asked.q) : Shared(j, asked.q) > 0 /\ Shared(j, asked.q) >= asked.q.min}}
PROOF
  <1> DEFINE q    == asked.q
             tool == asked.tool
             w    == Window(q, navs)
             C    == {j \in DOMAIN trace :
                        /\ trace[j].name = "RunTask" /\ IsMain(trace[j].track) /\ OfProcess(trace[j], q)
                        /\ TaskTouches(trace[j], w)
                        /\ TaskOverlap(trace[j], w) >= q.min}
             row(i) == [id |-> i, overlap |-> TaskOverlap(trace[i], w), dur |-> trace[i].dur]
             f    == [i \in C |-> row(i)]
  <1>1. tool = purpose /\ tool \in Tools \ {"resource_pipeline"} /\ tool # None
    BY NullIsNoTool DEF AskedInv, Tools
  <1>2. q \in Plain
    BY <1>1, QuestionsPlain DEF AskedInv
  <1>3. q.min \in {0, 2}
    BY <1>2 DEF Plain, QuestionSet
  <1>4. Permitted(tool, q) /\ answer.rows \in Tops(Ranked(tool, q, trace, navs), RowsUpTo(q.limit, Default(tool)))
    <2>1. Answered(tool, q, trace, navs, answer)
      BY <1>1 DEF AskedInv
    <2> QED BY <2>1 DEF Answered, NoAnswer
  <1> DEFINE rank == MainThreadRank(MainThreadRows(trace, w, q))
  <1>5. Ranked(tool, q, trace, navs) = rank /\ RowsUpTo(q.limit, Default(tool)) = 100
    BY DEF Ranked, Default, RowsUpTo
  <1>6. DOMAIN rank = {f[i] : i \in C}
    BY DEF MainThreadRank, MainThreadRows
  <1>7. Len(trace) <= 2 /\ C \in SUBSET DOMAIN trace
    BY <1>1 DEF TraceInv
  <1>8. answer.rows = {f[i] : i \in C}
    <2> DEFINE most == 100
    <2>1. most \in Nat /\ 2 <= most /\ answer.rows \in Tops(rank, most)
      BY <1>4, <1>5
    <2> HIDE DEF most, rank, f, C
    <2>2. Tops(rank, most) = {DOMAIN rank}
      <3>1. RankOf(rank, f, C)
        BY <1>6 DEF RankOf
      <3> QED BY <3>1, <1>7, <2>1, FewRows
    <2> QED BY <1>6, <2>1, <2>2
  <1>9. \A i \in C : f[i].id = i /\ f[i].overlap = TaskOverlap(trace[i], w)
    OBVIOUS
  <1>10. \A i \in DOMAIN trace :
           /\ Shared(i, q) \in Nat /\ TaskOverlap(trace[i], w) \in Int
           /\ i \in C /\ TaskOverlap(trace[i], w) > 0
                <=> i \in Due(tool, q) /\ Shared(i, q) > 0 /\ Shared(i, q) >= q.min
           /\ Shared(i, q) > 0 /\ i \in Due(tool, q) => TaskOverlap(trace[i], w) = Shared(i, q)
    <2> TAKE i \in DOMAIN trace
    <2> DEFINE lo == OverlapStart(trace[i], w)
               hi == ResourceEnd(trace[i], w)
               sh == Shared(i, q)
               s  == trace[i]
               lap == TaskOverlap(trace[i], w)
    <2>0. lo \in Int /\ hi \in Int /\ lap \in Int /\ WindowTyped(w)
      BY <1>2, WindowIsTyped, OverlapIsTyped
    <2>2. sh \in Nat /\ (sh > 0 <=> ~w.empty /\ lo < hi) /\ (sh > 0 => sh = hi - lo)
      BY <1>2, SharedIs
    <2>a. /\ s.ts \in Nat /\ s.dur \in Int /\ (s.dur = Incomplete \/ (s.dur >= 0 /\ End(s) <= TraceEnd))
          /\ End(s) \in Int /\ TraceEnd \in Nat
          /\ w.start \in Int \cup {None} /\ w.end \in Int \cup {None} /\ None \notin Int
      <3>1. w.start \in Int \cup {None} /\ w.end \in Int \cup {None}
        BY <2>0 DEF WindowTyped
      <3> HIDE DEF w
      <3> QED BY <3>1, SliceFacts, NullIsNoTool
    <2>b. s.track \in {1, 2, 3} /\ s.name = "RunTask"
      <3>1. Kind(s.track, s.name, s.args) \in {Kind(t, "RunTask", {}) : t \in {1, 2, 3}}
        BY <1>1, SliceFacts DEF Kinds
      <3> QED BY <3>1 DEF Kind
    <2>c. i \in Due(tool, q) <=> s.dur # Incomplete /\ IsMain(s.track) /\ OfProcess(s, q)
      <3>1. i \in Due(tool, q) <=> s.track \in {1, 2} /\ s.dur # Incomplete /\ q.upid \in {None, s.track}
        BY <2>b DEF Due
      <3>2. s.track \in {1, 2} => ThreadProcess[s.track] = s.track
        BY DEF ThreadProcess
      <3> HIDE DEF s
      <3> QED BY <3>1, <3>2 DEF IsMain, OfProcess
    <2>4. i \in C <=> IsMain(s.track) /\ OfProcess(s, q) /\ TaskTouches(s, w) /\ lap >= q.min
      BY <2>b
    <2>5. s.dur # Incomplete => lap = hi - lo /\ (~w.empty /\ lo < hi => TaskTouches(s, w))
      <3> HIDE DEF w, s
      <3> SUFFICES ASSUME s.dur # Incomplete PROVE lap = hi - lo /\ (~w.empty /\ lo < hi => TaskTouches(s, w))
        OBVIOUS
      <3>1. s.dur >= 0
        BY <2>a
      <3>2. hi = TaskEnd(s, w)
        BY <3>1 DEF ResourceEnd, TaskEnd, s
      <3>3. lap = hi - lo
        <4>1. CASE w.start = None /\ w.end = None
          <5>1. lap = s.dur /\ lo = s.ts /\ hi = s.ts + s.dur
            BY <4>1, <3>2 DEF TaskOverlap, OverlapStart, Later, TaskEnd, Earlier, End, s
          <5> QED BY <5>1, <2>a
        <4>2. CASE ~(w.start = None /\ w.end = None)
          <5>1. lap = TaskEnd(s, w) - lo
            BY <4>2 DEF TaskOverlap, s
          <5> QED BY <5>1, <3>2
        <4> QED BY <4>1, <4>2
      <3>4. lo >= s.ts /\ (w.start # None => lo >= w.start)
        BY <2>a DEF OverlapStart, Later, Larger, s
      <3>5. hi <= End(s) /\ (w.end # None => hi <= w.end)
        BY <2>a, <3>2 DEF TaskEnd, Earlier, Smaller
      <3> HIDE DEF lo, hi, lap
      <3>6. w.end # None /\ lo < hi => s.ts < w.end
        BY <2>a, <2>0, <3>4, <3>5
      <3>7. w.start # None /\ lo < hi => End(s) > w.start
        BY <2>a, <2>0, <3>4, <3>5
      <3> QED BY <3>3, <3>6, <3>7 DEF TaskTouches, StartsBefore
    <2>d. s.dur = Incomplete => ~(lap > 0)
      <3> HIDE DEF w, s
      <3> SUFFICES ASSUME s.dur = Incomplete PROVE ~(lap > 0)
        OBVIOUS
      <3>1. CASE w.start = None /\ w.end = None
        BY <3>1 DEF TaskOverlap, s, Incomplete
      <3>2. CASE ~(w.start = None /\ w.end = None)
        <4>1. lap = TaskEnd(s, w) - lo
          BY <3>2 DEF TaskOverlap, s
        <4>2. lo >= s.ts
          BY <2>a DEF OverlapStart, Later, Larger, s
        <4>3. TaskEnd(s, w) <= s.ts - 1 /\ TaskEnd(s, w) \in Int
          BY <2>a DEF TaskEnd, Earlier, Smaller, End, Incomplete
        <4> HIDE DEF lap, lo
        <4> QED BY <4>1, <4>2, <4>3, <2>0, <2>a
      <3> QED BY <3>1, <3>2
    <2>6. i \in C => ~w.empty
      BY <2>4 DEF TaskTouches
    <2>e. sh > 0 /\ i \in Due(tool, q) => lap = sh
      BY <2>c, <2>5, <2>2
    <2> HIDE DEF lo, hi, sh, lap, C, w, q, tool, s
    <2>8. i \in C /\ lap > 0 <=> i \in Due(tool, q) /\ sh > 0 /\ sh >= q.min
      <3>2. ASSUME i \in C, lap > 0 PROVE i \in Due(tool, q) /\ sh > 0 /\ sh >= q.min
        <4>1. i \in Due(tool, q) /\ s.dur # Incomplete
          BY <3>2, <2>4, <2>d, <2>c
        <4>2. lo < hi
          BY <2>0, <2>5, <3>2, <4>1
        <4> QED BY <4>1, <4>2, <3>2, <2>2, <2>4, <2>6, <2>e
      <3>3. ASSUME i \in Due(tool, q), sh > 0, sh >= q.min PROVE i \in C /\ lap > 0
        BY <3>3, <2>2, <2>4, <2>5, <2>c, <2>e
      <3> QED BY <3>2, <3>3
    <2> QED BY <2>0, <2>2, <2>8, <2>e DEF sh, lap
  <1> DEFINE L == {<<r.id, r.overlap>> : r \in {s \in answer.rows : s.overlap > 0}}
             R == {<<i, Shared(i, q)>> : i \in {j \in Due(tool, q) : Shared(j, q) > 0 /\ Shared(j, q) >= q.min}}
  <1>11. Due(tool, q) \subseteq DOMAIN trace
    BY DEF Due
  <1> HIDE DEF f, C, q, tool, w
  <1>12. ASSUME NEW p \in L PROVE p \in R
    <2>1. PICK r \in answer.rows : r.overlap > 0 /\ p = <<r.id, r.overlap>>
      BY <1>12
    <2>2. PICK i \in C : r = f[i]
      BY <1>8
    <2>3. p = <<i, TaskOverlap(trace[i], w)>> /\ TaskOverlap(trace[i], w) > 0
      BY <1>9, <2>1, <2>2
    <2>4. /\ i \in Due(tool, q) /\ Shared(i, q) > 0 /\ Shared(i, q) >= q.min
          /\ TaskOverlap(trace[i], w) = Shared(i, q)
      BY <1>7, <1>10, <2>2, <2>3
    <2> QED BY <2>3, <2>4
  <1>13. ASSUME NEW p \in R PROVE p \in L
    <2>1. PICK i \in Due(tool, q) : Shared(i, q) > 0 /\ Shared(i, q) >= q.min /\ p = <<i, Shared(i, q)>>
      BY <1>13
    <2>2. i \in C /\ TaskOverlap(trace[i], w) > 0 /\ TaskOverlap(trace[i], w) = Shared(i, q)
      BY <1>10, <1>11, <2>1
    <2>3. f[i] \in answer.rows /\ f[i].id = i /\ f[i].overlap = TaskOverlap(trace[i], w)
      BY <1>8, <1>9, <2>2
    <2>4. p = <<f[i].id, f[i].overlap>> /\ f[i].overlap > 0
      BY <2>1, <2>2, <2>3
    <2> QED BY <2>3, <2>4
  <1> HIDE DEF L, R
  <1>14. L = R
    BY <1>12, <1>13
  <1> QED BY <1>14 DEF L, R, q, tool

LEMMA OverlapsAreExact == TraceInv /\ AskedInv => OverlapExact
PROOF
  <1> SUFFICES ASSUME TraceInv, AskedInv, asked.tool \in {"main_thread_hotspots", "resource_hotspots"}, answer.ok,
                      asked.q.limit = None
               PROVE  {<<r.id, r.overlap>> : r \in {s \in answer.rows : s.overlap > 0}}
                        = {<<i, Shared(i, asked.q)>> :
                             i \in {j \in Due(asked.tool, asked.q) : /\ Shared(j, asked.q) > 0
                                                                     /\ Shared(j, asked.q) >= asked.q.min}}
    BY DEF OverlapExact
  <1>1. CASE asked.tool = "resource_hotspots"
    BY <1>1, ResourceOverlapExact
  <1>2. CASE asked.tool = "main_thread_hotspots"
    BY <1>2, TaskOverlapExact
  <1> QED BY <1>1, <1>2
-------------------------------------------------------------------------------
\* The slices around one are those it is in, and those they are in: the recursion has a
\* solution, on a trace whose slices come after what they are in.
Encloses(f, n) ==
  f = [i \in 1 .. n |-> IF i \notin DOMAIN trace \/ trace[i].parent = None THEN <<>>
                        ELSE <<trace[i].parent>> \o f[trace[i].parent]]

\* The recursive definition of what is around a slice has a solution, of as many slices as wanted.
LEMMA EnclosingSolved == ASSUME TraceInv PROVE Encloses(Enclosing, MaxEvents)
PROOF
  <1> DEFINE T == {n \in Nat : \E f : Encloses(f, n)}
  <1>1. 0 \in T
    <2> DEFINE f == [i \in {} |-> <<>>]
    <2>1. Encloses(f, 0)
      BY DEF Encloses
    <2> QED BY <2>1
  <1>2. ASSUME NEW n \in Nat, n \in T PROVE n + 1 \in T
    <2>1. PICK f : Encloses(f, n)
      BY <1>2
    <2> DEFINE at(g, i) == IF i \notin DOMAIN trace \/ trace[i].parent = None THEN <<>>
                           ELSE <<trace[i].parent>> \o g[trace[i].parent]
               new == [i \in 1 .. n + 1 |-> IF i = n + 1 THEN at(f, i) ELSE f[i]]
    <2>2. f = [i \in 1 .. n |-> at(f, i)]
      BY <2>1 DEF Encloses
    <2>3. ASSUME NEW i \in 1 .. n + 1 PROVE new[i] = at(new, i)
      <3>1. i \in DOMAIN trace /\ trace[i].parent # None => trace[i].parent \in 1 .. n /\ trace[i].parent # n + 1
        <4>1. i \in DOMAIN trace /\ trace[i].parent # None => trace[i].parent \in 1 .. i - 1
          BY SliceFacts
        <4> QED BY <4>1
      <3>2. \A j \in 1 .. n : new[j] = f[j]
        OBVIOUS
      <3>3. new[i] = IF i = n + 1 THEN at(f, i) ELSE f[i]
        OBVIOUS
      <3>4. at(new, i) = at(f, i)
        <4> HIDE DEF new
        <4> QED BY <3>1, <3>2
      <3>5. i # n + 1 => f[i] = at(f, i)
        <4>1. i # n + 1 => i \in 1 .. n
          OBVIOUS
        <4> HIDE DEF at
        <4> QED BY <2>2, <4>1
      <3> HIDE DEF at, new
      <3> QED BY <3>3, <3>4, <3>5
    <2>4. new = [i \in 1 .. n + 1 |-> new[i]]
      OBVIOUS
    <2>5. Encloses(new, n + 1)
      <3>1. new = [i \in 1 .. n + 1 |-> at(new, i)]
        <4> HIDE DEF new, at
        <4> QED BY <2>3, <2>4
      <3> HIDE DEF new
      <3> QED BY <3>1 DEF Encloses
    <2> HIDE DEF new
    <2> QED BY <2>5
  <1>3. Nat \subseteq T
    <2> HIDE DEF T
    <2> QED BY <1>1, <1>2, Inductive
  <1>4. \E f : Encloses(f, MaxEvents)
    BY <1>3, AnalysesAssumption
  <1>5. Enclosing = CHOOSE f : Encloses(f, MaxEvents)
    BY DEF Enclosing, Encloses
  <1> QED BY <1>4, <1>5

LEMMA EnclosingIs ==
  ASSUME TraceInv, NEW i \in DOMAIN trace
  PROVE  Enclosing[i] = IF trace[i].parent = None THEN <<>> ELSE <<trace[i].parent>> \o Enclosing[trace[i].parent]
PROOF
  <1>1. i \in 1 .. MaxEvents
    BY PlacesFinite, AnalysesAssumption DEF TraceInv
  <1> DEFINE f == Enclosing
             at(j) == IF j \notin DOMAIN trace \/ trace[j].parent = None THEN <<>>
                      ELSE <<trace[j].parent>> \o f[trace[j].parent]
  <1>2. f = [j \in 1 .. MaxEvents |-> at(j)]
    BY EnclosingSolved DEF Encloses
  <1> HIDE DEF f
  <1>3. f[i] = at(i)
    <2> HIDE DEF at
    <2> QED BY <1>1, <1>2
  <1> QED BY <1>3 DEF f

\* They are slices before it, each before the one it is in.
Chain(s, i) == /\ s \in Seq(1 .. i - 1) /\ \A a, b \in 1 .. Len(s) : a < b => s[b] < s[a]

\* A sequence with one more element in front.
LEMMA Prepended ==
  ASSUME NEW S, NEW s \in Seq(S), NEW x \in S
  PROVE  /\ <<x>> \o s \in Seq(S) /\ Len(<<x>> \o s) = Len(s) + 1 /\ (<<x>> \o s)[1] = x
         /\ \A n \in 1 .. Len(s) : (<<x>> \o s)[n + 1] = s[n]
PROOF
  <1> DEFINE h == <<x>>
             t == h \o s
  <1>1. h \in Seq(S) /\ Len(h) = 1 /\ h[1] = x
    OBVIOUS
  <1> HIDE DEF h
  <1>2. t \in Seq(S) /\ Len(t) = Len(h) + Len(s)
    BY <1>1, ConcatProperties
  <1>3. \A n \in 1 .. Len(h) + Len(s) : t[n] = IF n <= Len(h) THEN h[n] ELSE s[n - Len(h)]
    BY <1>1, ConcatProperties
  <1>4. Len(s) \in Nat
    OBVIOUS
  <1> HIDE DEF t
  <1>5. 1 \in 1 .. Len(h) + Len(s) /\ t[1] = x
    BY <1>1, <1>3, <1>4
  <1>6. \A n \in 1 .. Len(s) : t[n + 1] = s[n]
    BY <1>1, <1>3, <1>4
  <1>7. Len(t) = Len(s) + 1
    BY <1>1, <1>2, <1>4
  <1> QED BY <1>2, <1>5, <1>6, <1>7 DEF t, h

\* What is around a slice: earlier slices, each before the one it is around.
LEMMA ChainIs == ASSUME TraceInv PROVE \A i \in DOMAIN trace : Chain(Enclosing[i], i)
PROOF
  <1> DEFINE T == {n \in Nat : \A i \in DOMAIN trace : i <= n => Chain(Enclosing[i], i)}
  <1>1. 0 \in T
    BY PlacesFinite
  <1>2. ASSUME NEW n \in Nat, n \in T PROVE n + 1 \in T
    <2>1. ASSUME NEW i \in DOMAIN trace, i <= n + 1 PROVE Chain(Enclosing[i], i)
      <3>0. i \in Nat
        BY SliceFacts
      <3>1. CASE trace[i].parent = None
        <4>1. Enclosing[i] = <<>>
          BY <3>1, EnclosingIs
        <4>2. Chain(<<>>, i)
          BY DEF Chain
        <4> QED BY <4>1, <4>2
      <3>2. CASE trace[i].parent # None
        <4> DEFINE p == trace[i].parent
                   s == Enclosing[p]
                   S == 1 .. i - 1
                   t == <<p>> \o s
        <4>1. p \in S /\ Enclosing[i] = t
          BY <3>2, SliceFacts, EnclosingIs
        <4>2. p \in DOMAIN trace /\ p <= n
          BY <3>0, <4>1, <2>1, PlacesFinite
        <4>3. Chain(s, p)
          BY <1>2, <4>2
        <4>4. s \in Seq(S)
          <5>1. s \in Seq(1 .. p - 1)
            BY <4>3 DEF Chain
          <5>2. 1 .. p - 1 \subseteq S
            BY <3>0, <4>1
          <5> DEFINE P == 1 .. p - 1
          <5>3. s \in Seq(P) /\ P \subseteq S
            BY <5>1, <5>2
          <5> HIDE DEF s, p, S, P
          <5>4. Len(s) \in Nat /\ s = [m \in 1 .. Len(s) |-> s[m]] /\ \A m \in 1 .. Len(s) : s[m] \in P
            BY <5>3
          <5>5. \A m \in 1 .. Len(s) : s[m] \in S
            BY <5>3, <5>4
          <5> QED BY <5>4, <5>5
        <4> HIDE DEF S, t, s, p
        <4>5. t \in Seq(S) /\ Len(t) = Len(s) + 1 /\ t[1] = p /\ \A m \in 1 .. Len(s) : t[m + 1] = s[m]
          BY <4>1, <4>4, Prepended DEF t
        <4>6. ASSUME NEW a \in 1 .. Len(t), NEW b \in 1 .. Len(t), a < b PROVE t[b] < t[a]
          <5>1. Len(s) \in Nat /\ b - 1 \in 1 .. Len(s) /\ t[b] = s[b - 1]
            <6>1. Len(s) \in Nat
              BY <4>4
            <6>2. b - 1 \in 1 .. Len(s) /\ (b - 1) + 1 = b
              BY <6>1, <4>5, <4>6
            <6> QED BY <6>1, <6>2, <4>5
          <5>2. \A m \in 1 .. Len(s) : s[m] \in 1 .. p - 1
            <6> DEFINE P == 1 .. p - 1
            <6>1. s \in Seq(P)
              BY <4>3 DEF Chain
            <6> HIDE DEF P
            <6>2. \A m \in 1 .. Len(s) : s[m] \in P
              BY <6>1
            <6> QED BY <6>2 DEF P
          <5>3. CASE a = 1
            <6>1. s[b - 1] \in 1 .. p - 1
              BY <5>1, <5>2
            <6>2. p \in Nat
              BY <4>1, <3>0 DEF S
            <6> QED BY <6>1, <6>2, <5>1, <5>3, <4>5
          <5>4. CASE a # 1
            <6>1. a - 1 \in 1 .. Len(s) /\ (a - 1) + 1 = a /\ a - 1 < b - 1
              BY <5>1, <5>4, <4>5, <4>6
            <6>2. t[a] = s[a - 1]
              BY <6>1, <4>5
            <6>3. s[b - 1] < s[a - 1]
              BY <6>1, <5>1, <4>3 DEF Chain
            <6> QED BY <6>2, <6>3, <5>1
          <5> QED BY <5>3, <5>4
        <4>7. Chain(t, i)
          BY <4>5, <4>6 DEF Chain, S
        <4> QED BY <4>1, <4>7
      <3> QED BY <3>1, <3>2
    <2> QED BY <2>1
  <1>3. Nat \subseteq T
    <2> HIDE DEF T
    <2> QED BY <1>1, <1>2, Inductive
  <1>4. \A i \in DOMAIN trace : i \in Nat /\ i <= i
    BY PlacesFinite
  <1> QED BY <1>3, <1>4

\* The place of a slice among those around another is the depth below it.
LEMMA DepthIs ==
  ASSUME TraceInv, NEW i \in DOMAIN trace, NEW root
  PROVE  /\ DepthBelow(root, i) \in 0 .. Len(Enclosing[i]) /\ Len(Enclosing[i]) \in Nat
         /\ \A d \in Nat \ {0} : DepthBelow(root, i) = d <=> d \in 1 .. Len(Enclosing[i]) /\ Enclosing[i][d] = root
PROOF
  <1> DEFINE up == Enclosing[i]
             I  == {n \in 1 .. Len(up) : up[n] = root}
             at == DepthBelow(root, i)
  <1>1. Chain(up, i)
    BY ChainIs
  <1>2. up \in Seq(1 .. i - 1) /\ Len(up) \in Nat /\ \A a, b \in 1 .. Len(up) : a < b => up[b] < up[a]
    BY <1>1 DEF Chain
  <1>3. \A n \in 1 .. Len(up) : up[n] \in Int
    BY <1>2
  <1>4. at = IF I # {} THEN Min(I) ELSE 0
    BY DEF DepthBelow, SelectInSeq
  <1>5. \A a, b \in I : a = b
    <2> SUFFICES ASSUME NEW a \in I, NEW b \in I, a # b PROVE FALSE
      OBVIOUS
    <2>1. a \in Nat /\ b \in Nat /\ up[a] = up[b] /\ up[a] \in Int /\ a \in 1 .. Len(up) /\ b \in 1 .. Len(up)
      BY <1>2, <1>3
    <2>2. a < b \/ b < a
      BY <2>1
    <2> QED BY <1>2, <2>1, <2>2
  <1>6. CASE I = {}
    <2>1. at = 0
      BY <1>4, <1>6
    <2> HIDE DEF at
    <2> QED BY <1>2, <1>6, <2>1 DEF at
  <1>7. CASE I # {}
    <2>1. PICK n \in I : I = {n}
      BY <1>5, <1>7
    <2>2. n \in Int /\ n \in 1 .. Len(up) /\ up[n] = root
      BY <1>2
    <2>3. at = n
      <3>1. Min({n}) = n
        BY <2>2, OneExtreme
      <3> QED BY <3>1, <2>1, <1>4, <1>7
    <2>4. \A d \in 1 .. Len(up) : up[d] = root => d = n
      BY <2>1
    <2> HIDE DEF at, I
    <2>5. at \in 0 .. Len(up) /\ \A d \in Nat \ {0} : at = d <=> d \in 1 .. Len(up) /\ up[d] = root
      BY <1>2, <2>2, <2>3, <2>4
    <2> QED BY <2>5, <1>2 DEF at
  <1> QED BY <1>6, <1>7
-------------------------------------------------------------------------------
\* The levels of a recursive query.
Reaches(level, root, depth, follow) ==
  level = [d \in 0 .. depth |-> IF d = 0 THEN {root} ELSE {j \in follow : trace[j].parent \in level[d - 1]}]

LEMMA LevelsExist ==
  ASSUME NEW root, NEW follow
  PROVE  \A depth \in Nat : \E level : Reaches(level, root, depth, follow)
PROOF
  <1> DEFINE T == {n \in Nat : \E level : Reaches(level, root, n, follow)}
  <1>1. 0 \in T
    <2> DEFINE level == [d \in 0 .. 0 |-> {root}]
    <2>1. \A d \in 0 .. 0 : d = 0
      OBVIOUS
    <2>2. Reaches(level, root, 0, follow)
      BY <2>1 DEF Reaches
    <2> HIDE DEF level
    <2> QED BY <2>2
  <1>2. ASSUME NEW n \in Nat, n \in T PROVE n + 1 \in T
    <2>1. PICK old : Reaches(old, root, n, follow)
      BY <1>2
    <2> DEFINE next(S) == {j \in follow : trace[j].parent \in S}
               at(g, d) == IF d = 0 THEN {root} ELSE next(g[d - 1])
               new == [d \in 0 .. n + 1 |-> IF d = n + 1 THEN next(old[n]) ELSE old[d]]
    <2>2. old = [d \in 0 .. n |-> at(old, d)]
      BY <2>1 DEF Reaches
    <2> HIDE DEF next
    <2>3. ASSUME NEW d \in 0 .. n + 1 PROVE new[d] = at(new, d)
      <3>1. CASE d = n + 1
        <4>1. n \in 0 .. n + 1 /\ n # n + 1 /\ d - 1 = n /\ d # 0
          BY <3>1
        <4>2. new[n] = old[n]
          BY <4>1
        <4>3. new[d] = next(old[n])
          BY <3>1
        <4> HIDE DEF new
        <4> QED BY <4>1, <4>2, <4>3
      <3>2. CASE d # n + 1 /\ d # 0
        <4>1. d \in 0 .. n /\ d - 1 \in 0 .. n /\ d - 1 \in 0 .. n + 1 /\ d - 1 # n + 1
          BY <3>2
        <4>2. new[d] = old[d] /\ new[d - 1] = old[d - 1]
          BY <3>2, <4>1
        <4>3. old[d] = at(old, d)
          <5> HIDE DEF at
          <5> QED BY <2>2, <4>1
        <4> HIDE DEF new
        <4> QED BY <3>2, <4>2, <4>3
      <3>3. CASE d = 0
        <4>1. 0 \in 0 .. n /\ 0 # n + 1
          OBVIOUS
        <4>2. old[0] = at(old, 0)
          <5> HIDE DEF at
          <5> QED BY <2>2, <4>1
        <4>3. new[d] = old[0]
          BY <3>3, <4>1
        <4> HIDE DEF new
        <4> QED BY <3>3, <4>2, <4>3
      <3> QED BY <3>1, <3>2, <3>3
    <2>4. new = [d \in 0 .. n + 1 |-> new[d]]
      OBVIOUS
    <2>5. new = [d \in 0 .. n + 1 |-> at(new, d)]
      <3> HIDE DEF new, at
      <3> QED BY <2>3, <2>4
    <2> HIDE DEF new
    <2>6. Reaches(new, root, n + 1, follow)
      BY <2>5 DEF Reaches, next
    <2> QED BY <2>6
  <1>3. Nat \subseteq T
    <2> HIDE DEF T
    <2> QED BY <1>1, <1>2, Inductive
  <1> QED BY <1>3

Levelled(level, root, depth, follow) ==
  /\ level[0] = {root}
  /\ \A d \in 1 .. depth : level[d] = {j \in follow : trace[j].parent \in level[d - 1]}
  /\ Below(trace, root, depth, follow) = [d \in 1 .. depth |-> level[d]]

\* The levels of a recursive query solve its recursion.
LEMMA BelowIs ==
  ASSUME NEW root, NEW follow, NEW depth \in Nat
  PROVE  \E level : Levelled(level, root, depth, follow)
PROOF
  <1> DEFINE it == CHOOSE level : Reaches(level, root, depth, follow)
  <1>1. Below(trace, root, depth, follow) = [d \in 1 .. depth |-> it[d]]
    BY DEF Below, Reaches
  <1>2. Reaches(it, root, depth, follow)
    BY LevelsExist
  <1> HIDE DEF it
  <1>3. \A d \in 0 .. depth : it[d] = IF d = 0 THEN {root} ELSE {j \in follow : trace[j].parent \in it[d - 1]}
    BY <1>2 DEF Reaches
  <1>4. 0 \in 0 .. depth /\ \A d \in 1 .. depth : d \in 0 .. depth /\ d # 0
    OBVIOUS
  <1>5. it[0] = {root} /\ \A d \in 1 .. depth : it[d] = {j \in follow : trace[j].parent \in it[d - 1]}
    BY <1>3, <1>4
  <1>6. Levelled(it, root, depth, follow)
    BY <1>1, <1>5 DEF Levelled
  <1> QED BY <1>6

\* What is around a slice: its parent, and what is around that.
LEMMA OneUp ==
  ASSUME TraceInv, NEW i \in DOMAIN trace
  PROVE  /\ trace[i].parent = None => Enclosing[i] = <<>>
         /\ trace[i].parent # None =>
              /\ trace[i].parent \in DOMAIN trace
              /\ Len(Enclosing[i]) = Len(Enclosing[trace[i].parent]) + 1
              /\ Enclosing[i][1] = trace[i].parent
              /\ \A n \in 1 .. Len(Enclosing[trace[i].parent]) :
                   Enclosing[i][n + 1] = Enclosing[trace[i].parent][n]
PROOF
  <1>1. CASE trace[i].parent = None
    BY <1>1, EnclosingIs
  <1>2. CASE trace[i].parent # None
    <2> DEFINE p == trace[i].parent
               s == Enclosing[p]
               S == Int
    <2>1. p \in 1 .. i - 1 /\ i \in Nat /\ Enclosing[i] = <<p>> \o s
      BY <1>2, SliceFacts, EnclosingIs
    <2>2. p \in DOMAIN trace
      BY <2>1, PlacesFinite
    <2>3. s \in Seq(S)
      <3> DEFINE P == 1 .. p - 1
      <3>1. s \in Seq(P) /\ P \subseteq S
        BY <2>2, ChainIs DEF Chain
      <3> HIDE DEF s, P, S
      <3>2. Len(s) \in Nat /\ s = [m \in 1 .. Len(s) |-> s[m]] /\ \A m \in 1 .. Len(s) : s[m] \in P
        BY <3>1
      <3>3. \A m \in 1 .. Len(s) : s[m] \in S
        BY <3>1, <3>2
      <3> QED BY <3>2, <3>3
    <2>4. p \in S
      BY <2>1
    <2> HIDE DEF S, s, p
    <2>5. /\ Len(<<p>> \o s) = Len(s) + 1 /\ (<<p>> \o s)[1] = p
          /\ \A n \in 1 .. Len(s) : (<<p>> \o s)[n + 1] = s[n]
      BY <2>3, <2>4, Prepended
    <2> QED BY <2>1, <2>2, <2>5, <1>2 DEF s, p
  <1> QED BY <1>1, <1>2

\* What a query reaches at a depth: what is at that depth below the root, if the query went
\* on from all there is on the way.
ReachedAt(i, root, d, follow) ==
  /\ d \in 1 .. Len(Enclosing[i]) /\ Enclosing[i][d] = root
  /\ \A k \in 1 .. d - 1 : Enclosing[i][k] \in follow

\* The levels of a recursive query are what is reached in so many steps of what it follows.
LEMMA LevelsAre ==
  ASSUME TraceInv, NEW root \in DOMAIN trace, NEW F \in SUBSET DOMAIN trace, NEW depth \in Nat, NEW d \in 1 .. depth
  PROVE  Below(trace, root, depth, F)[d] = {i \in F : ReachedAt(i, root, d, F)}
PROOF
  <1>1. PICK level : /\ level[0] = {root}
                     /\ \A e \in 1 .. depth : level[e] = {j \in F : trace[j].parent \in level[e - 1]}
                     /\ Below(trace, root, depth, F) = [e \in 1 .. depth |-> level[e]]
    <2>1. PICK level : Levelled(level, root, depth, F)
      BY BelowIs
    <2> QED BY <2>1 DEF Levelled
  <1> DEFINE T == {e \in Nat : e + 1 <= depth => level[e + 1] = {i \in F : ReachedAt(i, root, e + 1, F)}}
  <1>2. \A i \in DOMAIN trace : Len(Enclosing[i]) \in Nat
    BY DepthIs
  <1>3. None \notin DOMAIN trace /\ root # None
    <2>1. \A j \in DOMAIN trace : j \in Int
      BY SliceFacts
    <2> QED BY <2>1, NullIsNoTool
  <1>4. 0 \in T
    <2> SUFFICES ASSUME 0 + 1 <= depth PROVE level[1] = {i \in F : ReachedAt(i, root, 1, F)}
      OBVIOUS
    <2>1. level[1] = {j \in F : trace[j].parent = root}
      <3>1. 1 \in 1 .. depth /\ 1 - 1 = 0
        OBVIOUS
      <3> QED BY <1>1, <3>1
    <2>2. ASSUME NEW i \in F PROVE trace[i].parent = root <=> ReachedAt(i, root, 1, F)
      <3>0. i \in DOMAIN trace
        OBVIOUS
      <3>1. CASE trace[i].parent = None
        <4>1. Len(Enclosing[i]) = 0
          BY <3>0, <3>1, OneUp
        <4> QED BY <1>3, <3>1, <4>1 DEF ReachedAt
      <3>2. CASE trace[i].parent # None
        <4>1. /\ Len(Enclosing[i]) = Len(Enclosing[trace[i].parent]) + 1 /\ Enclosing[i][1] = trace[i].parent
              /\ trace[i].parent \in DOMAIN trace
          BY <3>0, <3>2, OneUp
        <4>2. 1 \in 1 .. Len(Enclosing[i]) /\ \A k \in 1 .. 1 - 1 : FALSE
          BY <1>2, <4>1
        <4> QED BY <4>1, <4>2 DEF ReachedAt
      <3> QED BY <3>1, <3>2
    <2> QED BY <2>1, <2>2
  <1>5. ASSUME NEW e \in Nat, e \in T PROVE e + 1 \in T
    <2> SUFFICES ASSUME (e + 1) + 1 <= depth
                 PROVE  level[(e + 1) + 1] = {i \in F : ReachedAt(i, root, (e + 1) + 1, F)}
      OBVIOUS
    <2> DEFINE m == e + 1
    <2>1. m \in Nat /\ m <= depth /\ m + 1 \in 1 .. depth /\ (m + 1) - 1 = m /\ m # 0 /\ m >= 1
      OBVIOUS
    <2>2. level[m] = {i \in F : ReachedAt(i, root, m, F)}
      BY <1>5, <2>1
    <2> HIDE DEF m
    <2>3. level[m + 1] = {j \in F : trace[j].parent \in level[m]}
      BY <1>1, <2>1
    <2>4. ASSUME NEW i \in F PROVE trace[i].parent \in level[m] <=> ReachedAt(i, root, m + 1, F)
      <3>0. i \in DOMAIN trace
        OBVIOUS
      <3>1. CASE trace[i].parent = None
        <4>1. Len(Enclosing[i]) = 0
          BY <3>0, <3>1, OneUp
        <4>2. ~(m + 1 \in 1 .. Len(Enclosing[i]))
          BY <2>1, <4>1
        <4> QED BY <2>2, <3>1, <1>3, <4>2 DEF ReachedAt
      <3>2. CASE trace[i].parent # None
        <4> DEFINE p == trace[i].parent
        <4>1. /\ p \in DOMAIN trace /\ Len(Enclosing[i]) = Len(Enclosing[p]) + 1 /\ Enclosing[i][1] = p
              /\ \A n \in 1 .. Len(Enclosing[p]) : Enclosing[i][n + 1] = Enclosing[p][n]
          BY <3>0, <3>2, OneUp
        <4>2. Len(Enclosing[p]) \in Nat
          BY <1>2, <4>1
        <4> DEFINE up == Enclosing[p]
                   over == Enclosing[i]
        <4> HIDE DEF p, up, over
        <4>3. /\ Len(over) = Len(up) + 1 /\ Len(up) \in Nat /\ over[1] = p
              /\ \A n \in 1 .. Len(up) : over[n + 1] = up[n]
          BY <4>1, <4>2 DEF up, over
        <4>4. m \in 1 .. Len(up) <=> m + 1 \in 1 .. Len(over)
          BY <2>1, <4>3
        <4>5. m \in 1 .. Len(up) => over[m + 1] = up[m]
          BY <4>3
        <4>6. ASSUME m \in 1 .. Len(up)
              PROVE  (\A k \in 1 .. m : over[k] \in F) <=> p \in F /\ \A k \in 1 .. m - 1 : up[k] \in F
          <5>1. ASSUME \A k \in 1 .. m : over[k] \in F PROVE p \in F /\ \A k \in 1 .. m - 1 : up[k] \in F
            <6>1. 1 \in 1 .. m
              BY <2>1
            <6>2. ASSUME NEW k \in 1 .. m - 1 PROVE up[k] \in F
              <7>1. k + 1 \in 1 .. m /\ k \in 1 .. Len(up)
                BY <2>1, <4>3, <4>6
              <7> QED BY <4>3, <5>1, <7>1
            <6> QED BY <4>3, <5>1, <6>1, <6>2
          <5>2. ASSUME p \in F, \A k \in 1 .. m - 1 : up[k] \in F, NEW k \in 1 .. m PROVE over[k] \in F
            <6>1. CASE k = 1
              BY <4>3, <5>2, <6>1
            <6>2. CASE k # 1
              <7>1. k - 1 \in 1 .. m - 1 /\ k - 1 \in 1 .. Len(up) /\ (k - 1) + 1 = k
                BY <2>1, <4>3, <4>6, <6>2
              <7>2. over[k] = up[k - 1]
                BY <4>3, <7>1
              <7> QED BY <5>2, <7>1, <7>2
            <6> QED BY <6>1, <6>2
          <5> QED BY <5>1, <5>2
        <4>7. ReachedAt(i, root, m + 1, F)
                <=> m + 1 \in 1 .. Len(over) /\ over[m + 1] = root /\ \A k \in 1 .. m : over[k] \in F
          BY <2>1 DEF ReachedAt, over
        <4>8. p \in level[m] <=> p \in F /\ m \in 1 .. Len(up) /\ up[m] = root /\ \A k \in 1 .. m - 1 : up[k] \in F
          BY <2>2 DEF ReachedAt, up
        <4>9. p \in level[m] <=> ReachedAt(i, root, m + 1, F)
          BY <4>4, <4>5, <4>6, <4>7, <4>8
        <4> QED BY <4>9 DEF p
      <3> QED BY <3>1, <3>2
    <2>5. level[m + 1] = {i \in F : ReachedAt(i, root, m + 1, F)}
      BY <2>3, <2>4
    <2> QED BY <2>5 DEF m
  <1>6. Nat \subseteq T
    <2> HIDE DEF T
    <2> QED BY <1>4, <1>5, Inductive
  <1>7. level[d] = {i \in F : ReachedAt(i, root, d, F)}
    <2>1. d - 1 \in Nat /\ (d - 1) + 1 = d /\ d <= depth
      OBVIOUS
    <2>2. d - 1 \in T
      BY <1>6, <2>1
    <2> QED BY <2>1, <2>2
  <1>8. Below(trace, root, depth, F)[d] = level[d]
    BY <1>1
  <1> QED BY <1>7, <1>8

LEMMA AroundAreSlices == ASSUME TraceInv, NEW i \in DOMAIN trace PROVE \A k \in 1 .. Len(Enclosing[i]) : Enclosing[i][k] \in DOMAIN trace
PROOF
  <1> DEFINE up == Enclosing[i]
             P  == 1 .. i - 1
  <1>1. up \in Seq(P)
    BY ChainIs DEF Chain
  <1>2. P \subseteq DOMAIN trace
    BY PlacesFinite
  <1> HIDE DEF up, P
  <1>3. \A k \in 1 .. Len(up) : up[k] \in P
    BY <1>1
  <1> QED BY <1>2, <1>3 DEF up

LEMMA LevelsAreDepths ==
  ASSUME TraceInv, NEW root \in DOMAIN trace, NEW depth \in Nat, NEW d \in 1 .. depth
  PROVE  Below(trace, root, depth, DOMAIN trace)[d] = {i \in DOMAIN trace : DepthBelow(root, i) = d}
PROOF
  <1> DEFINE F == DOMAIN trace
  <1>1. Below(trace, root, depth, F)[d] = {i \in F : ReachedAt(i, root, d, F)}
    <2>1. F \in SUBSET DOMAIN trace
      OBVIOUS
    <2> HIDE DEF F
    <2> QED BY <2>1, LevelsAre
  <1>2. ASSUME NEW i \in F PROVE ReachedAt(i, root, d, F) <=> DepthBelow(root, i) = d
    <2>1. d \in Nat \ {0}
      OBVIOUS
    <2>2. DepthBelow(root, i) = d <=> d \in 1 .. Len(Enclosing[i]) /\ Enclosing[i][d] = root
      BY <2>1, DepthIs
    <2>3. ASSUME d \in 1 .. Len(Enclosing[i]), NEW k \in 1 .. d - 1 PROVE Enclosing[i][k] \in F
      <3>1. Len(Enclosing[i]) \in Nat
        BY DepthIs
      <3>2. k \in 1 .. Len(Enclosing[i])
        BY <2>3, <3>1
      <3> QED BY <3>2, AroundAreSlices
    <2> QED BY <2>2, <2>3 DEF ReachedAt
  <1> QED BY <1>1, <1>2
-------------------------------------------------------------------------------
\* The time of a slice that has ended is its duration.
LEMMA Endings ==
  ASSUME TraceInv, NEW i \in DOMAIN trace, trace[i].dur >= 0
  PROVE  /\ Instants(trace[i]) = trace[i].ts .. (End(trace[i]) - 1)
         /\ IsFiniteSet(Instants(trace[i])) /\ Cardinality(Instants(trace[i])) = trace[i].dur
PROOF
  <1> DEFINE a == trace[i].ts
             d == trace[i].dur
             b == (a + d) - 1
  <1>1. a \in Int /\ d \in Int /\ b \in Int /\ d >= 0
    BY SliceFacts
  <1>2. Instants(trace[i]) = a .. b
    BY DEF Instants, End, Incomplete
  <1>3. b = (a + d) - 1
    OBVIOUS
  <1> HIDE DEF a, b, d
  <1>4. IsFiniteSet(a .. b) /\ Cardinality(a .. b) = IF a > b THEN 0 ELSE b - a + 1
    BY <1>1, FS_Interval
  <1>5. Cardinality(a .. b) = d
    BY <1>1, <1>3, <1>4
  <1> QED BY <1>2, <1>4, <1>5 DEF a, b, d, End

\* Of what has ended the children have ended too, and no two of them ran at once.
LEMMA ChildrenApart ==
  ASSUME TraceInv, NEW i \in DOMAIN trace, trace[i].dur >= 0
  PROVE  /\ \A j \in ChildrenOf(trace, i) : /\ j \in DOMAIN trace /\ trace[j].dur >= 0
                                            /\ Instants(trace[j]) \subseteq Instants(trace[i])
         /\ \A j, k \in ChildrenOf(trace, i) : j # k => Instants(trace[j]) \cap Instants(trace[k]) = {}
PROOF
  <1>0. \A j \in ChildrenOf(trace, i) : j \in DOMAIN trace /\ trace[j].parent = i /\ trace[j].parent # None
    <2>1. i # None
      <3>1. i \in Int
        BY SliceFacts
      <3> QED BY <3>1, NullIsNoTool
    <2> QED BY <2>1 DEF ChildrenOf
  <1>1. ASSUME NEW j \in ChildrenOf(trace, i)
        PROVE  /\ trace[j].dur >= 0 /\ Instants(trace[j]) \subseteq Instants(trace[i])
               /\ trace[j].track = trace[i].track /\ i < j /\ j \in Nat /\ trace[j].ts \in Int
               /\ Instants(trace[j]) = trace[j].ts .. (End(trace[j]) - 1)
    <2>1. /\ trace[j].track = trace[i].track /\ trace[j].ts \in Instants(trace[i])
          /\ trace[i].dur = Incomplete \/ (trace[j].dur # Incomplete /\ End(trace[j]) <= End(trace[i]))
      BY <1>0 DEF TraceInv, WithinParent
    <2>2. trace[j].dur # Incomplete /\ End(trace[j]) <= End(trace[i])
      BY <2>1 DEF Incomplete
    <2>3. /\ trace[j].dur >= 0 /\ End(trace[j]) \in Int /\ trace[j].ts \in Int /\ j \in Nat
          /\ trace[j].parent \in 1 .. j - 1
      BY <1>0, <2>2, SliceFacts
    <2>4. trace[i].ts \in Int /\ End(trace[i]) \in Int
      BY SliceFacts
    <2>5. Instants(trace[i]) = trace[i].ts .. (End(trace[i]) - 1) /\ Instants(trace[j]) = trace[j].ts .. (End(trace[j]) - 1)
      BY <1>0, <2>3, Endings
    <2>6. trace[j].ts >= trace[i].ts
      BY <2>1, <2>3, <2>4, <2>5
    <2>7. Instants(trace[j]) \subseteq Instants(trace[i])
      BY <2>2, <2>3, <2>4, <2>5, <2>6
    <2> QED BY <1>0, <2>1, <2>3, <2>5, <2>7
  <1>2. ASSUME NEW j \in ChildrenOf(trace, i), NEW k \in ChildrenOf(trace, i), j < k
        PROVE  Instants(trace[j]) \cap Instants(trace[k]) = {}
    <2>1. trace[k].ts \notin Instants(trace[j])
      <3> SUFFICES ASSUME trace[k].ts \in Instants(trace[j]) PROVE FALSE
        OBVIOUS
      <3>1. trace[k].parent # None /\ j <= trace[k].parent
        BY <1>0, <1>1, <1>2 DEF TraceInv, UnderTheNearest
      <3>2. i \in Nat
        BY SliceFacts
      <3> QED BY <3>1, <3>2, <1>0, <1>1
    <2>2. trace[j].ts <= trace[k].ts
      BY <1>0, <1>2 DEF TraceInv, InOrder
    <2>3. trace[j].ts \in Int /\ trace[k].ts \in Int /\ End(trace[j]) \in Int /\ End(trace[k]) \in Int
      BY <1>0, SliceFacts
    <2>4. End(trace[j]) <= trace[k].ts
      <3>1. Instants(trace[j]) = trace[j].ts .. (End(trace[j]) - 1)
        BY <1>1
      <3> QED BY <3>1, <2>1, <2>2, <2>3
    <2>5. Instants(trace[j]) = trace[j].ts .. (End(trace[j]) - 1) /\ Instants(trace[k]) = trace[k].ts .. (End(trace[k]) - 1)
      BY <1>1
    <2> QED BY <2>3, <2>4, <2>5
  <1>3. ASSUME NEW j \in ChildrenOf(trace, i), NEW k \in ChildrenOf(trace, i), j # k
        PROVE  Instants(trace[j]) \cap Instants(trace[k]) = {}
    <2>1. j \in Nat /\ k \in Nat
      BY <1>1
    <2>2. j < k \/ k < j
      BY <1>3, <2>1
    <2> QED BY <1>2, <2>2
  <1> QED BY <1>0, <1>1, <1>3

\* The time of a slice less that of its children is what it ran alone.
LEMMA SelfTimeIs ==
  ASSUME TraceInv, NEW i \in DOMAIN trace, trace[i].dur >= 0
  PROVE  SelfTime(trace, i) = Cardinality(SelfOnly(i))
PROOF
  <1> DEFINE C     == ChildrenOf(trace, i)
             K     == {c \in C : trace[c].dur > 0}
             durs  == [j \in DOMAIN trace |-> trace[j].dur]
             of(s) == UNION {Instants(trace[j]) : j \in s}
             Q     == {s \in SUBSET K : IsFiniteSet(of(s)) /\ Cardinality(of(s)) = SumOver(durs, s)}
  <1>1. K \in SUBSET DOMAIN trace /\ IsFiniteSet(K)
    <2>1. K \in SUBSET DOMAIN trace
      BY DEF ChildrenOf
    <2> HIDE DEF K
    <2> QED BY <2>1, PlacesFinite, FS_Subset
  <1>2. \A j \in DOMAIN trace : durs[j] = trace[j].dur /\ durs[j] \in Int
    BY SliceFacts
  <1>3. \A j \in K : j \in C /\ trace[j].dur > 0
    OBVIOUS
  <1> HIDE DEF K, C
  <1>4. SumFunction([j \in K |-> trace[j].dur]) = SumOver(durs, K)
    <2>1. [j \in K |-> trace[j].dur] = [j \in K |-> durs[j]]
      BY <1>1, <1>2
    <2> HIDE DEF durs
    <2> QED BY <2>1 DEF SumOver
  <1>5. SelfTime(trace, i) = Larger(0, trace[i].dur - SumOver(durs, K))
    BY <1>4 DEF SelfTime, K, C
  <1> HIDE DEF durs
  <1>6. \A s \in SUBSET K : IsFiniteSet(s) /\ \A x \in s : durs[x] \in Int
    BY <1>1, <1>2, FS_Subset
  <1>7. {} \in Q
    <2>1. of({}) = {} /\ {} \in SUBSET K
      OBVIOUS
    <2>2. SumOver(durs, {}) = 0
      BY <1>6, SumOverRules
    <2> HIDE DEF of
    <2> QED BY <2>1, <2>2, FS_EmptySet
  <1>8. ASSUME NEW s \in SUBSET K, NEW x \in K \ s, s \in Q PROVE s \cup {x} \in Q
    <2> DEFINE t == s \cup {x}
               I == Instants(trace[x])
    <2>1. t \in SUBSET K /\ x \in t /\ t \ {x} = s
      BY <1>8
    <2>2. of(t) = of(s) \cup I
      OBVIOUS
    <2>3. IsFiniteSet(I) /\ Cardinality(I) = trace[x].dur
      <3>1. x \in DOMAIN trace /\ trace[x].dur >= 0
        BY <1>1, <1>2, <1>3
      <3> QED BY <3>1, Endings
    <2>4. of(s) \cap I = {}
      <3>1. \A j \in s : Instants(trace[j]) \cap I = {}
        <4>1. \A j \in s : j # x /\ j \in C /\ x \in C
          BY <1>3, <1>8
        <4> QED BY <4>1, ChildrenApart DEF C
      <3> HIDE DEF I
      <3> QED BY <3>1
    <2> HIDE DEF t, of, I
    <2>5. SumOver(durs, t) = durs[x] + SumOver(durs, s)
      BY <1>6, <2>1, SumOverRules
    <2>6. IsFiniteSet(of(s)) /\ Cardinality(of(s)) = SumOver(durs, s) /\ Cardinality(of(s)) \in Nat
      BY <1>8, FS_CardinalityType
    <2>7. /\ IsFiniteSet(of(s) \cup I)
          /\ Cardinality(of(s) \cup I) = Cardinality(of(s)) + Cardinality(I) - Cardinality(of(s) \cap I)
      BY <2>3, <2>6, FS_Union
    <2>8. Cardinality(of(s) \cap I) = 0
      BY <2>4, FS_EmptySet
    <2>9. durs[x] = trace[x].dur /\ durs[x] \in Int
      BY <1>1, <1>2
    <2>10. IsFiniteSet(of(t)) /\ Cardinality(of(t)) = SumOver(durs, t)
      BY <2>2, <2>3, <2>5, <2>6, <2>7, <2>8, <2>9
    <2> QED BY <2>1, <2>10 DEF t
  <1>9. K \in Q
    <2> HIDE DEF Q
    <2> QED BY <1>1, <1>7, <1>8, SetInduction
  <1> DEFINE I == Instants(trace[i])
             U == of(K)
  <1>10. IsFiniteSet(U) /\ Cardinality(U) = SumOver(durs, K) /\ U \subseteq I
    <2>1. \A j \in K : Instants(trace[j]) \subseteq I
      BY <1>3, ChildrenApart DEF C
    <2>2. IsFiniteSet(U) /\ Cardinality(U) = SumOver(durs, K)
      BY <1>9
    <2> HIDE DEF I
    <2> QED BY <2>1, <2>2
  <1>11. SelfOnly(i) = I \ U
    <2>1. SelfOnly(i) = I \ of(C)
      BY DEF SelfOnly, C, ChildrenOf
    <2>2. \A j \in C : j \notin K => Instants(trace[j]) = {}
      <3> SUFFICES ASSUME NEW j \in C, j \notin K PROVE Instants(trace[j]) = {}
        OBVIOUS
      <3>1. j \in DOMAIN trace /\ trace[j].dur >= 0
        BY ChildrenApart DEF C
      <3>2. trace[j].dur = 0
        BY <3>1, SliceFacts DEF K
      <3>3. IsFiniteSet(Instants(trace[j])) /\ Cardinality(Instants(trace[j])) = 0
        BY <3>1, <3>2, Endings
      <3> QED BY <3>3, FS_EmptySet
    <2>3. of(C) = of(K)
      <3>1. \A j \in K : j \in C
        BY <1>3
      <3> QED BY <2>2, <3>1
    <2> QED BY <2>1, <2>3
  <1>12. IsFiniteSet(I) /\ Cardinality(I) = trace[i].dur /\ trace[i].dur \in Int
    BY Endings, SliceFacts
  <1> HIDE DEF I, U
  <1>13. IsFiniteSet(I \ U) /\ Cardinality(I \ U) = Cardinality(I) - Cardinality(I \cap U)
    BY <1>12, FS_Difference
  <1>14. I \cap U = U
    BY <1>10
  <1>15. Cardinality(I \ U) \in Nat
    BY <1>13, FS_CardinalityType
  <1>16. Cardinality(I \ U) = trace[i].dur - SumOver(durs, K)
    BY <1>10, <1>12, <1>13, <1>14
  <1>17. Larger(0, trace[i].dur - SumOver(durs, K)) = Cardinality(I \ U)
    <2> DEFINE x == trace[i].dur - SumOver(durs, K)
    <2>1. x \in Nat
      BY <1>15, <1>16
    <2> HIDE DEF x
    <2>2. Larger(0, x) = x
      BY <2>1 DEF Larger
    <2> QED BY <2>2, <1>16 DEF x
  <1> QED BY <1>5, <1>11, <1>17
-------------------------------------------------------------------------------
\* What a row of the breakdown is about: the slices so far below its root.
SoFar(root, depth, name, min) ==
  {i \in DOMAIN trace : DepthBelow(root, i) = depth /\ trace[i].name = name /\ trace[i].dur >= min}

\* A row of the breakdown adds up the slices of its depth and name.
LEMMA DescendantRowIs ==
  ASSUME TraceInv, NEW q, WalkTo(q) \in Nat, NEW r \in DescendantRows(trace, q)
  PROVE  r.self = SumFunction([i \in SoFar(r.root, r.depth, r.name, q.min) |-> SelfTime(trace, i)])
PROOF
  <1> DEFINE W == WalkTo(q)
             R == q.ids \cap DOMAIN trace
             levels == [x \in R |-> Below(trace, x, W, DOMAIN trace)]
             members(x, d, n) == {i \in levels[x][d] : trace[i].name = n /\ trace[i].dur >= q.min}
             count(x, d, n)   == Cardinality(members(x, d, n))
             total(x, d, n)   == SumFunction([i \in members(x, d, n) |-> trace[i].dur])
             self(x, d, n)    == SumFunction([i \in members(x, d, n) |-> SelfTime(trace, i)])
             max(x, d, n)     == Max({trace[i].dur : i \in members(x, d, n)})
             first(x, d, n)   == Min({trace[i].ts : i \in members(x, d, n)})
             example(x, d, n) == First([i \in members(x, d, n) |-> <<trace[i].dur>>])
             row(x, d, n) == [root |-> x, depth |-> d, name |-> n, count |-> count(x, d, n),
                              total |-> total(x, d, n), self |-> self(x, d, n), max |-> max(x, d, n),
                              first |-> first(x, d, n), example |-> example(x, d, n)]
             names(x, d) == {j \in levels[x][d] : trace[j].dur >= q.min}
  <1>1. DescendantRows(trace, q)
          = UNION {UNION {{row(x, d, trace[i].name) : i \in names(x, d)} : d \in 1 .. W} : x \in DOMAIN levels}
    BY DEF DescendantRows
  <1>2. DOMAIN levels = R
    OBVIOUS
  <1>3. PICK x \in R : \E d \in 1 .. W : \E i \in names(x, d) : r = row(x, d, trace[i].name)
    <2> HIDE DEF row, names, levels, W
    <2> QED BY <1>1, <1>2
  <1>4. PICK d \in 1 .. W : \E i \in names(x, d) : r = row(x, d, trace[i].name)
    BY <1>3
  <1>5. PICK i \in names(x, d) : r = row(x, d, trace[i].name)
    BY <1>4
  <1> DEFINE n == trace[i].name
  <1>6. r.root = x /\ r.depth = d /\ r.name = n /\ r.self = self(x, d, n)
    <2> HIDE DEF count, total, self, max, first, example, n, names
    <2> QED BY <1>5 DEF n
  <1>7. levels[x][d] = {j \in DOMAIN trace : DepthBelow(x, j) = d}
    <2>1. levels[x] = Below(trace, x, W, DOMAIN trace)
      BY <1>3
    <2>2. Below(trace, x, W, DOMAIN trace)[d] = {j \in DOMAIN trace : DepthBelow(x, j) = d}
      BY <1>3, <1>4, LevelsAreDepths
    <2> QED BY <2>1, <2>2
  <1> HIDE DEF levels, n, row, names
  <1>8. members(x, d, n) = SoFar(x, d, n, q.min)
    BY <1>7 DEF SoFar
  <1> QED BY <1>6, <1>8

\* Those that ran long enough have ended: their time is what they ran alone.
LEMMA RowsAreExact ==
  ASSUME TraceInv, NEW root, NEW depth, NEW name, NEW min \in Nat
  PROVE  SumFunction([i \in SoFar(root, depth, name, min) |-> SelfTime(trace, i)])
           = SumFunction([i \in SoFar(root, depth, name, min) |-> Cardinality(SelfOnly(i))])
PROOF
  <1> DEFINE S == SoFar(root, depth, name, min)
  <1>1. ASSUME NEW i \in S PROVE SelfTime(trace, i) = Cardinality(SelfOnly(i))
    <2>1. i \in DOMAIN trace /\ trace[i].dur >= min
      BY DEF SoFar
    <2>2. trace[i].dur >= 0
      BY <2>1, SliceFacts
    <2> QED BY <2>1, <2>2, SelfTimeIs
  <1> HIDE DEF S
  <1>2. [i \in S |-> SelfTime(trace, i)] = [i \in S |-> Cardinality(SelfOnly(i))]
    BY <1>1
  <1> QED BY <1>2 DEF S

\* As many pairs as there are of the second for the first.
LEMMA PairedWith ==
  ASSUME NEW P, IsFiniteSet(P), NEW x
  PROVE  IsFiniteSet({<<x, i>> : i \in P}) /\ Cardinality({<<x, i>> : i \in P}) = Cardinality(P)
PROOF
  <1> DEFINE f == [i \in P |-> <<x, i>>]
             I == {<<x, i>> : i \in P}
             g == [p \in I |-> p[2]]
  <1>1. I = {f[i] : i \in P}
    OBVIOUS
  <1>2. P = {g[p] : p \in I}
    <2>1. \A i \in P : <<x, i>> \in I /\ g[<<x, i>>] = i
      OBVIOUS
    <2>2. \A p \in I : g[p] \in P
      OBVIOUS
    <2> HIDE DEF g, I
    <2> QED BY <2>1, <2>2
  <1> HIDE DEF f, g, I
  <1>3. IsFiniteSet(I) /\ Cardinality(I) <= Cardinality(P)
    BY <1>1, Images
  <1>4. Cardinality(P) <= Cardinality(I)
    BY <1>2, <1>3, Images
  <1>5. Cardinality(I) \in Nat /\ Cardinality(P) \in Nat
    BY <1>3, FS_CardinalityType
  <1>6. Cardinality(I) = Cardinality(P)
    BY <1>3, <1>4, <1>5
  <1> QED BY <1>3, <1>6 DEF I

\* What is counted as unended: below each of the roots, as far as the walk goes.
LEMMA UnendedAre ==
  ASSUME TraceInv, NEW q, IsFiniteSet(q.ids), WalkTo(q) \in Nat
  PROVE  IncompleteBelow(trace, q)
           = Cardinality({p \in q.ids \X DOMAIN trace :
                            DepthBelow(p[1], p[2]) \in 1 .. WalkTo(q) /\ trace[p[2]].dur = Incomplete})
PROOF
  <1> DEFINE W        == WalkTo(q)
             R        == q.ids \cap DOMAIN trace
             Open(x, i) == DepthBelow(x, i) \in 1 .. W /\ trace[i].dur = Incomplete
             of(x)    == {i \in DOMAIN trace : Open(x, i)}
             count    == [x \in R |-> Cardinality(of(x))]
             pairs(s) == {p \in s \X DOMAIN trace : Open(p[1], p[2])}
             Q        == {s \in SUBSET R : IsFiniteSet(pairs(s)) /\ Cardinality(pairs(s)) = SumOver(count, s)}
  <1>1. ASSUME NEW x \in R
        PROVE  {i \in UNION Range(Below(trace, x, W, DOMAIN trace)) : trace[i].dur < 0} = of(x)
    <2> DEFINE B == Below(trace, x, W, DOMAIN trace)
    <2>1. DOMAIN B = 1 .. W
      BY DEF Below
    <2>2. \A d \in 1 .. W : B[d] = {i \in DOMAIN trace : DepthBelow(x, i) = d}
      BY LevelsAreDepths
    <2> HIDE DEF B
    <2>3. UNION Range(B) = {i \in DOMAIN trace : DepthBelow(x, i) \in 1 .. W}
      <3> HIDE DEF W
      <3> QED BY <2>1, <2>2 DEF Range
    <2>4. \A i \in DOMAIN trace : trace[i].dur < 0 <=> trace[i].dur = Incomplete
      BY SliceFacts DEF Incomplete
    <2> HIDE DEF W
    <2> QED BY <2>3, <2>4 DEF B
  <1>2. IncompleteBelow(trace, q) = SumOver(count, R)
    <2> DEFINE body(x) == Cardinality({i \in UNION Range(Below(trace, x, W, DOMAIN trace)) : trace[i].dur < 0})
    <2>1. IncompleteBelow(trace, q) = SumFunction([x \in R |-> body(x)])
      BY DEF IncompleteBelow
    <2>2. \A x \in R : body(x) = count[x]
      BY <1>1
    <2> HIDE DEF body, count
    <2>3. [x \in R |-> body(x)] = [x \in R |-> count[x]]
      BY <2>2
    <2> QED BY <2>1, <2>3 DEF SumOver
  <1>3. \A x \in R : of(x) \subseteq DOMAIN trace /\ IsFiniteSet(of(x)) /\ count[x] = Cardinality(of(x)) /\ count[x] \in Int
    <2>1. \A x \in R : of(x) \subseteq DOMAIN trace /\ count[x] = Cardinality(of(x))
      OBVIOUS
    <2> HIDE DEF of, count
    <2>2. \A x \in R : IsFiniteSet(of(x))
      BY <2>1, PlacesFinite, FS_Subset
    <2>3. \A x \in R : Cardinality(of(x)) \in Nat
      BY <2>2, FS_CardinalityType
    <2> QED BY <2>1, <2>2, <2>3
  <1>4. IsFiniteSet(R) /\ \A s \in SUBSET R : IsFiniteSet(s)
    BY FS_Subset
  <1> HIDE DEF count, W
  <1>5. {} \in Q
    <2>1. pairs({}) = {} /\ {} \in SUBSET R
      OBVIOUS
    <2>2. SumOver(count, {}) = 0
      BY <1>3, <1>4, SumOverRules
    <2> HIDE DEF pairs
    <2> QED BY <2>1, <2>2, FS_EmptySet
  <1>6. ASSUME NEW s \in SUBSET R, NEW x \in R \ s, s \in Q PROVE s \cup {x} \in Q
    <2> DEFINE t == s \cup {x}
               I == {<<x, i>> : i \in of(x)}
    <2>1. t \in SUBSET R /\ x \in t /\ t \ {x} = s /\ x \in R
      BY <1>6
    <2>2. pairs(t) = pairs(s) \cup I
      <3> HIDE DEF Open
      <3>1. ASSUME NEW p \in pairs(t) PROVE p \in pairs(s) \cup I
        <4>1. p[1] \in t /\ p[2] \in DOMAIN trace /\ p = <<p[1], p[2]>> /\ Open(p[1], p[2])
          OBVIOUS
        <4>2. CASE p[1] = x
          <5>1. p[2] \in of(x)
            BY <4>1, <4>2
          <5> HIDE DEF of
          <5> QED BY <4>1, <4>2, <5>1
        <4>3. CASE p[1] # x
          BY <4>1, <4>3
        <4> QED BY <4>2, <4>3
      <3>2. ASSUME NEW p \in pairs(s) PROVE p \in pairs(t)
        OBVIOUS
      <3>3. ASSUME NEW p \in I PROVE p \in pairs(t)
        <4>1. PICK i \in of(x) : p = <<x, i>>
          OBVIOUS
        <4> QED BY <4>1
      <3> HIDE DEF pairs, I
      <3> QED BY <3>1, <3>2, <3>3
    <2>3. pairs(s) \cap I = {}
      <3>1. \A p \in I : p[1] = x
        OBVIOUS
      <3>2. \A p \in pairs(s) : p[1] \in s
        OBVIOUS
      <3> HIDE DEF pairs, I
      <3> QED BY <3>1, <3>2, <1>6
    <2>4. IsFiniteSet(I) /\ Cardinality(I) = count[x] /\ count[x] \in Int
      <3>1. IsFiniteSet(of(x)) /\ count[x] = Cardinality(of(x)) /\ count[x] \in Int
        BY <1>3, <2>1
      <3> HIDE DEF of
      <3> QED BY <3>1, PairedWith
    <2>5. SumOver(count, t) = count[x] + SumOver(count, s)
      <3>1. IsFiniteSet(t) /\ \A y \in t : count[y] \in Int
        BY <1>3, <1>4, <2>1
      <3> HIDE DEF t
      <3> QED BY <3>1, <2>1, SumOverRules
    <2> HIDE DEF t, pairs, I
    <2>6. IsFiniteSet(pairs(s)) /\ Cardinality(pairs(s)) = SumOver(count, s) /\ Cardinality(pairs(s)) \in Nat
      BY <1>6, FS_CardinalityType
    <2>7. /\ IsFiniteSet(pairs(s) \cup I)
          /\ Cardinality(pairs(s) \cup I) = Cardinality(pairs(s)) + Cardinality(I) - Cardinality(pairs(s) \cap I)
      BY <2>4, <2>6, FS_Union
    <2>8. Cardinality(pairs(s) \cap I) = 0
      BY <2>3, FS_EmptySet
    <2>9. IsFiniteSet(pairs(t)) /\ Cardinality(pairs(t)) = SumOver(count, t)
      BY <2>2, <2>4, <2>5, <2>6, <2>7, <2>8
    <2> QED BY <2>1, <2>9 DEF t
  <1>7. R \in Q
    <2> HIDE DEF Q, R
    <2> QED BY <1>4, <1>5, <1>6, SetInduction
  <1>8. pairs(R) = {p \in q.ids \X DOMAIN trace : Open(p[1], p[2])}
    <2>1. ASSUME NEW x, NEW i \in DOMAIN trace, Open(x, i) PROVE x \in DOMAIN trace
      <3> DEFINE d == DepthBelow(x, i)
      <3>1. d \in 1 .. W
        BY <2>1
      <3> HIDE DEF d
      <3>2. d \in Nat \ {0}
        BY <3>1 DEF W
      <3>3. d \in 1 .. Len(Enclosing[i]) /\ Enclosing[i][d] = x
        BY <3>2, DepthIs DEF d
      <3> DEFINE up == Enclosing[i]
                 P  == 1 .. i - 1
      <3>4. up \in Seq(P)
        BY ChainIs DEF Chain
      <3> HIDE DEF up, P
      <3>5. up[d] \in P
        BY <3>3, <3>4 DEF up
      <3>6. i \in 1 .. Len(trace) /\ Len(trace) \in Nat
        BY PlacesFinite
      <3> QED BY <3>3, <3>5, <3>6, PlacesFinite DEF P, up
    <2> HIDE DEF Open
    <2>2. ASSUME NEW p \in q.ids \X DOMAIN trace, Open(p[1], p[2]) PROVE p \in pairs(R)
      <3>1. p[1] \in q.ids /\ p[2] \in DOMAIN trace /\ p = <<p[1], p[2]>>
        OBVIOUS
      <3>2. p[1] \in DOMAIN trace
        BY <2>1, <2>2, <3>1
      <3> QED BY <2>2, <3>1, <3>2
    <2>3. ASSUME NEW p \in pairs(R) PROVE p \in q.ids \X DOMAIN trace /\ Open(p[1], p[2])
      OBVIOUS
    <2> HIDE DEF R
    <2> QED BY <2>2, <2>3
  <1>9. Cardinality(pairs(R)) = SumOver(count, R)
    BY <1>7
  <1> HIDE DEF pairs
  <1> QED BY <1>2, <1>8, <1>9 DEF W

\* The breakdown tells the time below its roots, and what had not ended.
LEMMA DescendantsAreThose == TraceInv /\ AskedInv => DescendantsExact
PROOF
  <1> SUFFICES ASSUME TraceInv, AskedInv, asked.tool = "slice_descendants_breakdown", answer.ok
               PROVE  /\ \A r \in answer.rows :
                           LET members == {i \in DOMAIN trace : /\ DepthBelow(r.root, i) = r.depth /\ trace[i].name = r.name
                                                                /\ trace[i].dur >= asked.q.min}
                           IN  r.self = SumFunction([i \in members |-> Cardinality(SelfOnly(i))])
                      /\ answer.unended =
                           Cardinality({p \in asked.q.ids \X DOMAIN trace :
                                          DepthBelow(p[1], p[2]) \in 1 .. WalkTo(asked.q) /\ trace[p[2]].dur = Incomplete})
    BY DEF DescendantsExact
  <1> DEFINE q == asked.q
             tool == asked.tool
  <1>1. tool = purpose /\ tool \in Tools \ {"resource_pipeline"} /\ tool # None
    BY NullIsNoTool DEF AskedInv, Tools
  <1>2. q \in Plain
    BY <1>1, QuestionsPlain DEF AskedInv
  <1>3. Answered(tool, q, trace, navs, answer)
    BY <1>1 DEF AskedInv
  <1>4. /\ Permitted(tool, q) /\ answer.rows \in Tops(Ranked(tool, q, trace, navs), RowsUpTo(q.limit, Default(tool)))
        /\ answer.unended = IncompleteBelow(trace, q)
    BY <1>3 DEF Answered, NoAnswer
  <1>5. DescendantsAllowed(q)
    BY <1>4 DEF Permitted
  <1>6. WalkTo(q) \in Nat
    BY <1>5, DepthAssumption DEF DescendantsAllowed
  <1>7. Ranked(tool, q, trace, navs) = DescendantRank(DescendantRows(trace, q))
    BY DEF Ranked
  <1>8. q.min \in Nat /\ IsFiniteSet(q.ids)
    <2>1. q \in QuestionSet /\ IsFiniteSet(q.ids)
      BY <1>2 DEF Plain
    <2>2. q.min \in {0, 2}
      BY <2>1 DEF QuestionSet
    <2> QED BY <2>1, <2>2
  <1>9. ASSUME NEW r \in answer.rows
        PROVE  r.self = SumFunction([i \in SoFar(r.root, r.depth, r.name, q.min) |-> Cardinality(SelfOnly(i))])
    <2>1. r \in DOMAIN Ranked(tool, q, trace, navs)
      BY <1>4, OnlyTheirRows
    <2>2. r \in DescendantRows(trace, q)
      BY <1>7, <2>1 DEF DescendantRank
    <2>3. r.self = SumFunction([i \in SoFar(r.root, r.depth, r.name, q.min) |-> SelfTime(trace, i)])
      BY <1>6, <2>2, DescendantRowIs
    <2> QED BY <1>8, <2>3, RowsAreExact
  <1>10. answer.unended =
           Cardinality({p \in q.ids \X DOMAIN trace :
                          DepthBelow(p[1], p[2]) \in 1 .. WalkTo(q) /\ trace[p[2]].dur = Incomplete})
    BY <1>4, <1>6, <1>8, UnendedAre
  <1> QED BY <1>9, <1>10 DEF SoFar
-------------------------------------------------------------------------------
\* Sums over parts of a set.
LEMMA SumIsInt ==
  ASSUME NEW S, IsFiniteSet(S), NEW f, \A x \in S : f[x] \in Int, NEW T \in SUBSET S
  PROVE  /\ SumOver(f, T) \in Int
         /\ \A x \in S \ T : SumOver(f, T \cup {x}) = f[x] + SumOver(f, T)
PROOF
  <1>1. IsFiniteSet(T) /\ \A x \in T : f[x] \in Int
    BY FS_Subset
  <1>2. ASSUME NEW x \in S \ T PROVE SumOver(f, T \cup {x}) = f[x] + SumOver(f, T)
    <2> DEFINE U == T \cup {x}
    <2>1. U \in SUBSET S /\ x \in U /\ U \ {x} = T
      OBVIOUS
    <2> HIDE DEF U
    <2>2. IsFiniteSet(U) /\ \A y \in U : f[y] \in Int
      BY <2>1, FS_Subset
    <2> QED BY <2>1, <2>2, SumOverRules DEF U
  <1> QED BY <1>1, <1>2, SumOverRules

LEMMA SumParts ==
  ASSUME NEW S, IsFiniteSet(S), NEW f, \A x \in S : f[x] \in Int,
         NEW A \in SUBSET S, NEW B \in SUBSET S, A \cap B = {}
  PROVE  SumOver(f, A \cup B) = SumOver(f, A) + SumOver(f, B)
PROOF
  <1> DEFINE Q == {s \in SUBSET B : SumOver(f, A \cup s) = SumOver(f, A) + SumOver(f, s)}
  <1>1. {} \in Q
    <2>1. SumOver(f, {}) = 0 /\ SumOver(f, A) \in Int
      BY SumOverRules, SumIsInt
    <2>2. A \cup {} = A /\ {} \in SUBSET B
      OBVIOUS
    <2> QED BY <2>1, <2>2
  <1>2. ASSUME NEW s \in SUBSET B, NEW x \in B \ s, s \in Q PROVE s \cup {x} \in Q
    <2> DEFINE t == A \cup s
    <2>1. t \in SUBSET S /\ s \in SUBSET S /\ x \in S \ t /\ x \in S \ s
      OBVIOUS
    <2>2. A \cup (s \cup {x}) = t \cup {x} /\ s \cup {x} \in SUBSET B
      OBVIOUS
    <2>3. SumOver(f, t) = SumOver(f, A) + SumOver(f, s)
      BY <1>2
    <2> HIDE DEF t
    <2>4. SumOver(f, t \cup {x}) = f[x] + SumOver(f, t)
      BY <2>1, SumIsInt
    <2>5. SumOver(f, s \cup {x}) = f[x] + SumOver(f, s)
      BY <2>1, SumIsInt
    <2>6. SumOver(f, A) \in Int /\ SumOver(f, s) \in Int /\ f[x] \in Int
      BY <2>1, SumIsInt
    <2>7. SumOver(f, t \cup {x}) = SumOver(f, A) + SumOver(f, s \cup {x})
      BY <2>3, <2>4, <2>5, <2>6
    <2>8. SumOver(f, A \cup (s \cup {x})) = SumOver(f, A) + SumOver(f, s \cup {x})
      BY ONLY <2>2, <2>7, Zenon
    <2> QED BY <2>2, <2>8
  <1>3. IsFiniteSet(B)
    BY FS_Subset
  <1>4. B \in Q
    <2> HIDE DEF Q
    <2> QED BY <1>1, <1>2, <1>3, SetInduction
  <1> QED BY <1>4

\* What is nothing adds nothing, and more of what is not negative is not less.
LEMMA SumNothing ==
  ASSUME NEW S, IsFiniteSet(S), NEW f, \A x \in S : f[x] \in Int, NEW T \in SUBSET S, \A x \in T : f[x] = 0
  PROVE  SumOver(f, T) = 0
PROOF
  <1> DEFINE Q == {s \in SUBSET T : SumOver(f, s) = 0}
  <1>1. {} \in Q
    BY SumOverRules
  <1>2. ASSUME NEW s \in SUBSET T, NEW x \in T \ s, s \in Q PROVE s \cup {x} \in Q
    <2>1. s \in SUBSET S /\ x \in S \ s /\ f[x] = 0 /\ s \cup {x} \in SUBSET T
      OBVIOUS
    <2>2. SumOver(f, s \cup {x}) = f[x] + SumOver(f, s)
      BY <2>1, SumIsInt
    <2> QED BY <1>2, <2>1, <2>2
  <1>3. IsFiniteSet(T)
    BY FS_Subset
  <1>4. T \in Q
    <2> HIDE DEF Q
    <2> QED BY <1>1, <1>2, <1>3, SetInduction
  <1> QED BY <1>4

LEMMA SumSame ==
  ASSUME NEW S, IsFiniteSet(S), NEW f, \A x \in S : f[x] \in Int, NEW A \in SUBSET S, NEW B \in SUBSET S,
         \A x \in S : f[x] # 0 => (x \in A <=> x \in B)
  PROVE  SumOver(f, A) = SumOver(f, B)
PROOF
  <1> DEFINE C == A \cap B
             a == A \ C
             b == B \ C
  <1>1. /\ C \in SUBSET S /\ a \in SUBSET S /\ b \in SUBSET S /\ C \cap a = {} /\ C \cap b = {}
        /\ A = C \cup a /\ B = C \cup b /\ \A x \in a \cup b : f[x] = 0
    OBVIOUS
  <1> HIDE DEF C, a, b
  <1>2. SumOver(f, a) = 0 /\ SumOver(f, b) = 0 /\ SumOver(f, C) \in Int
    BY <1>1, SumNothing, SumIsInt
  <1>3. SumOver(f, C \cup a) = SumOver(f, C) + SumOver(f, a)
    BY <1>1, SumParts
  <1>4. SumOver(f, C \cup b) = SumOver(f, C) + SumOver(f, b)
    BY <1>1, SumParts
  <1> QED BY <1>1, <1>2, <1>3, <1>4

LEMMA SumGrows ==
  ASSUME NEW S, IsFiniteSet(S), NEW f, \A x \in S : f[x] \in Nat, NEW T \in SUBSET S
  PROVE  SumOver(f, T) <= SumOver(f, S)
PROOF
  <1> DEFINE Q == {s \in SUBSET (S \ T) : SumOver(f, s) \in Nat}
             r == S \ T
  <1>0. \A x \in S : f[x] \in Int
    OBVIOUS
  <1>1. {} \in Q
    BY <1>0, SumOverRules
  <1>2. ASSUME NEW s \in SUBSET r, NEW x \in r \ s, s \in Q PROVE s \cup {x} \in Q
    <2>1. s \in SUBSET S /\ x \in S \ s /\ f[x] \in Nat /\ s \cup {x} \in SUBSET r
      OBVIOUS
    <2>2. SumOver(f, s \cup {x}) = f[x] + SumOver(f, s)
      BY <1>0, <2>1, SumIsInt
    <2> QED BY <1>2, <2>1, <2>2
  <1>3. IsFiniteSet(r) /\ r \in SUBSET S /\ T \cap r = {} /\ T \cup r = S
    BY FS_Subset
  <1>4. r \in Q
    <2> HIDE DEF Q, r
    <2> QED BY <1>1, <1>2, <1>3, SetInduction
  <1>5. SumOver(f, r) \in Nat
    BY <1>4
  <1> HIDE DEF r
  <1>6. SumOver(f, T \cup r) = SumOver(f, T) + SumOver(f, r)
    BY <1>0, <1>3, SumParts
  <1>7. SumOver(f, T) \in Int
    BY <1>0, SumIsInt
  <1>8. SumOver(f, T) <= SumOver(f, T \cup r)
    BY <1>5, <1>6, <1>7
  <1>9. T \cup r = S
    BY <1>3
  <1> HIDE <1>3, <1>6
  <1> QED BY <1>8, <1>9

\* Parts that have nothing in common add up to the whole.
Whole(part, R)   == UNION {part[r] : r \in R}
Each(f, part, R) == [r \in R |-> SumOver(f, part[r])]

LEMMA SumOfSums ==
  ASSUME NEW S, IsFiniteSet(S), NEW f, \A x \in S : f[x] \in Int,
         NEW R, IsFiniteSet(R), NEW part, \A r \in R : part[r] \in SUBSET S,
         \A r, o \in R : r # o => part[r] \cap part[o] = {}
  PROVE  SumFunction(Each(f, part, R)) = SumOver(f, Whole(part, R))
PROOF
  <1> DEFINE g      == [r \in R |-> SumOver(f, part[r])]
             all(s) == UNION {part[r] : r \in s}
             Q      == {s \in SUBSET R : SumOver(g, s) = SumOver(f, all(s))}
  <1>1. \A r \in R : g[r] = SumOver(f, part[r]) /\ g[r] \in Int
    BY SumIsInt
  <1>2. g = [r \in R |-> g[r]]
    OBVIOUS
  <1> HIDE DEF g
  <1>3. {} \in Q
    <2>1. all({}) = {} /\ {} \in SUBSET R
      OBVIOUS
    <2>2. SumOver(g, {}) = 0 /\ SumOver(f, {}) = 0
      BY <1>1, SumOverRules
    <2> HIDE DEF all
    <2> QED BY <2>1, <2>2
  <1>4. ASSUME NEW s \in SUBSET R, NEW x \in R \ s, s \in Q PROVE s \cup {x} \in Q
    <2> DEFINE p == part[x]
    <2>1. all(s \cup {x}) = all(s) \cup p /\ all(s) \in SUBSET S /\ p \in SUBSET S /\ s \cup {x} \in SUBSET R
      OBVIOUS
    <2>2. all(s) \cap p = {}
      <3>1. \A r \in s : r \in R /\ r # x
        OBVIOUS
      <3>2. \A r \in s : part[r] \cap p = {}
        BY <3>1
      <3> HIDE DEF p
      <3> QED BY <3>2
    <2>3. SumOver(g, s) = SumOver(f, all(s))
      BY <1>4
    <2>4. g[x] = SumOver(f, p) /\ g[x] \in Int
      BY <1>1
    <2> HIDE DEF all, p
    <2>5. SumOver(f, all(s) \cup p) = SumOver(f, all(s)) + SumOver(f, p)
      BY <2>1, <2>2, SumParts
    <2>6. SumOver(g, s \cup {x}) = g[x] + SumOver(g, s)
      BY <1>1, SumIsInt
    <2>7. SumOver(f, all(s)) \in Int
      BY <2>1, SumIsInt
    <2>8. SumOver(g, s \cup {x}) = SumOver(f, all(s) \cup p)
      BY <2>3, <2>4, <2>5, <2>6, <2>7
    <2>9. all(s \cup {x}) = all(s) \cup p
      BY <2>1
    <2>10. SumOver(g, s \cup {x}) = SumOver(f, all(s \cup {x}))
      BY ONLY <2>8, <2>9, Zenon
    <2> QED BY <2>1, <2>10
  <1>5. R \in Q
    <2> HIDE DEF Q
    <2> QED BY <1>3, <1>4, SetInduction
  <1>6. SumFunction(g) = SumOver(g, R)
    BY <1>2 DEF SumOver
  <1> QED BY <1>5, <1>6 DEF g, Each, Whole
-------------------------------------------------------------------------------
\* What is around a slice started no later and, where it has ended, ended no earlier.
OverTime(i) ==
  \A n \in 1 .. Len(Enclosing[i]) :
    /\ trace[Enclosing[i][n]].ts <= trace[i].ts
    /\ trace[Enclosing[i][n]].dur # Incomplete =>
         trace[i].dur # Incomplete /\ End(trace[i]) <= End(trace[Enclosing[i][n]])

LEMMA AroundInTime == ASSUME TraceInv PROVE \A i \in DOMAIN trace : OverTime(i)
PROOF
  <1> DEFINE T == {n \in Nat : \A i \in DOMAIN trace : i <= n => OverTime(i)}
  <1>1. 0 \in T
    BY PlacesFinite
  <1>2. ASSUME NEW n \in Nat, n \in T PROVE n + 1 \in T
    <2>1. ASSUME NEW i \in DOMAIN trace, i <= n + 1 PROVE OverTime(i)
      <3>0. i \in Nat /\ Len(Enclosing[i]) \in Nat
        BY SliceFacts, DepthIs
      <3>1. CASE trace[i].parent = None
        <4>1. Len(Enclosing[i]) = 0
          BY <3>1, OneUp
        <4> QED BY <4>1 DEF OverTime
      <3>2. CASE trace[i].parent # None
        <4> DEFINE p  == trace[i].parent
                   up == Enclosing[p]
                   over == Enclosing[i]
        <4>1. p \in DOMAIN trace /\ p \in 1 .. i - 1
          BY <3>2, OneUp, SliceFacts
        <4>2. /\ Len(over) = Len(up) + 1 /\ over[1] = p
              /\ \A m \in 1 .. Len(up) : over[m + 1] = up[m]
          BY <3>2, OneUp
        <4>3. Len(up) \in Nat /\ \A m \in 1 .. Len(up) : up[m] \in DOMAIN trace
          BY <4>1, DepthIs, AroundAreSlices
        <4>4. OverTime(p)
          <5>1. p <= n
            BY <2>1, <3>0, <4>1
          <5> QED BY <1>2, <4>1, <5>1
        <4>5. /\ trace[p].ts <= trace[i].ts
              /\ trace[p].dur # Incomplete => trace[i].dur # Incomplete /\ End(trace[i]) <= End(trace[p])
          <5>1. /\ trace[i].ts \in Instants(trace[p])
                /\ trace[p].dur = Incomplete \/ (trace[i].dur # Incomplete /\ End(trace[i]) <= End(trace[p]))
            BY <3>2 DEF TraceInv, WithinParent
          <5>2. trace[p].ts \in Int /\ End(trace[p]) \in Int /\ TraceEnd \in Int
            BY <4>1, SliceFacts
          <5>3. trace[p].ts <= trace[i].ts
            BY <5>1, <5>2 DEF Instants
          <5> QED BY <5>1, <5>3
        <4> HIDE DEF p, up, over
        <4>6. ASSUME NEW m \in 1 .. Len(over)
              PROVE  /\ trace[over[m]].ts <= trace[i].ts
                     /\ trace[over[m]].dur # Incomplete =>
                          trace[i].dur # Incomplete /\ End(trace[i]) <= End(trace[over[m]])
          <5>1. CASE m = 1
            BY <4>2, <4>5, <5>1
          <5>2. CASE m # 1
            <6> DEFINE k == m - 1
            <6>1. k \in 1 .. Len(up) /\ k + 1 = m
              BY <4>2, <4>3, <5>2
            <6> HIDE DEF k
            <6>2. over[m] = up[k] /\ up[k] \in DOMAIN trace
              BY <4>2, <4>3, <6>1
            <6>3. /\ trace[up[k]].ts <= trace[p].ts
                  /\ trace[up[k]].dur # Incomplete => trace[p].dur # Incomplete /\ End(trace[p]) <= End(trace[up[k]])
              BY <4>4, <6>1 DEF OverTime, up
            <6>4. /\ trace[up[k]].ts \in Int /\ trace[p].ts \in Int /\ trace[i].ts \in Int
                  /\ End(trace[up[k]]) \in Int /\ End(trace[p]) \in Int /\ End(trace[i]) \in Int
              BY <4>1, <6>2, SliceFacts
            <6> QED BY <4>5, <6>2, <6>3, <6>4
          <5> QED BY <5>1, <5>2
        <4> QED BY <4>6 DEF over, OverTime
      <3> QED BY <3>1, <3>2
    <2>2. n + 1 \in Nat
      OBVIOUS
    <2> HIDE DEF OverTime
    <2> QED BY <2>1, <2>2
  <1>3. Nat \subseteq T
    <2> HIDE DEF T
    <2> QED BY <1>1, <1>2, Inductive
  <1>4. \A i \in DOMAIN trace : i \in Nat
    BY SliceFacts
  <1> QED BY <1>3, <1>4
-------------------------------------------------------------------------------
\* The walk down from a script: through what has ended, and no other script.
Walk(roots) == {i \in DOMAIN trace : StopsAtScripts(trace, roots, i)}

LEMMA CausedIs ==
  ASSUME TraceInv, NEW roots \in SUBSET DOMAIN trace, NEW root \in roots, NEW i
  PROVE  i \in CausedBy(trace, root, roots)
           <=> i \in Walk(roots) /\ \E d \in 1 .. WalkDepth : ReachedAt(i, root, d, Walk(roots))
PROOF
  <1> DEFINE F == Walk(roots)
             B == Below(trace, root, WalkDepth, F)
  <1>1. F \in SUBSET DOMAIN trace /\ WalkDepth \in Nat /\ root \in DOMAIN trace
    BY DepthAssumption DEF Walk
  <1>2. CausedBy(trace, root, roots) = UNION Range(B)
    BY DEF CausedBy, Walk
  <1>3. DOMAIN B = 1 .. WalkDepth
    BY DEF Below
  <1> HIDE DEF F
  <1>4. \A d \in 1 .. WalkDepth : B[d] = {j \in F : ReachedAt(j, root, d, F)}
    BY <1>1, LevelsAre
  <1> HIDE DEF B
  <1>5. i \in UNION Range(B) <=> \E d \in 1 .. WalkDepth : i \in B[d]
    BY <1>3 DEF Range
  <1> QED BY <1>2, <1>4, <1>5 DEF F

\* A slice is put down to one script.
LEMMA CausedOnce ==
  ASSUME TraceInv, NEW roots \in SUBSET DOMAIN trace, NEW a \in roots, NEW b \in roots, NEW i,
         i \in CausedBy(trace, a, roots), i \in CausedBy(trace, b, roots)
  PROVE  a = b
PROOF
  <1> DEFINE F == Walk(roots)
  <1>1. PICK d \in 1 .. WalkDepth : ReachedAt(i, a, d, F)
    BY CausedIs
  <1>2. PICK e \in 1 .. WalkDepth : ReachedAt(i, b, e, F)
    BY CausedIs
  <1>3. \A r \in roots : r \notin F
    BY DEF Walk, StopsAtScripts
  <1>4. d \in Nat /\ e \in Nat /\ d >= 1 /\ e >= 1
    BY DepthAssumption
  <1> HIDE DEF F
  <1>5. ~(d < e)
    <2>1. d < e => d \in 1 .. e - 1
      BY <1>4
    <2> QED BY <1>1, <1>2, <1>3, <2>1 DEF ReachedAt
  <1>6. ~(e < d)
    <2>1. e < d => e \in 1 .. d - 1
      BY <1>4
    <2> QED BY <1>1, <1>2, <1>3, <2>1 DEF ReachedAt
  <1>7. d = e
    BY <1>4, <1>5, <1>6
  <1> QED BY <1>1, <1>2, <1>7 DEF ReachedAt

\* Where the time of a slice is: within that of the script, as far as that is in the window.
LEMMA CausedInTime ==
  ASSUME TraceInv, NEW roots \in SUBSET DOMAIN trace, NEW root \in roots, NEW i \in CausedBy(trace, root, roots),
         trace[root].dur > 0
  PROVE  i \in DOMAIN trace /\ trace[i].dur > 0 /\ trace[root].ts <= trace[i].ts /\ End(trace[i]) <= End(trace[root])
PROOF
  <1>1. i \in Walk(roots)
    BY CausedIs
  <1>2. PICK d \in 1 .. WalkDepth : ReachedAt(i, root, d, Walk(roots))
    BY CausedIs
  <1>3. i \in DOMAIN trace /\ trace[i].dur > 0
    BY <1>1 DEF Walk, StopsAtScripts
  <1>4. d \in 1 .. Len(Enclosing[i]) /\ Enclosing[i][d] = root
    BY <1>2 DEF ReachedAt
  <1>5. OverTime(i)
    BY <1>3, AroundInTime
  <1>6. trace[root].dur # Incomplete
    BY DEF Incomplete
  <1> QED BY <1>3, <1>4, <1>5, <1>6 DEF OverTime

LEMMA TimeWithinIs ==
  ASSUME TraceInv, NEW q \in Plain, NEW i \in DOMAIN trace, NEW r \in DOMAIN trace,
         trace[i].dur > 0, trace[r].dur > 0, trace[r].ts <= trace[i].ts, End(trace[i]) <= End(trace[r])
  PROVE  /\ ~Window(q, navs).empty => TimeWithin(trace[i], trace[r], Window(q, navs)) = Shared(i, q)
         /\ Shared(i, q) > 0 => TaskTouches(trace[r], Window(q, navs))
PROOF
  <1> DEFINE w  == Window(q, navs)
             lo == OverlapStart(trace[i], w)
             hi == ResourceEnd(trace[i], w)
             sh == Shared(i, q)
             a  == trace[i].ts
             b  == End(trace[i])
             c  == trace[r].ts
             d  == End(trace[r])
             x  == w.start
             y  == w.end
  <1>1. sh \in Nat /\ (sh > 0 <=> ~w.empty /\ lo < hi) /\ (sh > 0 => sh = hi - lo)
    BY SharedIs
  <1>2. x \in Int \cup {None} /\ y \in Int \cup {None}
    BY WindowIsTyped DEF WindowTyped
  <1>3. a \in Int /\ b \in Int /\ c \in Int /\ d \in Int
    BY SliceFacts
  <1>4. None \notin Int
    BY NullIsNoTool
  <1>5. lo = Later(a, x) /\ hi = Earlier(b, y)
    <2>1. trace[i].dur >= 0
      BY SliceFacts
    <2>2. lo = Later(a, x)
      BY DEF OverlapStart
    <2>3. hi = Earlier(b, y)
      BY <2>1 DEF ResourceEnd
    <2> QED BY <2>2, <2>3
  <1>6. TimeWithin(trace[i], trace[r], w)
          = IF Larger(a, Later(c, x)) < Smaller(b, Earlier(d, y))
            THEN Smaller(b, Earlier(d, y)) - Larger(a, Later(c, x)) ELSE 0
    BY DEF TimeWithin, OverlapStart, TaskEnd
  <1>7. TaskTouches(trace[r], w) <=> ~w.empty /\ (y = None \/ c < y) /\ (x = None \/ d > x)
    BY DEF TaskTouches, StartsBefore
  <1>8. c <= a /\ b <= d
    OBVIOUS
  <1> HIDE DEF a, b, c, d, x, y, lo, hi, sh
  <1>9. Larger(a, Later(c, x)) = lo
    BY <1>2, <1>3, <1>4, <1>5, <1>8 DEF Larger, Later
  <1>10. Smaller(b, Earlier(d, y)) = hi
    BY <1>2, <1>3, <1>4, <1>5, <1>8 DEF Smaller, Earlier
  <1>11. lo \in Int /\ hi \in Int
    BY <1>2, <1>3, <1>4, <1>5 DEF Larger, Later, Smaller, Earlier
  <1>12. ~w.empty => TimeWithin(trace[i], trace[r], w) = sh
    <2> HIDE DEF w
    <2> QED BY <1>1, <1>6, <1>9, <1>10, <1>11
  <1>13. sh > 0 => (y = None \/ c < y) /\ (x = None \/ d > x)
    <2>1. ASSUME lo < hi PROVE (y = None \/ c < y) /\ (x = None \/ d > x)
      BY <1>2, <1>3, <1>4, <1>5, <1>8, <2>1 DEF Larger, Later, Smaller, Earlier
    <2> QED BY <1>1, <2>1
  <1> QED BY <1>1, <1>7, <1>12, <1>13 DEF sh
-------------------------------------------------------------------------------
\* The time every slice was running in the window, and the slices put down to scripts.
Times(q) == [i \in DOMAIN trace |-> Shared(i, q)]
Owed(group, roots, names) ==
  {i \in DOMAIN trace : trace[i].name \in names /\ \E r \in group : i \in CausedBy(trace, r, roots)}

LEMMA TimesAre ==
  ASSUME TraceInv, NEW q \in Plain
  PROVE  \A i \in DOMAIN trace : Times(q)[i] = Shared(i, q) /\ Times(q)[i] \in Nat
PROOF
  <1>1. \A i \in DOMAIN trace : Shared(i, q) \in Nat
    BY SharedIs
  <1> QED BY <1>1 DEF Times

LEMMA RollupIs ==
  ASSUME TraceInv, NEW q \in Plain, NEW roots \in SUBSET DOMAIN trace, NEW group \in SUBSET roots, NEW names,
         \A r \in roots : trace[r].dur > 0 /\ TaskTouches(trace[r], Window(q, navs))
  PROVE  Rollup(trace, Window(q, navs), group, roots, names) = SumOver(Times(q), Owed(group, roots, names))
PROOF
  <1> DEFINE w == Window(q, navs)
             D == DOMAIN trace
             f == Times(q)
             of(r)   == {c \in CausedBy(trace, r, roots) : trace[c].name \in names}
             part    == [r \in group |-> of(r)]
             sum(r)  == SumFunction([d \in of(r) |-> TimeWithin(trace[d], trace[r], w)])
  <1>1. Rollup(trace, w, group, roots, names) = SumFunction([r \in group |-> sum(r)])
    BY DEF Rollup
  <1>2. ASSUME NEW r \in group
        PROVE  of(r) \in SUBSET D /\ sum(r) = SumOver(f, of(r))
    <2>1. r \in roots /\ r \in DOMAIN trace /\ trace[r].dur > 0 /\ ~w.empty
      BY DEF TaskTouches
    <2>2. ASSUME NEW d \in of(r) PROVE d \in D /\ TimeWithin(trace[d], trace[r], w) = f[d]
      <3>1. /\ d \in DOMAIN trace /\ trace[d].dur > 0
            /\ trace[r].ts <= trace[d].ts /\ End(trace[d]) <= End(trace[r])
        BY <2>1, CausedInTime
      <3>2. TimeWithin(trace[d], trace[r], w) = Shared(d, q)
        BY <2>1, <3>1, TimeWithinIs
      <3> QED BY <3>1, <3>2, TimesAre
    <2> HIDE DEF of, f, w
    <2>3. [d \in of(r) |-> TimeWithin(trace[d], trace[r], w)] = [d \in of(r) |-> f[d]]
      BY <2>2
    <2> QED BY <2>2, <2>3 DEF SumOver
  <1>3. [r \in group |-> sum(r)] = [r \in group |-> SumOver(f, part[r])]
    <2>1. \A r \in group : part[r] = of(r)
      OBVIOUS
    <2> HIDE DEF sum, part, of, f
    <2> QED BY <1>2, <2>1
  <1>4. \A r \in group : part[r] \in SUBSET D
    <2>1. \A r \in group : part[r] = of(r)
      OBVIOUS
    <2> HIDE DEF of, part, D
    <2> QED BY <1>2, <2>1
  <1>5. \A r, o \in group : r # o => part[r] \cap part[o] = {}
    <2> SUFFICES ASSUME NEW r \in group, NEW o \in group, NEW c, c \in part[r], c \in part[o] PROVE r = o
      OBVIOUS
    <2>1. c \in CausedBy(trace, r, roots) /\ c \in CausedBy(trace, o, roots) /\ r \in roots /\ o \in roots
      OBVIOUS
    <2> QED BY <2>1, CausedOnce
  <1>6. UNION {part[r] : r \in group} = Owed(group, roots, names)
    <2>1. \A r \in group : part[r] = of(r)
      OBVIOUS
    <2>2. \A r \in group : \A c \in part[r] : c \in DOMAIN trace
      BY <1>4
    <2>3. \A r \in group : \A c : c \in part[r] <=> c \in CausedBy(trace, r, roots) /\ trace[c].name \in names
      BY <2>1
    <2> HIDE DEF part
    <2> QED BY <2>2, <2>3 DEF Owed
  <1>7. IsFiniteSet(D) /\ IsFiniteSet(group)
    <2>1. group \in SUBSET DOMAIN trace
      OBVIOUS
    <2> QED BY <2>1, PlacesFinite, FS_Subset
  <1>8. \A x \in D : f[x] \in Int
    BY TimesAre
  <1> HIDE DEF part, sum, f, D, of
  <1>9. SumFunction(Each(f, part, group)) = SumOver(f, Whole(part, group))
    BY <1>4, <1>5, <1>7, <1>8, SumOfSums
  <1> QED BY <1>1, <1>3, <1>6, <1>9 DEF f, Each, Whole

\* Three kinds of work that no name is two of add up.
LEMMA RollupsAdd ==
  ASSUME TraceInv, NEW q \in Plain, NEW roots \in SUBSET DOMAIN trace, NEW group \in SUBSET roots,
         NEW a, NEW b, NEW c, a \cap b = {}, a \cap c = {}, b \cap c = {},
         \A r \in roots : trace[r].dur > 0 /\ TaskTouches(trace[r], Window(q, navs))
  PROVE  Rollup(trace, Window(q, navs), group, roots, a) + Rollup(trace, Window(q, navs), group, roots, b)
           + Rollup(trace, Window(q, navs), group, roots, c)
         = SumOver(Times(q), Owed(group, roots, a \cup b \cup c))
PROOF
  <1> DEFINE of(names) == Owed(group, roots, names)
             f == Times(q)
             D == DOMAIN trace
             A == of(a)
             B == of(b)
             C == of(c)
             w == Window(q, navs)
  <1>1. /\ Rollup(trace, w, group, roots, a) = SumOver(f, A) /\ Rollup(trace, w, group, roots, b) = SumOver(f, B)
        /\ Rollup(trace, w, group, roots, c) = SumOver(f, C)
    BY RollupIs
  <1>2. /\ A \in SUBSET D /\ B \in SUBSET D /\ C \in SUBSET D /\ A \cup B \in SUBSET D
        /\ A \cap B = {} /\ (A \cup B) \cap C = {}
        /\ of(a \cup b \cup c) = (A \cup B) \cup C
    BY DEF Owed
  <1>3. IsFiniteSet(D) /\ \A x \in D : f[x] \in Int
    BY PlacesFinite, TimesAre
  <1> HIDE DEF A, B, C, D, f, w, of
  <1>4. SumOver(f, A \cup B) = SumOver(f, A) + SumOver(f, B)
    BY <1>2, <1>3, SumParts
  <1>5. SumOver(f, (A \cup B) \cup C) = SumOver(f, A \cup B) + SumOver(f, C)
    <2> DEFINE U == A \cup B
    <2>1. U \in SUBSET D /\ U \cap C = {}
      BY <1>2
    <2> HIDE DEF U
    <2>2. SumOver(f, U \cup C) = SumOver(f, U) + SumOver(f, C)
      BY <1>2, <1>3, <2>1, SumParts
    <2> QED BY <2>2 DEF U
  <1>6. SumOver(f, A) \in Int /\ SumOver(f, B) \in Int /\ SumOver(f, C) \in Int
    BY <1>2, <1>3, SumIsInt
  <1>7. of(a \cup b \cup c) = (A \cup B) \cup C
    BY <1>2
  <1>8. SumOver(f, of(a \cup b \cup c)) = SumOver(f, (A \cup B) \cup C)
    BY ONLY <1>7, Zenon
  <1>9. Rollup(trace, w, group, roots, a) + Rollup(trace, w, group, roots, b) + Rollup(trace, w, group, roots, c)
          = SumOver(f, of(a \cup b \cup c))
    <2> HIDE <1>2, <1>7
    <2> QED BY <1>1, <1>4, <1>5, <1>6, <1>8
  <1> QED BY <1>9 DEF f, w, of
-------------------------------------------------------------------------------
\* chrome_scripts.rs: the work that is put down to a script.
LEMMA ScriptQuestion == \A q \in Questions("script_hotspots") : q.upid = None /\ q \in Plain
PROOF
  <1>1. \A q \in Questions("script_hotspots") : q \in Plain
    <2>1. "script_hotspots" \in Tools \ {"resource_pipeline"}
      BY DEF Tools
    <2> QED BY <2>1, QuestionsPlain
  <1>2. Question.upid = None
    BY DEF Question
  <1> DEFINE E(f, t) == [Question EXCEPT !.from = f, !.to = t]
             G(w, m) == [w EXCEPT !.min = m]
  <1>3. \A f, t : E(f, t).upid = None
    BY <1>2 DEF Question
  <1>4. \A w \in Plain : \A m : G(w, m).upid = w.upid
    BY DEF Plain, QuestionSet
  <1>5. [Question EXCEPT !.from = 2].upid = None /\ OneRow.upid = None
    BY <1>2 DEF Question, OneRow
  <1>6. Spans = {E(f, t) : f \in {None, 1}, t \in {None, 2}}
    BY DEF Spans
  <1>7. Questions("script_hotspots") = {G(w, m) : w \in Spans, m \in {0, 2}} \cup {[Question EXCEPT !.from = 2], OneRow}
    BY DEF Questions
  <1>8. Spans \subseteq Plain
    BY PlainWindows
  <1> HIDE DEF E, G
  <1>9. \A w \in Spans : w.upid = None /\ w \in Plain
    BY <1>3, <1>6, <1>8
  <1>10. \A q \in {G(w, m) : w \in Spans, m \in {0, 2}} : q.upid = None
    BY <1>4, <1>9
  <1>11. \A q \in Questions("script_hotspots") : q.upid = None
    <2> DEFINE X == [Question EXCEPT !.from = 2]
               Y == {G(w, m) : w \in Spans, m \in {0, 2}}
    <2>1. X.upid = None /\ OneRow.upid = None /\ Questions("script_hotspots") = Y \cup {X, OneRow}
      BY <1>5, <1>7
    <2>2. \A q \in Y : q.upid = None
      BY <1>10
    <2> HIDE DEF X, Y
    <2> QED BY <2>1, <2>2
  <1> QED BY <1>1, <1>11

LEMMA ScriptsAre ==
  ASSUME TraceInv, purpose = "script_hotspots", NEW q, q.upid = None, NEW w, NEW r
  PROVE  r \in ScriptSlices(trace, w, q) <=> r \in DOMAIN trace /\ IsScript(r) /\ TaskTouches(trace[r], w)
PROOF
  <1>1. ASSUME r \in DOMAIN trace PROVE IsMain(trace[r].track)
    <2> DEFINE x == trace[r].track
               y == trace[r].name
               z == trace[r].args
    <2>1. Kind(x, y, z) \in Kinds("script_hotspots")
      BY <1>1, SliceFacts
    <2> DEFINE K(n) == Kind(1, n, {})
    <2>2. Kinds("script_hotspots")
            = {K(n) : n \in {"FunctionCall", "UpdateStyleAndLayout", "Layout", "RunTask"}}
              \cup {Kind(1, "EvaluateScript", {Arg("url", 4), Arg("site_url", 7)})}
      BY DEF Kinds
    <2>3. \A n, args : Kind(1, n, args).track = 1
      BY DEF Kind
    <2>4. Kind(x, y, z).track = x
      BY DEF Kind
    <2>5. \A n : K(n).track = 1
      BY <2>3
    <2> HIDE DEF x, y, z, K
    <2>6. x = 1
      BY <2>1, <2>2, <2>3, <2>4, <2>5
    <2> QED BY <2>6 DEF x, IsMain
  <1> QED BY <1>1 DEF ScriptSlices, IsScript, OfProcess, ScriptNames

\* It is the nearest around the slice that it is put down to.
LEMMA CauseIs ==
  ASSUME TraceInv, purpose = "script_hotspots", NEW q \in Plain, q.upid = None,
         NEW i \in DOMAIN trace, trace[i].name \in RenderWork, Shared(i, q) > 0, NEW r
  PROVE  r \in ScriptSlices(trace, Window(q, navs), q) /\ i \in CausedBy(trace, r, ScriptSlices(trace, Window(q, navs), q))
           <=> Cause(i) # None /\ Cause(i) = r
PROOF
  <1> DEFINE w  == Window(q, navs)
             S  == ScriptSlices(trace, w, q)
             F  == Walk(S)
             up == Enclosing[i]
             at == {n \in DOMAIN up : n <= WalkDepth /\ IsScript(up[n])
                                      /\ trace[i].dur > 0 /\ \A m \in 1..n : trace[up[m]].dur > 0}
  <1>1. S \in SUBSET DOMAIN trace
    BY DEF ScriptSlices
  <1>2. Cause(i) = IF at = {} THEN None ELSE up[Min(at)]
    BY DEF Cause
  <1>3. /\ Len(up) \in Nat /\ DOMAIN up = 1 .. Len(up) /\ \A n \in 1 .. Len(up) : up[n] \in DOMAIN trace
    <2>1. Len(up) \in Nat
      BY DepthIs
    <2>2. \A n \in 1 .. Len(up) : up[n] \in DOMAIN trace
      BY AroundAreSlices
    <2>3. up \in Seq(1 .. i - 1)
      BY ChainIs DEF Chain
    <2> HIDE DEF up
    <2>4. DOMAIN up = 1 .. Len(up)
      BY <2>3
    <2> QED BY <2>1, <2>2, <2>4 DEF up
  <1>4. \A x \in DOMAIN trace : x # None /\ trace[x].dur \in Int
    <2>1. \A x \in DOMAIN trace : x \in Int /\ trace[x].dur \in Int
      BY SliceFacts
    <2> QED BY <2>1, NullIsNoTool
  <1>5. OverTime(i)
    BY AroundInTime
  <1> HIDE DEF up
  <1>6. ASSUME NEW n \in 1 .. Len(up), IsScript(up[n]), trace[i].dur > 0 PROVE up[n] \in S
    <2>1. trace[up[n]].dur > 0 /\ up[n] \in DOMAIN trace
      BY <1>3, <1>6 DEF IsScript
    <2>2. trace[up[n]].dur # Incomplete
      BY <2>1 DEF Incomplete
    <2>3. trace[up[n]].ts <= trace[i].ts /\ End(trace[i]) <= End(trace[up[n]])
      BY <1>5, <2>2 DEF OverTime, up
    <2>4. TaskTouches(trace[up[n]], w)
      BY <1>6, <2>1, <2>3, TimeWithinIs
    <2> QED BY <1>6, <2>1, <2>4, ScriptsAre
  <1>7. \A x \in S : x \in DOMAIN trace /\ IsScript(x)
    BY ScriptsAre
  <1>8. WalkDepth \in Nat
    BY DepthAssumption
  <1>9. \A x : x \in F <=> x \in DOMAIN trace /\ trace[x].dur > 0 /\ x \notin S
    BY DEF Walk, StopsAtScripts
  <1>10. \A d : ReachedAt(i, r, d, F) <=> d \in 1 .. Len(up) /\ up[d] = r /\ \A k \in 1 .. d - 1 : up[k] \in F
    BY DEF ReachedAt, up
  <1>11. r \in S => (i \in CausedBy(trace, r, S) <=> i \in F /\ \E d \in 1 .. WalkDepth : ReachedAt(i, r, d, F))
    <2> HIDE DEF S
    <2> QED BY <1>1, CausedIs
  <1> HIDE DEF F
  <1>12. \A n : n \in at <=> /\ n \in 1 .. Len(up) /\ n <= WalkDepth /\ IsScript(up[n])
                             /\ trace[i].dur > 0 /\ \A m \in 1..n : trace[up[m]].dur > 0
    BY <1>3
  <1> HIDE DEF at, S
  <1>13. at # {} => Min(at) \in at /\ \A n \in at : Min(at) <= n
    <2>1. at \subseteq 1 .. Len(up) /\ at \subseteq Int
      BY <1>3, <1>12
    <2>2. IsFiniteSet(1 .. Len(up))
      <3>1. 1 \in Int /\ Len(up) \in Int
        BY <1>3
      <3> QED BY <3>1, FS_Interval
    <2>3. IsFiniteSet(at)
      BY <2>1, <2>2, FS_Subset
    <2> QED BY <2>1, <2>3, Extremes
  <1>14. ASSUME r \in S, i \in CausedBy(trace, r, S) PROVE Cause(i) # None /\ Cause(i) = r
    <2>1. i \in F /\ \E d \in 1 .. WalkDepth : ReachedAt(i, r, d, F)
      BY <1>11, <1>14
    <2>2. PICK d \in 1 .. WalkDepth : d \in 1 .. Len(up) /\ up[d] = r /\ \A k \in 1 .. d - 1 : up[k] \in F
      BY <1>10, <2>1
    <2>3. IsScript(r) /\ trace[r].dur > 0
      BY <1>7, <1>14 DEF IsScript
    <2>4. ASSUME NEW m \in 1 .. d PROVE trace[up[m]].dur > 0
      <3>1. m \in 1 .. d - 1 \/ m = d
        BY <1>8
      <3> QED BY <1>9, <2>2, <2>3, <3>1
    <2>5. d \in at
      BY <1>8, <1>9, <1>12, <2>1, <2>2, <2>3, <2>4
    <2> DEFINE e == Min(at)
    <2>6. e \in at /\ e <= d
      BY <1>13, <2>5
    <2> HIDE DEF e
    <2>7. e = d
      <3> SUFFICES ASSUME e # d PROVE FALSE
        OBVIOUS
      <3>1. e \in 1 .. d - 1 /\ e \in 1 .. Len(up) /\ IsScript(up[e]) /\ trace[i].dur > 0
        BY <1>3, <1>8, <1>12, <2>6
      <3>2. up[e] \in S
        BY <1>6, <3>1
      <3>3. up[e] \in F
        BY <2>2, <3>1
      <3> QED BY <1>9, <3>2, <3>3
    <2>8. Cause(i) = r
      <3>1. Cause(i) = up[e]
        BY <1>2, <2>5 DEF e
      <3> QED BY <2>2, <2>7, <3>1
    <2>9. r # None
      BY <1>4, <1>7, <1>14
    <2> QED BY <2>8, <2>9
  <1>15. ASSUME Cause(i) # None, Cause(i) = r PROVE r \in S /\ i \in CausedBy(trace, r, S)
    <2> DEFINE e == Min(at)
    <2>1. at # {} /\ r = up[e]
      BY <1>2, <1>15
    <2>2. e \in at /\ \A n \in at : e <= n
      BY <1>13, <2>1
    <2> HIDE DEF e
    <2>3. /\ e \in 1 .. Len(up) /\ e <= WalkDepth /\ IsScript(r) /\ trace[i].dur > 0
          /\ \A m \in 1..e : trace[up[m]].dur > 0
      BY <1>12, <2>1, <2>2
    <2>4. r \in S
      BY <1>6, <2>1, <2>3
    <2>5. i \in F
      <3>1. i \notin S
        <4>1. ~IsScript(i)
          BY DEF IsScript, RenderWork, ForcedWork, StyleWork, LayoutWork
        <4> QED BY <1>7, <4>1
      <3> QED BY <1>9, <2>3, <3>1
    <2>6. ASSUME NEW k \in 1 .. e - 1 PROVE up[k] \in F
      <3>1. k \in 1 .. Len(up) /\ k \in 1 .. e /\ k <= WalkDepth /\ k < e /\ \A m \in 1 .. k : m \in 1 .. e
        BY <1>3, <1>8, <2>3
      <3>2. up[k] \in DOMAIN trace /\ trace[up[k]].dur > 0
        BY <1>3, <2>3, <3>1
      <3>3. up[k] \notin S
        <4> SUFFICES ASSUME up[k] \in S PROVE FALSE
          OBVIOUS
        <4>1. IsScript(up[k])
          BY <1>7
        <4>2. k \in at
          BY <1>12, <2>3, <3>1, <4>1
        <4>3. e <= k
          BY <2>2, <4>2
        <4> QED BY <2>3, <3>1, <4>3
      <3> QED BY <1>9, <3>2, <3>3
    <2>7. e \in 1 .. WalkDepth
      BY <1>8, <2>3
    <2>8. ReachedAt(i, r, e, F)
      BY <1>10, <2>1, <2>3, <2>6
    <2> QED BY <1>11, <2>4, <2>5, <2>7, <2>8
  <1> QED BY <1>14, <1>15 DEF S
-------------------------------------------------------------------------------
\* The script slices of a row.
Members(q, g) == {i \in ScriptSlices(trace, Window(q, navs), q) : ScriptGroup(trace[i]) = g}

\* A row of the script hotspots adds up the work of each kind.
LEMMA ScriptRowIs ==
  ASSUME NEW q, NEW r \in ScriptRows(trace, Window(q, navs), q)
  PROVE  LET S == ScriptSlices(trace, Window(q, navs), q)
             work(k) == Rollup(trace, Window(q, navs), Members(q, r.group), S, Work[k])
         IN  r.forced = work("forced") /\ r.style = work("style") /\ r.layout = work("layout")
PROOF
  <1> DEFINE w == Window(q, navs)
             scripts     == ScriptSlices(trace, w, q)
             overlap(i)  == TaskOverlap(trace[i], w)
             members(g)  == {i \in scripts : ScriptGroup(trace[i]) = g}
             work(g, k)  == Rollup(trace, w, members(g), scripts, Work[k])
             count(g)    == Cardinality(members(g))
             total(g)    == SumFunction([i \in members(g) |-> overlap(i)])
             max(g)      == Max({overlap(i) : i \in members(g)})
             forced(g)   == work(g, "forced")
             style(g)    == work(g, "style")
             layout(g)   == work(g, "layout")
             first(g)    == Min({OverlapStart(trace[i], w) : i \in members(g)})
             example(g)  == First([i \in members(g) |-> <<overlap(i), trace[i].dur>>])
             row(g)      == [group |-> g, count |-> count(g), total |-> total(g), max |-> max(g),
                             forced |-> forced(g), style |-> style(g), layout |-> layout(g),
                             first |-> first(g), example |-> example(g)]
             group(i)    == ScriptGroup(trace[i])
  <1>1. ScriptRows(trace, w, q) = {s \in {row(group(i)) : i \in scripts} : s.total >= q.min}
    BY DEF ScriptRows
  <1>2. PICK i \in scripts : r = row(group(i))
    <2> HIDE DEF row, group, scripts
    <2> QED BY <1>1
  <1>3. \A g : row(g).group = g /\ row(g).forced = forced(g) /\ row(g).style = style(g) /\ row(g).layout = layout(g)
    <2> HIDE DEF count, total, max, forced, style, layout, first, example
    <2> QED OBVIOUS
  <1> HIDE DEF row
  <1>4. r.group = group(i) /\ r.forced = forced(group(i)) /\ r.style = style(group(i)) /\ r.layout = layout(group(i))
    BY <1>2, <1>3
  <1> QED BY <1>4 DEF Members

LEMMA KindsOfWork ==
  /\ Work["forced"] \cap Work["style"] = {} /\ Work["forced"] \cap Work["layout"] = {}
  /\ Work["style"] \cap Work["layout"] = {}
  /\ Work["forced"] \cup Work["style"] \cup Work["layout"] = RenderWork
  /\ PipelineWork["forced"] \cap PipelineWork["style"] = {} /\ PipelineWork["forced"] \cap PipelineWork["layout"] = {}
  /\ PipelineWork["style"] \cap PipelineWork["layout"] = {}
  /\ PipelineWork["forced"] \cup PipelineWork["style"] \cup PipelineWork["layout"] \subseteq RenderWork
PROOF
  <1>1. Work["forced"] = ForcedWork /\ Work["style"] = StyleWork \ ForcedWork
        /\ Work["layout"] = LayoutWork \ (ForcedWork \cup StyleWork)
    BY DEF Work
  <1>2. PipelineWork["forced"] = {"ForcedStyleAndLayout"} /\ PipelineWork["style"] = {"UpdateStyleAndLayout", "StyleRecalc"}
        /\ PipelineWork["layout"] = {"Layout"}
    BY DEF PipelineWork
  <1>3. /\ Work["forced"] \cap Work["style"] = {} /\ Work["forced"] \cap Work["layout"] = {}
        /\ Work["style"] \cap Work["layout"] = {}
        /\ Work["forced"] \cup Work["style"] \cup Work["layout"] = RenderWork
    BY <1>1 DEF RenderWork
  <1>4. /\ PipelineWork["forced"] \cap PipelineWork["style"] = {} /\ PipelineWork["forced"] \cap PipelineWork["layout"] = {}
        /\ PipelineWork["style"] \cap PipelineWork["layout"] = {}
    BY <1>2
  <1>5. PipelineWork["forced"] \cup PipelineWork["style"] \cup PipelineWork["layout"] \subseteq RenderWork
    BY <1>2 DEF RenderWork, ForcedWork, StyleWork, LayoutWork
  <1> QED BY <1>3, <1>4, <1>5

\* The rows of the script hotspots have the work the nearest script around it has caused.
LEMMA ScriptsPaidOnce ==
  ASSUME TraceInv, purpose = "script_hotspots", NEW q \in Plain, q.upid = None,
         NEW r \in ScriptRows(trace, Window(q, navs), q)
  PROVE  LET caused == {i \in DOMAIN trace : /\ trace[i].name \in RenderWork /\ Cause(i) # None
                                             /\ ScriptGroup(trace[Cause(i)]) = r.group}
         IN  Rendered(r) = SumFunction([i \in caused |-> Shared(i, q)])
PROOF
  <1> DEFINE w == Window(q, navs)
             S == ScriptSlices(trace, w, q)
             G == Members(q, r.group)
             D == DOMAIN trace
             f == Times(q)
             A == Owed(G, S, RenderWork)
             caused == {i \in D : /\ trace[i].name \in RenderWork /\ Cause(i) # None
                                  /\ ScriptGroup(trace[Cause(i)]) = r.group}
  <1>1. S \in SUBSET D /\ G \in SUBSET S
    BY DEF ScriptSlices, Members
  <1>2. \A x \in S : trace[x].dur > 0 /\ TaskTouches(trace[x], w)
    BY ScriptsAre DEF IsScript
  <1>3. Rendered(r) = SumOver(f, A)
    <2> DEFINE a == Work["forced"]
               b == Work["style"]
               c == Work["layout"]
               roll(names) == Rollup(trace, w, G, S, names)
    <2>1. r.forced = roll(a) /\ r.style = roll(b) /\ r.layout = roll(c)
      BY ScriptRowIs
    <2>2. a \cap b = {} /\ a \cap c = {} /\ b \cap c = {} /\ a \cup b \cup c = RenderWork
      BY KindsOfWork
    <2> HIDE DEF a, b, c, S, G
    <2>3. roll(a) + roll(b) + roll(c) = SumOver(f, Owed(G, S, a \cup b \cup c))
      BY <1>1, <1>2, <2>2, RollupsAdd
    <2>4. roll(a) + roll(b) + roll(c) = SumOver(f, Owed(G, S, RenderWork))
      <3> HIDE DEF roll, f
      <3> QED BY ONLY <2>3, <2>2, Zenon
    <2> QED BY <2>1, <2>4 DEF Rendered
  <1>4. ASSUME NEW i \in D, f[i] # 0 PROVE i \in A <=> i \in caused
    <2>1. Shared(i, q) > 0
      BY <1>4, TimesAre
    <2>2. ASSUME i \in A PROVE i \in caused
      <3>1. trace[i].name \in RenderWork
        BY <2>2 DEF Owed
      <3>2. PICK x \in G : i \in CausedBy(trace, x, S)
        BY <2>2 DEF Owed
      <3>3. x \in S /\ ScriptGroup(trace[x]) = r.group
        BY DEF Members
      <3>4. Cause(i) # None /\ Cause(i) = x
        BY <2>1, <3>1, <3>2, <3>3, CauseIs
      <3> QED BY <3>1, <3>3, <3>4
    <2>3. ASSUME i \in caused PROVE i \in A
      <3> DEFINE x == Cause(i)
      <3>1. trace[i].name \in RenderWork /\ x # None /\ ScriptGroup(trace[x]) = r.group
        BY <2>3
      <3>2. x \in S /\ i \in CausedBy(trace, x, S)
        BY <2>1, <3>1, CauseIs
      <3>3. x \in G
        BY <3>1, <3>2 DEF Members
      <3> HIDE DEF x, G, S
      <3> QED BY <3>1, <3>2, <3>3 DEF Owed
    <2> QED BY <2>2, <2>3
  <1>5. A \in SUBSET D /\ caused \in SUBSET D
    BY DEF Owed
  <1>6. IsFiniteSet(D) /\ \A x \in D : f[x] \in Int
    BY PlacesFinite, TimesAre
  <1>7. [i \in caused |-> Shared(i, q)] = [i \in caused |-> f[i]]
    BY <1>5 DEF Times
  <1> HIDE DEF A, caused, f, D
  <1>8. SumOver(f, A) = SumOver(f, caused)
    BY <1>4, <1>5, <1>6, SumSame
  <1>9. SumFunction([i \in caused |-> Shared(i, q)]) = SumOver(f, caused)
    BY <1>7 DEF SumOver
  <1>10. Rendered(r) = SumFunction([i \in caused |-> Shared(i, q)])
    BY <1>3, <1>8, <1>9
  <1> QED BY <1>10 DEF caused, D
-------------------------------------------------------------------------------
\* chrome_resources.rs: the work of the scripts of a resource.

\* Questions of the same window: they differ in what else is asked.
SameWindow(q, p) == /\ q.page = p.page /\ q.nav = p.nav /\ q.phase = p.phase /\ q.from = p.from /\ q.to = p.to

LEMMA SameWindowIs ==
  ASSUME NEW q, NEW p, SameWindow(q, p)
  PROVE  Window(q, navs) = Window(p, navs) /\ \A i : Shared(i, q) = Shared(i, p)
PROOF
  <1>1. Window(q, navs) = Window(p, navs)
    BY DEF SameWindow, Window, Phase, Latest, Matching
  <1>2. Asked(q) = Asked(p)
    BY DEF SameWindow, Asked, Phase
  <1> QED BY <1>1, <1>2 DEF Shared

\* The script slices of a resource, and of them all.
Runs(w, q, k) ==
  {i \in PipelineScripts(trace, w, {KeyOf(trace, j, q.grouping) : j \in PipelineResources(trace, w, q)}, q) :
     KeyOf(trace, i, q.grouping) = k}
RunScripts(w, q) == PipelineScripts(trace, w, {KeyOf(trace, j, q.grouping) : j \in PipelineResources(trace, w, q)}, q)

\* A row of the pipeline is that of its URL, and adds up the work of each kind.
LEMMA PipelineRowIs ==
  ASSUME TraceInv, NEW w, NEW q
  PROVE  /\ IsFiniteSet(PipelineRows(trace, w, q))
         /\ \A r \in PipelineRows(trace, w, q) :
              LET work(kind) == Rollup(trace, w, Runs(w, q, r.key), RunScripts(w, q), PipelineWork[kind])
              IN  r.forced = work("forced") /\ r.style = work("style") /\ r.layout = work("layout")
         /\ \A r, o \in PipelineRows(trace, w, q) : r.key = o.key => r = o
PROOF
  <1> DEFINE rows    == PipelineResources(trace, w, q)
             key(i)  == UrlKey(SelectedUrl(trace[i]), q.grouping)
             keys    == {key(i) : i \in rows}
             scripts == PipelineScripts(trace, w, keys, q)
             of(k)   == {i \in rows : key(i) = k}
             runs(k) == {i \in scripts : key(i) = k}
             lap(i)  == ResourceOverlap(trace[i], w)
             ran(i)  == TaskOverlap(trace[i], w)
             by(i)   == MatchedBy(trace, SelectedUrl(trace[i]), q)
             best(k) == First([i \in of(k) |-> <<MatchRank(by(i)), lap(i), trace[i].dur>>])
             named(s, names) == {i \in s : trace[i].name \in names}
             work(k, kind)   == Rollup(trace, w, runs(k), scripts, PipelineWork[kind])
             matched(k)    == by(best(k))
             count(k)      == Cardinality(of(k))
             max(k)        == Max({lap(i) : i \in of(k)})
             first(k)      == Min({trace[i].ts : i \in of(k)})
             request(k)    == Largest({lap(i) : i \in named(of(k), RequestNames)})
             example(k)    == ByOverlap(trace, w, of(k))
             detail(k)     == ByOverlap(trace, w, {i \in of(k) : trace[i].name \notin NotDetailed})
             results(k)    == ResultsOf(trace, of(k))
             ofScripts(k)  == Cardinality(runs(k))
             background(k) == SumFunction([i \in named(runs(k), BackgroundParse) |-> ran(i)])
             evaluated(k)  == SumFunction([i \in named(runs(k), Evaluations) |-> ran(i)])
             callback(k)   == Largest({ran(i) : i \in named(runs(k), Callbacks)})
             forced(k)     == work(k, "forced")
             style(k)      == work(k, "style")
             layout(k)     == work(k, "layout")
             script(k)     == First([i \in runs(k) |-> <<ran(i), trace[i].dur>>])
             row(k)  == [key |-> k, matched |-> matched(k), count |-> count(k), max |-> max(k), first |-> first(k),
                         request |-> request(k), example |-> example(k), detail |-> detail(k), results |-> results(k),
                         scripts |-> ofScripts(k), background |-> background(k), evaluated |-> evaluated(k),
                         callback |-> callback(k), forced |-> forced(k), style |-> style(k), layout |-> layout(k),
                         script |-> script(k)]
  <1>1. PipelineRows(trace, w, q) = {row(k) : k \in keys}
    BY DEF PipelineRows
  <1>2. \A k : row(k).key = k /\ row(k).forced = forced(k) /\ row(k).style = style(k) /\ row(k).layout = layout(k)
    <2> HIDE DEF matched, count, max, first, request, example, detail, results, ofScripts, background, evaluated,
                 callback, forced, style, layout, script
    <2> QED OBVIOUS
  <1>3. \A k : runs(k) = Runs(w, q, k)
    BY DEF Runs, KeyOf
  <1>4. scripts = RunScripts(w, q)
    BY DEF RunScripts, KeyOf
  <1>5. IsFiniteSet(keys)
    <2> DEFINE f == [i \in rows |-> key(i)]
    <2>1. rows \in SUBSET DOMAIN trace
      BY DEF PipelineResources, Candidates
    <2>2. IsFiniteSet(rows)
      <3> HIDE DEF rows
      <3> QED BY <2>1, PlacesFinite, FS_Subset
    <2>3. keys = {f[i] : i \in rows}
      <3> HIDE DEF rows, key
      <3> QED OBVIOUS
    <2> HIDE DEF f, rows, keys
    <2> QED BY <2>2, <2>3, Images
  <1>6. \A k : forced(k) = Rollup(trace, w, Runs(w, q, k), RunScripts(w, q), PipelineWork["forced"])
               /\ style(k) = Rollup(trace, w, Runs(w, q, k), RunScripts(w, q), PipelineWork["style"])
               /\ layout(k) = Rollup(trace, w, Runs(w, q, k), RunScripts(w, q), PipelineWork["layout"])
    <2> HIDE DEF runs, scripts
    <2> QED BY <1>3, <1>4
  <1> HIDE DEF row, keys, forced, style, layout
  <1>7. IsFiniteSet({row(k) : k \in keys})
    <2> DEFINE f == [k \in keys |-> row(k)]
    <2>1. {row(k) : k \in keys} = {f[k] : k \in keys}
      OBVIOUS
    <2> HIDE DEF f
    <2>2. IsFiniteSet({f[k] : k \in keys})
      BY <1>5, Images
    <2> QED BY <2>1, <2>2
  <1>8. \A r \in PipelineRows(trace, w, q) : \E k \in keys : r = row(k)
    BY <1>1
  <1>9. \A r \in PipelineRows(trace, w, q) : r = row(r.key)
    BY <1>2, <1>8
  <1>10. \A r, o \in PipelineRows(trace, w, q) : r.key = o.key => r = o
    BY <1>9
  <1>11. \A r \in PipelineRows(trace, w, q) :
           /\ r.forced = Rollup(trace, w, Runs(w, q, r.key), RunScripts(w, q), PipelineWork["forced"])
           /\ r.style = Rollup(trace, w, Runs(w, q, r.key), RunScripts(w, q), PipelineWork["style"])
           /\ r.layout = Rollup(trace, w, Runs(w, q, r.key), RunScripts(w, q), PipelineWork["layout"])
    BY <1>2, <1>6, <1>9
  <1> QED BY <1>1, <1>7, <1>10, <1>11

\* The rows of the pipeline have no more work than there was in the window.
LEMMA PipelinePaidOnce ==
  ASSUME TraceInv, NEW q, NEW p \in Plain, SameWindow(q, p),
         NEW rows \in SUBSET PipelineRows(trace, Window(q, navs), q)
  PROVE  LET work == {i \in DOMAIN trace : trace[i].name \in RenderWork}
         IN  SumFunction([r \in rows |-> Rendered(r)]) <= SumFunction([i \in work |-> Shared(i, q)])
PROOF
  <1> DEFINE w == Window(q, navs)
             S == RunScripts(w, q)
             D == DOMAIN trace
             f == Times(p)
             names == PipelineWork["forced"] \cup PipelineWork["style"] \cup PipelineWork["layout"]
             part == [r \in rows |-> Owed(Runs(w, q, r.key), S, names)]
             work == {i \in D : trace[i].name \in RenderWork}
  <1>1. w = Window(p, navs) /\ \A i : Shared(i, q) = Shared(i, p)
    BY SameWindowIs
  <1>2. S \in SUBSET D /\ \A k : Runs(w, q, k) \in SUBSET S /\ \A x \in S : trace[x].dur > 0 /\ TaskTouches(trace[x], w)
    BY DEF RunScripts, PipelineScripts, Runs
  <1>3. ASSUME NEW r \in rows PROVE Rendered(r) = SumOver(f, part[r])
    <2> DEFINE a == PipelineWork["forced"]
               b == PipelineWork["style"]
               c == PipelineWork["layout"]
               G == Runs(w, q, r.key)
               roll(x) == Rollup(trace, w, G, S, x)
    <2>0. r \in PipelineRows(trace, w, q)
      OBVIOUS
    <2>1. r.forced = roll(a) /\ r.style = roll(b) /\ r.layout = roll(c)
      BY <2>0, PipelineRowIs
    <2>2. a \cap b = {} /\ a \cap c = {} /\ b \cap c = {}
      BY KindsOfWork
    <2>3. G \in SUBSET S
      BY <1>2
    <2>4. part[r] = Owed(G, S, a \cup b \cup c)
      OBVIOUS
    <2> HIDE DEF a, b, c, S, G, D, w, part
    <2>5. roll(a) + roll(b) + roll(c) = SumOver(f, Owed(G, S, a \cup b \cup c))
      BY <1>1, <1>2, <2>2, <2>3, RollupsAdd DEF D
    <2>6. roll(a) + roll(b) + roll(c) = SumOver(f, part[r])
      <3> HIDE DEF roll, f
      <3> QED BY ONLY <2>4, <2>5, Zenon
    <2> QED BY <2>1, <2>6 DEF Rendered
  <1>4. [r \in rows |-> Rendered(r)] = Each(f, part, rows)
    <2> HIDE DEF f, part
    <2> QED BY <1>3 DEF Each
  <1>5. \A r \in rows : part[r] \in SUBSET D
    BY DEF Owed
  <1>6. \A r, o \in rows : r # o => part[r] \cap part[o] = {}
    <2> SUFFICES ASSUME NEW r \in rows, NEW o \in rows, r # o, NEW i, i \in part[r], i \in part[o] PROVE FALSE
      OBVIOUS
    <2>0. r \in PipelineRows(trace, w, q) /\ o \in PipelineRows(trace, w, q)
      OBVIOUS
    <2>1. PICK x \in Runs(w, q, r.key) : i \in CausedBy(trace, x, S)
      BY DEF Owed
    <2>2. PICK y \in Runs(w, q, o.key) : i \in CausedBy(trace, y, S)
      BY DEF Owed
    <2>3. x \in S /\ y \in S
      BY <1>2, <2>1, <2>2
    <2>4. x = y
      <3> HIDE DEF S
      <3> QED BY <1>2, <2>1, <2>2, <2>3, CausedOnce
    <2>5. r.key = o.key
      BY <2>4 DEF Runs
    <2> QED BY <2>0, <2>5, PipelineRowIs
  <1>7. IsFiniteSet(D) /\ (\A x \in D : f[x] \in Int) /\ IsFiniteSet(rows)
    <2>1. IsFiniteSet(PipelineRows(trace, w, q))
      BY PipelineRowIs
    <2>2. IsFiniteSet(rows)
      BY <2>1, FS_Subset
    <2> QED BY <2>2, PlacesFinite, TimesAre
  <1>8. Whole(part, rows) \in SUBSET work
    <2>1. names \subseteq RenderWork
      BY KindsOfWork
    <2> HIDE DEF names
    <2>2. \A r \in rows : part[r] \subseteq work
      BY <2>1 DEF Owed
    <2> HIDE DEF part, work
    <2> QED BY <2>2 DEF Whole
  <1>9. work \in SUBSET D /\ \A x \in work : f[x] \in Nat
    BY TimesAre
  <1>10. [i \in work |-> Shared(i, q)] = [i \in work |-> f[i]]
    BY <1>1 DEF Times
  <1> HIDE DEF f, part, D, work
  <1>11. SumFunction(Each(f, part, rows)) = SumOver(f, Whole(part, rows))
    BY <1>5, <1>6, <1>7, SumOfSums
  <1>12. SumOver(f, Whole(part, rows)) <= SumOver(f, work)
    <2>1. IsFiniteSet(work)
      BY <1>7, <1>9, FS_Subset
    <2> QED BY <1>8, <1>9, <2>1, SumGrows
  <1>13. SumFunction([i \in work |-> Shared(i, q)]) = SumOver(f, work)
    BY <1>10 DEF SumOver
  <1>14. SumFunction([r \in rows |-> Rendered(r)]) = SumOver(f, Whole(part, rows))
    BY <1>4, <1>11
  <1>15. SumFunction([r \in rows |-> Rendered(r)]) <= SumFunction([i \in work |-> Shared(i, q)])
    BY <1>12, <1>13, <1>14
  <1> QED BY <1>15 DEF work, D
-------------------------------------------------------------------------------
\* Every question has the window of one that names no resource.
LEMMA PipelineWindows == \A q \in Questions("resource_pipeline") : \E p \in Plain : SameWindow(q, p)
PROOF
  <1> DEFINE E(p, e) == [Question EXCEPT !.part = p, !.example = e]
             G(q, g) == [q EXCEPT !.grouping = g]
             A == [Question EXCEPT !.part = "a", !.from = 1, !.to = 2]
             B == [Question EXCEPT !.part = ""]
             C == [OneRow EXCEPT !.part = "https"]
             X == {E(p, e) : p \in {None, "doc"}, e \in {None, 1}}
             V == [Question EXCEPT !.from = 1]
             W == [V EXCEPT !.to = 2]
  <1>1. Question \in Plain /\ OneRow \in Plain /\ W \in Plain
    <2>1. Question \in Plain /\ OneRow \in Plain
      BY PlainQuestion, Altered DEF OneRow
    <2>2. V \in Plain
      BY <2>1, Altered
    <2> HIDE DEF V
    <2>3. W \in Plain
      BY <2>2, Altered
    <2> QED BY <2>1, <2>3
  <1>2. \A p, e, g : SameWindow(G(E(p, e), g), Question)
    BY DEF SameWindow, Question
  <1>3. SameWindow(A, W) /\ SameWindow(B, Question) /\ SameWindow(C, OneRow)
    <2>1. SameWindow(A, W)
      BY DEF SameWindow, Question
    <2>2. SameWindow(B, Question)
      BY DEF SameWindow, Question
    <2>3. SameWindow(C, OneRow)
      BY DEF SameWindow, Question, OneRow
    <2> QED BY <2>1, <2>2, <2>3
  <1>4. Questions("resource_pipeline") = Grouped(X) \cup {B, A, C}
    BY DEF Questions
  <1>5. Grouped(X) = {G(q, g) : q \in X, g \in {"full", "without_query"}}
    BY DEF Grouped
  <1> HIDE DEF A, B, C, W, E, G
  <1>6. \A q \in Grouped(X) : SameWindow(q, Question)
    BY <1>2, <1>5
  <1> HIDE DEF X
  <1> QED BY <1>1, <1>3, <1>4, <1>6

\* The window of a question is that of one which names no resource: a page load or a phase of
\* it, or two instants.
WindowInv == asked.tool # None => \E p \in Plain : SameWindow(asked.q, p)

LEMMA WindowKept == TraceInv /\ AskedInv /\ WindowInv /\ [Next]_vars => WindowInv'
PROOF
  <1> SUFFICES ASSUME TraceInv, AskedInv, WindowInv, [Next]_vars PROVE WindowInv'
    OBVIOUS
  <1>0. purpose \in Tools
    BY DEF TraceInv
  <1>1. CASE AddSlice \/ AddLoad
    <2>1. asked' = asked
      BY <1>1 DEF AddSlice, AddLoad
    <2> QED BY <2>1 DEF WindowInv
  <1>2. CASE Ask
    <2>1. PICK q \in Questions(purpose) : Answer(purpose, q)
      BY <1>2 DEF Ask
    <2>2. asked' = Asking(purpose, q)
      BY <1>0, <2>1, AnswerGives
    <2>3. \E p \in Plain : SameWindow(q, p)
      <3>1. CASE purpose = "resource_pipeline"
        BY <3>1, PipelineWindows
      <3>2. CASE purpose # "resource_pipeline"
        <4>1. q \in Plain
          BY <1>0, <3>2, QuestionsPlain
        <4> QED BY <4>1 DEF SameWindow
      <3> QED BY <3>1, <3>2
    <2>4. asked'.q = q
      BY <2>2 DEF Asking
    <2> QED BY <2>3, <2>4 DEF WindowInv
  <1>3. CASE Follow
    <2> DEFINE tool == "resource_pipeline"
    <2>1. PICK x : Answer(tool, [asked.q EXCEPT !.example = x, !.min = 0, !.limit = None])
      BY <1>3 DEF Follow
    <2> DEFINE n == [asked.q EXCEPT !.example = x, !.min = 0, !.limit = None]
    <2>2. asked.q \in Plain
      <3>1. asked.tool = purpose /\ asked.tool \in Tools \ {"resource_pipeline"}
        BY <1>3, NullIsNoTool DEF Follow, AskedInv, Tools
      <3> QED BY <3>1, QuestionsPlain DEF AskedInv
    <2>3. SameWindow(n, asked.q)
      BY <2>2 DEF SameWindow, Plain, QuestionSet
    <2>4. tool \in Tools
      BY DEF Tools
    <2> HIDE DEF n, tool
    <2>5. asked' = Asking(tool, n)
      BY <2>1, <2>4, AnswerGives DEF n
    <2>6. asked'.q = n
      BY <2>5 DEF Asking
    <2> QED BY <2>2, <2>3, <2>6 DEF WindowInv
  <1>4. CASE Done
    BY <1>4 DEF Done, Asking, WindowInv
  <1>5. CASE UNCHANGED vars
    BY <1>5 DEF vars, WindowInv
  <1> QED BY <1>1, <1>2, <1>3, <1>4, <1>5 DEF Next

\* The scripts and the pipelines pay for rendering work once.
LEMMA WorkIsPaidOnce == TraceInv /\ AskedInv /\ WindowInv => RenderWorkOnce
PROOF
  <1> SUFFICES ASSUME TraceInv, AskedInv, WindowInv PROVE RenderWorkOnce
    OBVIOUS
  <1> DEFINE q == asked.q
             tool == asked.tool
             w == Window(q, navs)
             Once(r) == LET caused == {i \in DOMAIN trace : /\ trace[i].name \in RenderWork /\ Cause(i) # None
                                                            /\ ScriptGroup(trace[Cause(i)]) = r.group}
                        IN  Rendered(r) = SumFunction([i \in caused |-> Shared(i, q)])
             Within == LET work == {i \in DOMAIN trace : trace[i].name \in RenderWork}
                       IN  SumFunction([r \in answer.rows |-> Rendered(r)]) <= SumFunction([i \in work |-> Shared(i, q)])
  <1>1. tool # None => answer.rows \subseteq DOMAIN Ranked(tool, q, trace, navs)
    <2>1. tool # None => Answered(tool, q, trace, navs, answer)
      BY DEF AskedInv
    <2>2. NoAnswer.rows = {}
      BY DEF NoAnswer
    <2>3. ASSUME tool # None, answer # NoAnswer
          PROVE  answer.rows \in Tops(Ranked(tool, q, trace, navs), RowsUpTo(q.limit, Default(tool)))
      BY <2>1, <2>3 DEF Answered
    <2> QED BY <2>2, <2>3, OnlyTheirRows
  <1>2. ASSUME tool = "script_hotspots", NEW r \in answer.rows PROVE Once(r)
    <2>1. tool # None /\ tool = purpose
      BY <1>2, NullIsNoTool DEF AskedInv, Tools
    <2>2. q \in Plain /\ q.upid = None
      BY <1>2, <2>1, ScriptQuestion DEF AskedInv
    <2>3. Ranked(tool, q, trace, navs) = ScriptRank(ScriptRows(trace, w, q))
      BY <1>2 DEF Ranked
    <2>4. r \in ScriptRows(trace, w, q)
      BY <1>1, <2>1, <2>3 DEF ScriptRank
    <2> QED BY <1>2, <2>1, <2>2, <2>4, ScriptsPaidOnce
  <1>3. ASSUME tool = "resource_pipeline" PROVE Within
    <2>1. tool # None
      BY <1>3, NullIsNoTool DEF Tools
    <2>2. PICK p \in Plain : SameWindow(q, p)
      BY <2>1 DEF WindowInv
    <2>3. Ranked(tool, q, trace, navs) = PipelineRank(PipelineRows(trace, w, q))
      BY <1>3 DEF Ranked
    <2>4. answer.rows \subseteq PipelineRows(trace, w, q)
      BY <1>1, <2>1, <2>3 DEF PipelineRank
    <2> QED BY <2>2, <2>4, PipelinePaidOnce
  <1> HIDE DEF Once, Within
  <1>4. (tool = "script_hotspots" => \A r \in answer.rows : Once(r)) /\ (tool = "resource_pipeline" => Within)
    BY <1>2, <1>3
  <1> QED BY <1>4 DEF RenderWorkOnce, Once, Within
-------------------------------------------------------------------------------
\* Where in a sequence something is first.
LEMMA AtIs ==
  ASSUME NEW s, Len(s) \in Nat, NEW t
  PROVE  /\ (\A i \in 1 .. Len(s) : s[i] # t) => At(s, t) = 0
         /\ At(s, t) # 0 => /\ At(s, t) \in 1 .. Len(s) /\ s[At(s, t)] = t
                            /\ \A i \in 1 .. Len(s) : s[i] = t => At(s, t) <= i
         /\ \A i \in 1 .. Len(s) : s[i] = t => At(s, t) # 0
PROOF
  <1> DEFINE I == {i \in 1 .. Len(s) : s[i] = t}
  <1>1. At(s, t) = IF I # {} THEN Min(I) ELSE 0
    BY DEF At, SelectInSeq
  <1>2. IsFiniteSet(I) /\ I \subseteq Int
    <2>1. IsFiniteSet(1 .. Len(s)) /\ I \subseteq 1 .. Len(s)
      BY FS_Interval
    <2> QED BY <2>1, FS_Subset
  <1>3. I # {} => Min(I) \in I /\ \A i \in I : Min(I) <= i
    <2> HIDE DEF I
    <2> QED BY <1>2, Extremes
  <1>4. CASE I = {}
    BY <1>1, <1>4
  <1>5. CASE I # {}
    <2>1. At(s, t) \in I /\ \A i \in I : At(s, t) <= i
      BY <1>1, <1>3, <1>5
    <2> QED BY <2>1, <1>5
  <1> QED BY <1>4, <1>5

\* What URLs are made of, and where the authority of one ends.
Tokens == {"about:blank", "chrome", "://", "ui", "http", "unisolated.invalid", "/", "https", "a", "doc", "?", "q",
           "x", "y", "b", "#"}
Stops == {"/", "?", "#"}

\* A URL of a host: what follows the host, if anything does, ends the authority.
Hosted(tokens, host) ==
  /\ tokens \in Seq(Tokens) /\ Len(tokens) >= 3
  /\ tokens[1] = "https" /\ tokens[2] = "://" /\ tokens[3] = host
  /\ host \notin Stops
  /\ Len(tokens) = 3 \/ tokens[4] \in Stops

FirstThree(tokens) == [i \in 1 .. 3 |-> tokens[i]]

\* What comes before the path of such a URL, as a site and as the SQL cuts it out.
LEMMA HostedSite ==
  ASSUME NEW tokens, NEW host, Hosted(tokens, host)
  PROVE  Restrict(tokens, Site(tokens)) = FirstThree(tokens)
PROOF
  <1>1. Len(tokens) \in Nat /\ Len(tokens) >= 3 /\ DOMAIN tokens = 1 .. Len(tokens)
    BY DEF Hosted
  <1>2. \A i \in 1 .. 3 : tokens[i] \notin Stops
    BY DEF Hosted, Stops
  <1>3. Len(tokens) > 3 => tokens[4] \in Stops
    BY <1>1 DEF Hosted
  <1>4. \A i \in DOMAIN tokens : i \in 1 .. 3 <=> \A j \in 1 .. i : tokens[j] \notin Stops
    BY <1>1, <1>2, <1>3
  <1>5. Site(tokens) = {i \in DOMAIN tokens : \A j \in 1 .. i : tokens[j] \notin Stops}
    BY DEF Site, Stops
  <1>6. Site(tokens) = 1 .. 3
    BY <1>1, <1>4, <1>5
  <1> QED BY <1>6 DEF Restrict, FirstThree

LEMMA HostedOrigin ==
  ASSUME NEW tokens, NEW host, Hosted(tokens, host)
  PROVE  Origin(tokens) = FirstThree(tokens) /\ Origin(tokens) # <<>>
PROOF
  <1> DEFINE n == Len(tokens)
             rest == SubSeq(tokens, 3, n)
  <1>1. tokens \in Seq(Tokens) /\ n \in Nat /\ n >= 3
    BY DEF Hosted
  <1>2. At(tokens, "://") = 2
    BY <1>1, AtIs DEF Hosted
  <1>3. rest \in Seq(Tokens) /\ Len(rest) = n - 2 /\ \A i \in 1 .. n - 2 : rest[i] = tokens[i + 2]
    BY <1>1
  <1>4. rest[1] = host /\ rest[1] \notin Stops /\ (n > 3 => rest[2] \in Stops)
    BY <1>1, <1>3 DEF Hosted
  <1> HIDE DEF rest
  <1>5. \A t \in Stops : At(rest, t) # 1 /\ At(rest, t) \in Nat
    BY <1>1, <1>3, <1>4, AtIs
  <1>6. Authority(rest) = SubSeq(rest, 1, 1)
    <2>1. CASE n = 3
      <3>1. \A t \in Stops : At(rest, t) = 0
        BY <2>1, <1>3, <1>4, AtIs
      <3>2. Authority(rest) = rest
        BY <3>1 DEF Authority, Stops
      <3> QED BY <3>2, <2>1, <1>3
    <2>2. CASE n > 3
      <3>1. At(rest, rest[2]) = 2
        BY <2>2, <1>1, <1>3, <1>4, <1>5, AtIs
      <3>2. \A t \in Stops \ {rest[2]} : At(rest, t) = 0 \/ At(rest, t) > 2
        BY <2>2, <1>1, <1>3, <1>4, <1>5, AtIs
      <3>3. UpTo(rest, rest[2]) = SubSeq(rest, 1, 1)
        BY <3>1 DEF UpTo
      <3>4. CASE rest[2] = "/"
        <4>1. At(rest, "/") = 2 /\ UpTo(rest, "/") = SubSeq(rest, 1, 1)
          BY <3>1, <3>3, <3>4
        <4>2. \A t \in {"?", "#"} : At(rest, t) = 0 \/ At(rest, t) > 2
          BY <3>2, <3>4 DEF Stops
        <4> HIDE DEF n
        <4> QED BY <4>1, <4>2, <1>5 DEF Authority, Stops
      <3>5. CASE rest[2] = "?"
        <4>1. At(rest, "?") = 2 /\ UpTo(rest, "?") = SubSeq(rest, 1, 1)
          BY <3>1, <3>3, <3>5
        <4>2. \A t \in {"/", "#"} : At(rest, t) = 0 \/ At(rest, t) > 2
          BY <3>2, <3>5 DEF Stops
        <4> HIDE DEF n
        <4> QED BY <4>1, <4>2, <1>5 DEF Authority, Stops
      <3>6. CASE rest[2] = "#"
        <4>1. At(rest, "#") = 2 /\ UpTo(rest, "#") = SubSeq(rest, 1, 1)
          BY <3>1, <3>3, <3>6
        <4>2. \A t \in {"/", "?"} : At(rest, t) = 0 \/ At(rest, t) > 2
          BY <3>2, <3>6 DEF Stops
        <4> HIDE DEF n
        <4> QED BY <4>1, <4>2, <1>5 DEF Authority, Stops
      <3>7. rest[2] \in {"/", "?", "#"}
        BY <2>2, <1>4 DEF Stops
      <3> QED BY <3>4, <3>5, <3>6, <3>7
    <2>3. n = 3 \/ n > 3
      <3> HIDE DEF n
      <3> QED BY <1>1
    <2> QED BY ONLY <2>1, <2>2, <2>3
  <1>7. Origin(tokens) = SubSeq(tokens, 1, 2) \o SubSeq(rest, 1, 1)
    <2>1. SubSeq(tokens, 2 + 1, Len(tokens)) = rest
      BY DEF rest
    <2> DEFINE i == At(tokens, "://")
    <2>2. Origin(tokens) = IF i > 0 THEN SubSeq(tokens, 1, i) \o Authority(SubSeq(tokens, i + 1, Len(tokens))) ELSE <<>>
      BY DEF Origin
    <2>3. i = 2
      BY <1>2
    <2> HIDE DEF i
    <2>4. Origin(tokens) = SubSeq(tokens, 1, 2) \o Authority(SubSeq(tokens, 2 + 1, Len(tokens)))
      BY <2>2, <2>3
    <2> QED BY <2>1, <2>4, <1>6
  <1> DEFINE front == SubSeq(tokens, 1, 2)
             back == SubSeq(rest, 1, 1)
  <1>8. front \in Seq(Tokens) /\ Len(front) = 2 /\ front[1] = tokens[1] /\ front[2] = tokens[2]
    BY <1>1
  <1>9. back \in Seq(Tokens) /\ Len(back) = 1 /\ back[1] = tokens[3]
    BY <1>1, <1>3
  <1> HIDE DEF front, back
  <1> DEFINE c == front \o back
  <1>10. c \in Seq(Tokens) /\ Len(c) = 3 /\ c[1] = tokens[1] /\ c[2] = tokens[2] /\ c[3] = tokens[3]
    <2>1. /\ c \in Seq(Tokens) /\ Len(c) = Len(front) + Len(back)
          /\ \A i \in 1 .. Len(front) + Len(back) : c[i] = IF i <= Len(front) THEN front[i] ELSE back[i - Len(front)]
      BY <1>8, <1>9, ConcatProperties
    <2> HIDE DEF c
    <2> QED BY <1>8, <1>9, <2>1
  <1> HIDE DEF c
  <1>11. c = FirstThree(tokens)
    <2>1. c = [i \in 1 .. 3 |-> c[i]]
      BY <1>10
    <2>2. \A i \in 1 .. 3 : c[i] = tokens[i]
      BY <1>10
    <2> QED BY <2>1, <2>2 DEF FirstThree
  <1>12. c # <<>>
    BY <1>10
  <1> QED BY <1>7, <1>11, <1>12 DEF c, front, back

\* Without its query a URL is of the same host.
LEMMA HostedKey ==
  ASSUME NEW url, NEW host, Hosted(Urls[url], host), NEW grouping
  PROVE  Hosted(UrlKey(url, grouping), host)
PROOF
  <1> DEFINE tokens == Urls[url]
             n == At(tokens, "?")
  <1>1. tokens \in Seq(Tokens) /\ Len(tokens) \in Nat /\ Len(tokens) >= 3
    BY DEF Hosted
  <1>2. n = 0 \/ n \in 4 .. Len(tokens)
    BY <1>1, AtIs DEF Hosted, Stops
  <1>3. UrlKey(url, grouping) = tokens \/ (n > 0 /\ UrlKey(url, grouping) = SubSeq(tokens, 1, n - 1))
    BY DEF UrlKey, UpTo
  <1>4. CASE n \in 4 .. Len(tokens) /\ UrlKey(url, grouping) = SubSeq(tokens, 1, n - 1)
    <2> DEFINE key == SubSeq(tokens, 1, n - 1)
    <2> HIDE DEF n
    <2>1. key \in Seq(Tokens) /\ Len(key) = n - 1 /\ \A i \in 1 .. n - 1 : key[i] = tokens[i]
      BY <1>1, <1>4
    <2> HIDE DEF key
    <2>2. Hosted(key, host)
      BY <1>1, <1>4, <2>1 DEF Hosted
    <2> QED BY <1>4, <2>2 DEF key
  <1> QED BY <1>2, <1>3, <1>4

LEMMA UrlsHosted == Hosted(Urls[4], "a") /\ Hosted(Urls[5], "a") /\ Hosted(Urls[6], "a") /\ Hosted(Urls[7], "b")
PROOF
  <1>1. Hosted(Urls[4], "a")
    BY DEF Hosted, Urls, Tokens, Stops
  <1>2. Hosted(Urls[5], "a")
    BY DEF Hosted, Urls, Tokens, Stops
  <1>3. Hosted(Urls[6], "a")
    BY DEF Hosted, Urls, Tokens, Stops
  <1>4. Hosted(Urls[7], "b")
    BY DEF Hosted, Urls, Tokens, Stops
  <1> QED BY <1>1, <1>2, <1>3, <1>4

\* A key of the one host is related to a page just when the page is of that host.
LEMMA RelationIs ==
  ASSUME NEW key, Hosted(key, "a"), NEW context, context.url \in {4, 7}, NEW grouping
  PROVE  /\ ~Certain(context) => Relation(key, context, grouping) = "unknown"
         /\ Certain(context) =>
              (Relation(key, context, grouping) \in {"navigation_url", "same_origin"} <=> SameSite(key, context.url))
PROOF
  <1> DEFINE page == context.url
             pageKey == UrlKey(page, grouping)
  <1>1. PICK host \in {"a", "b"} : Hosted(Urls[page], host)
    BY UrlsHosted
  <1>2. Hosted(pageKey, host)
    BY <1>1, HostedKey
  <1>3. At(key, "chrome") # 1
    BY AtIs DEF Hosted
  <1>4. Origin(key) = FirstThree(key) /\ Origin(key) # <<>> /\ Origin(Urls[page]) = FirstThree(Urls[page])
    BY <1>1, HostedOrigin
  <1>5. SameSite(key, page) <=> FirstThree(key) = FirstThree(Urls[page])
    BY <1>1, HostedSite DEF SameSite
  <1>6. key = pageKey => FirstThree(key) = FirstThree(Urls[page])
    BY <1>1, <1>2 DEF Hosted, FirstThree
  <1> HIDE DEF pageKey
  <1> QED BY <1>3, <1>4, <1>5, <1>6 DEF Relation, pageKey
-------------------------------------------------------------------------------
\* Of two arguments a slice has the URL of the likelier.
LEMMA SelectedIs ==
  ASSUME NEW s, NEW a, NEW b, s.args = {a, b}, Priority(a) \in Nat, Priority(b) \in Nat,
         Priority(a) < 99, Priority(a) < Priority(b), a.url \in Int
  PROVE  SelectedUrl(s) = a.url
PROOF
  <1> DEFINE own  == {x \in s.args : IsUrl(x)}
             best == {x \in own : \A y \in own : Priority(x) <= Priority(y)}
  <1>1. IsUrl(a) /\ own \subseteq {a, b}
    BY DEF IsUrl
  <1>2. best = {a}
    BY <1>1
  <1>3. SelectedUrl(s) = IF own = {} THEN None ELSE Min({x.url : x \in best})
    BY DEF SelectedUrl
  <1>4. {x.url : x \in best} = {a.url} /\ own # {}
    BY <1>1, <1>2
  <1> HIDE DEF own, best
  <1> DEFINE u == a.url
  <1>5. SelectedUrl(s) = Min({u}) /\ u \in Int
    BY <1>3, <1>4
  <1> HIDE DEF u
  <1>6. SelectedUrl(s) = u
    BY <1>5, OneExtreme
  <1> QED BY <1>6 DEF u

\* The resources of the traces the summary is asked about are of one host.
LEMMA SummaryUrls ==
  ASSUME TraceInv, purpose = "resource_summary", NEW w, NEW i \in Candidates(trace, w, 0)
  PROVE  SelectedUrl(trace[i]) \in {4, 5, 6}
PROOF
  <1> DEFINE s == trace[i]
  <1>1. i \in DOMAIN trace /\ s.name \in ResourceNames \ NotResources
    BY DEF Candidates
  <1>2. Kind(s.track, s.name, s.args) \in
         {Kind(4, "ScheduledResourceRequest", {Arg("url", 4), Arg("site_url", 7)}),
          Kind(3, "Cache::GetResource", {Arg("request.0.url", 6), Arg("src", 1)}),
          Kind(1, "RunTask", {Arg("frame.url", 4)}),
          Kind(6, "URLLoader::OnReceiveResponse", {Arg("some_url", 5), Arg("http_status", None)})}
    BY <1>1, SliceFacts DEF Kinds
  <1>3. \/ s.args = {Arg("url", 4), Arg("site_url", 7)}
        \/ s.args = {Arg("request.0.url", 6), Arg("src", 1)}
        \/ s.args = {Arg("some_url", 5), Arg("http_status", None)}
        \/ s.name = "RunTask"
    BY <1>2 DEF Kind
  <1> HIDE DEF s
  <1>4. s.name # "RunTask"
    BY <1>1 DEF ResourceNames
  <1> DEFINE a == Arg("url", 4)
             b == Arg("site_url", 7)
             c == Arg("request.0.url", 6)
             d == Arg("src", 1)
             e == Arg("some_url", 5)
             f == Arg("http_status", None)
  <1>5. /\ a.key = "url" /\ a.url = 4 /\ b.key = "site_url" /\ b.url = 7
        /\ c.key = "request.0.url" /\ c.url = 6 /\ d.key = "src" /\ d.url = 1
        /\ e.key = "some_url" /\ e.url = 5 /\ f.key = "http_status" /\ f.url = None
    BY ArgUrlOf
  <1>6. None # 3
    <2>1. \A u \in Int : u # None
      BY NullIsNoTool
    <2> QED BY <2>1
  <1> HIDE DEF a, b, c, d, e, f
  <1>7. CASE s.args = {a, b}
    <2>1. Priority(a) = 1 /\ Priority(b) = 8
      BY <1>5 DEF Priority, KeyPriority, Unisolated
    <2> QED BY <1>5, <1>7, <2>1, SelectedIs DEF s
  <1>8. CASE s.args = {c, d}
    <2>1. Priority(c) = 3 /\ Priority(d) = 99
      BY <1>5 DEF Priority, KeyPriority, Unisolated
    <2> QED BY <1>5, <1>8, <2>1, SelectedIs DEF s
  <1>9. CASE s.args = {e, f}
    <2>1. Priority(e) = 5 /\ Priority(f) = 99
      BY <1>5, <1>6 DEF Priority, KeyPriority, Unisolated
    <2> QED BY <1>5, <1>9, <2>1, SelectedIs DEF s
  <1> QED BY <1>3, <1>4, <1>7, <1>8, <1>9 DEF a, b, c, d, e, f

LEMMA SummaryKeys ==
  ASSUME TraceInv, purpose = "resource_summary", NEW w, NEW i \in Candidates(trace, w, 0), NEW grouping
  PROVE  Hosted(KeyOf(trace, i, grouping), "a")
PROOF
  <1> DEFINE u == SelectedUrl(trace[i])
  <1>1. u \in {4, 5, 6}
    BY SummaryUrls
  <1> HIDE DEF u
  <1>2. Hosted(Urls[u], "a")
    BY <1>1, UrlsHosted
  <1> QED BY <1>2, HostedKey DEF KeyOf, u

\* A row of the summary relates its URL and its processes to the page that was loading.
Relates(r, w, q, k) ==
  LET context == Context(q, navs)
      targets == Targets(trace, w, context)
  IN  /\ r.key = k /\ r.relation = Relation(k, context, q.grouping)
      /\ \E here \in BOOLEAN : r.renderer = RendererRelation(r.upids, here, targets)

LEMMA SummaryRowRelates ==
  ASSUME NEW w, NEW q, NEW r \in SummaryRows(trace, navs, w, q)
  PROVE  \E i \in Candidates(trace, w, 0) : Relates(r, w, q, KeyOf(trace, i, q.grouping))
PROOF
  <1> DEFINE rows    == Candidates(trace, w, 0)
             context == Context(q, navs)
             targets == Targets(trace, w, context)
             key(i)  == UrlKey(SelectedUrl(trace[i]), q.grouping)
             of(k)   == {i \in rows : key(i) = k}
             lap(i)  == ResourceOverlap(trace[i], w)
             upids(k) == {ProcessOf(trace[i].track) : i \in of(k)} \ {None}
             here(k) == \E i \in of(k) : InRenderer(trace[i].track)
             a       == context.status
             b(k)    == Relation(k, context, q.grouping)
             c(k)    == RendererRelation(upids(k), here(k), targets)
             d(k)    == Cardinality({i \in of(k) : trace[i].dur < 0})
             e(k)    == SumFunction([i \in of(k) |-> lap(i)])
             f(k)    == Max({ResourceEnd(trace[i], w) : i \in of(k)}) - Min({OverlapStart(trace[i], w) : i \in of(k)})
             g(k)    == Min({OverlapStart(trace[i], w) : i \in of(k)})
             h(k)    == ByOverlap(trace, w, {i \in of(k) : trace[i].name \notin NotDetailed})
             count(k)   == Cardinality(of(k))
             max(k)     == Max({lap(i) : i \in of(k)})
             example(k) == ByOverlap(trace, w, of(k))
             row(k)  == [key |-> k, context |-> a, relation |-> b(k), upids |-> upids(k), renderer |-> c(k),
                         count |-> count(k), unended |-> d(k), max |-> max(k), summed |-> e(k), span |-> f(k),
                         first |-> g(k), example |-> example(k), detail |-> h(k)]
  <1>1. SummaryRows(trace, navs, w, q) = {s \in {row(key(i)) : i \in rows} : s.max >= q.min}
    BY DEF SummaryRows
  <1>2. \A k : row(k).key = k /\ row(k).relation = b(k) /\ row(k).upids = upids(k) /\ row(k).renderer = c(k)
    <2> HIDE DEF a, b, c, d, e, f, g, h, count, max, example, upids
    <2> QED OBVIOUS
  <1>3. PICK i \in rows : r = row(key(i))
    <2> HIDE DEF row, key, rows
    <2> QED BY <1>1
  <1> DEFINE k == key(i)
  <1>4. k = KeyOf(trace, i, q.grouping)
    BY DEF KeyOf
  <1>5. here(k) \in BOOLEAN
    OBVIOUS
  <1>6. r.key = k /\ r.relation = b(k) /\ r.upids = upids(k) /\ r.renderer = c(k)
    <2> HIDE DEF k, row, b, c, upids
    <2>1. r = row(k)
      BY <1>3 DEF k
    <2> QED BY <1>2, <2>1
  <1>7. r.renderer = RendererRelation(r.upids, here(k), targets)
    <2>1. c(k) = RendererRelation(upids(k), here(k), targets)
      OBVIOUS
    <2> HIDE DEF upids, here, c, targets, k
    <2> QED BY <1>6, <2>1
  <1>8. Relates(r, w, q, k)
    <2> HIDE DEF here, k
    <2> QED BY <1>5, <1>6, <1>7 DEF Relates
  <1> QED BY <1>4, <1>8

\* The page loads the query takes to be under way in the window are those that were.
LEMMA LoadsUnderWay ==
  ASSUME TraceInv, NEW q, q.from \in {None, 1, 2}, q.to \in {None, 1, 2}, Phase(q) = None,
         q.from # None /\ q.to # None => q.from < q.to
  PROVE  RawWindowLoads(q, navs) = UnderWay(q)
PROOF
  <1> DEFINE reached(n) == {navs[n].fcp, navs[n].dcl, navs[n].load} \ {None}
  <1>0. TraceEnd \in Nat /\ TraceEnd >= 3 /\ None \notin Int
    BY TraceAssumption, AnalysesAssumption
  <1>1. Asked(q) = {t \in 0 .. TraceEnd - 1 : (q.from = None \/ q.from <= t) /\ (q.to = None \/ t < q.to)}
    BY DEF Asked
  <1>2. UnderWay(q) = {n \in DOMAIN navs : \E t \in Asked(q) : navs[n].start <= t /\ (reached(n) = {} \/ \E m \in reached(n) : t < m)}
    BY DEF UnderWay
  <1>3. ASSUME NEW n \in DOMAIN navs
        PROVE  n \in RawWindowLoads(q, navs) <=> n \in UnderWay(q)
    <2> DEFINE start == navs[n].start
               R == reached(n)
               end == ObservedEnd(navs[n])
    <2>1. start \in 0 .. TraceEnd - 1 /\ R \subseteq {1, 2, 3} /\ \A m \in R : m > start
      BY DEF TraceInv, LoadsTyped, LoadTyped
    <2>2. R = Milestones(navs[n])
      BY DEF Milestones
    <2>3. (R = {} /\ end = TraceEnd) \/ (R # {} /\ end \in R /\ \A m \in R : m <= end)
      <3>1. IsFiniteSet(R) /\ R \subseteq Int
        <4> HIDE DEF R
        <4>1. IsFiniteSet(0 .. TraceEnd)
          BY <1>0, FS_Interval
        <4>2. R \subseteq 0 .. TraceEnd /\ R \subseteq Int
          BY <1>0, <2>1
        <4> QED BY <4>1, <4>2, FS_Subset
      <3>2. end = IF R = {} THEN TraceEnd ELSE Max(R)
        BY <2>2 DEF ObservedEnd
      <3> HIDE DEF R, end
      <3> QED BY <3>1, <3>2, Extremes
    <2>4. n \in RawWindowLoads(q, navs) <=> (q.to = None \/ start < q.to) /\ (q.from = None \/ end > q.from)
      BY DEF RawWindowLoads
    <2>5. n \in UnderWay(q) <=> \E t \in Asked(q) : start <= t /\ (R = {} \/ \E m \in R : t < m)
      BY <1>2
    <2> HIDE DEF start, R, end
    <2>6. ASSUME q.to = None \/ start < q.to, q.from = None \/ end > q.from
          PROVE  \E t \in Asked(q) : start <= t /\ (R = {} \/ \E m \in R : t < m)
      <3> DEFINE t == IF q.from = None THEN start ELSE Larger(start, q.from)
      <3>1. t \in 0 .. TraceEnd - 1 /\ start <= t /\ (q.from = None \/ q.from <= t) /\ (q.to = None \/ t < q.to)
        BY <1>0, <2>1, <2>6 DEF Larger
      <3>2. R = {} \/ t < end
        BY <1>0, <2>1, <2>3, <2>6 DEF Larger
      <3> HIDE DEF t
      <3> QED BY <1>1, <3>1, <3>2, <2>3
    <2>7. ASSUME NEW t \in Asked(q), start <= t, R = {} \/ \E m \in R : t < m
          PROVE  (q.to = None \/ start < q.to) /\ (q.from = None \/ end > q.from)
      <3>1. t \in 0 .. TraceEnd - 1 /\ (q.from = None \/ q.from <= t) /\ (q.to = None \/ t < q.to)
        BY <1>1
      <3>2. start \in Int /\ t \in Int
        BY <2>1, <3>1
      <3>3. CASE R = {}
        <4>1. end = TraceEnd
          BY <2>3, <3>3
        <4> QED BY <1>0, <2>7, <3>1, <3>2, <4>1
      <3>4. CASE R # {}
        <4>1. PICK m \in R : t < m
          BY <2>7, <3>4
        <4>2. end \in R /\ m <= end
          BY <2>3, <3>4
        <4>3. m \in Int /\ end \in Int
          BY <2>1, <4>2
        <4>4. t < end
          BY <3>2, <4>1, <4>2, <4>3
        <4> QED BY <2>7, <3>1, <3>2, <4>3, <4>4
      <3> QED BY <3>3, <3>4
    <2> QED BY <2>4, <2>5, <2>6, <2>7
  <1> HIDE DEF reached
  <1> QED BY <1>2, <1>3 DEF RawWindowLoads
-------------------------------------------------------------------------------
\* A slice that touches the window was running in it, or lasted no time at all.
LEMMA TouchesShares ==
  ASSUME TraceInv, NEW q \in Plain, NEW i \in DOMAIN trace,
         ~Window(q, navs).empty, StartsBefore(trace[i], Window(q, navs)), Phase(q) = None,
         \/ Window(q, navs).start = None
         \/ (IF trace[i].dur >= 0 THEN End(trace[i]) ELSE TraceEnd) > Window(q, navs).start
  PROVE  Shared(i, q) > 0 \/ trace[i].dur = 0
PROOF
  <1> SUFFICES ASSUME trace[i].dur # 0 PROVE Shared(i, q) > 0
    OBVIOUS
  <1> DEFINE w == Window(q, navs)
             s == trace[i]
             end == IF s.dur >= 0 THEN End(s) ELSE TraceEnd
             t == IF w.start = None THEN s.ts ELSE Larger(s.ts, w.start)
  <1>1. /\ s.ts \in Nat /\ s.dur \in Int /\ s.ts <= TraceEnd - 1 /\ TraceEnd \in Nat /\ End(s) \in Int
        /\ s.dur = Incomplete \/ (s.dur >= 0 /\ End(s) <= TraceEnd)
    BY SliceFacts
  <1>2. w.start \in Int \cup {None} /\ w.end \in Int \cup {None} /\ (w.end # None => w.end <= TraceEnd)
    BY WindowIsTyped DEF WindowTyped
  <1>3. w.start # None /\ w.end # None => w.start < w.end
    <2> DEFINE start == q.from
               to == q.to
    <2>1. q.from \in {None, -1, 1, 2} /\ q.to \in {None, 1, 2}
      BY DEF Plain, QuestionSet
    <2>2. w = IF None \notin {q.from, q.to} /\ q.to <= q.from THEN Closed
              ELSE [empty |-> FALSE, start |-> q.from, end |-> q.to]
      BY DEF Window
    <2>3. w # Closed
      BY DEF Closed
    <2>4. w.start = q.from /\ w.end = q.to /\ ~(None \notin {q.from, q.to} /\ q.to <= q.from)
      <3> HIDE DEF w
      <3> QED BY <2>2, <2>3
    <2> QED BY <2>1, <2>4
  <1>4. /\ w.end = None \/ s.ts < w.end
        /\ w.start = None \/ end > w.start
        /\ ~w.empty
    BY DEF StartsBefore
  <1>5. s.ts < end /\ end <= TraceEnd /\ end \in Int
    BY <1>1 DEF End, Incomplete
  <1> HIDE DEF w, end
  <1>6. /\ t \in Nat /\ s.ts <= t /\ t < end
        /\ w.start = None \/ w.start <= t
        /\ w.end = None \/ t < w.end
    <2>1. CASE w.start = None
      BY <2>1, <1>1, <1>4, <1>5
    <2>2. CASE w.start # None
      <3>1. w.start \in Int
        BY <2>2, <1>2
      <3>2. w.end = None \/ (w.end \in Int /\ s.ts < w.end /\ w.start < w.end)
        BY <2>2, <1>2, <1>3, <1>4
      <3> QED BY <2>2, <3>1, <3>2, <1>1, <1>4, <1>5 DEF Larger
    <2> QED BY <2>1, <2>2
  <1> HIDE DEF t
  <1>7. t \in 0 .. TraceEnd - 1
    BY <1>1, <1>5, <1>6
  <1>8. t \in Asked(q)
    BY <1>4, <1>6, <1>7, AskedIs DEF InWindow, w
  <1>9. t \in Instants(s)
    <2>1. CASE s.dur = Incomplete
      BY <2>1, <1>1, <1>5, <1>6 DEF Instants, end, Incomplete
    <2>2. CASE s.dur # Incomplete
      BY <2>2, <1>1, <1>5, <1>6 DEF Instants, end, Incomplete
    <2> QED BY <2>1, <2>2
  <1> DEFINE S == Instants(s) \cap Asked(q)
  <1>10. IsFiniteSet(S) /\ S # {}
    <2>1. Asked(q) \subseteq 0 .. TraceEnd - 1
      BY DEF Asked
    <2>2. IsFiniteSet(0 .. TraceEnd - 1)
      BY <1>1, FS_Interval
    <2> QED BY <2>1, <2>2, <1>8, <1>9, FS_Subset
  <1>11. Cardinality(S) \in Nat /\ Cardinality(S) # 0
    <2> HIDE DEF S
    <2> QED BY <1>10, FS_CardinalityType, FS_EmptySet
  <1>12. Shared(i, q) = Cardinality(S)
    BY DEF Shared
  <1> HIDE DEF S
  <1> QED BY <1>11, <1>12

\* The page a row is related to, and what makes its renderer certain.
LEMMA RelationsAreTrue == TraceInv /\ AskedInv => RelationTrue
PROOF
  <1> DEFINE q == asked.q
             w == Window(q, navs)
             loads == UnderWay(q)
             context == Context(q, navs)
             targets == Targets(trace, w, context)
  <1> SUFFICES ASSUME TraceInv, AskedInv, asked.tool = "resource_summary", Phase(q) = None,
                      {q.from, q.to} # {None}, NEW r \in answer.rows
               PROVE  IF Cardinality(loads) # 1 THEN r.relation = "unknown" /\ r.renderer.is = "unknown"
                      ELSE LET page == navs[CHOOSE n \in loads : TRUE].url IN
                           /\ (r.relation \in {"navigation_url", "same_origin"}) = SameSite(r.key, page)
                           /\ r.renderer.confidence = "high" =>
                                \E i \in DOMAIN trace : /\ \E a \in trace[i].args : a.url = page
                                                        /\ ThreadProcess[trace[i].track] \in r.upids
                                                        /\ Shared(i, q) > 0 \/ trace[i].dur = 0
    BY DEF RelationTrue
  <1>1. purpose = "resource_summary" /\ asked.tool # None /\ q \in Questions(purpose)
    BY NullIsNoTool DEF AskedInv, Tools
  <1>2. q \in Plain
    <2>1. purpose \in Tools \ {"resource_pipeline"}
      BY <1>1 DEF Tools
    <2> QED BY <1>1, <2>1, QuestionsPlain
  <1>3. ResourcesAllowed(q) /\ r \in SummaryRows(trace, navs, w, q)
    <2>1. Answered("resource_summary", q, trace, navs, answer)
      BY <1>1 DEF AskedInv
    <2>2. NoAnswer.rows = {}
      BY DEF NoAnswer
    <2>3. Permitted("resource_summary", q) /\ answer.rows \in Tops(Ranked("resource_summary", q, trace, navs), RowsUpTo(q.limit, Default("resource_summary")))
      BY <2>1, <2>2 DEF Answered
    <2>4. answer.rows \subseteq DOMAIN Ranked("resource_summary", q, trace, navs)
      BY <2>3, OnlyTheirRows
    <2>5. Ranked("resource_summary", q, trace, navs) = SummaryRank(SummaryRows(trace, navs, w, q))
      BY DEF Ranked
    <2>6. DOMAIN SummaryRank(SummaryRows(trace, navs, w, q)) = SummaryRows(trace, navs, w, q)
      BY DEF SummaryRank
    <2> QED BY <2>3, <2>4, <2>5, <2>6 DEF Permitted
  <1>4. PICK i \in Candidates(trace, w, 0) : Relates(r, w, q, KeyOf(trace, i, q.grouping))
    BY <1>3, SummaryRowRelates
  <1>5. /\ Hosted(r.key, "a") /\ r.relation = Relation(r.key, context, q.grouping)
        /\ \E here \in BOOLEAN : r.renderer = RendererRelation(r.upids, here, targets)
    BY <1>1, <1>4, SummaryKeys DEF Relates
  <1>6. q.from \in {None, 1, 2} /\ q.to \in {None, 1, 2} /\ (q.from # None /\ q.to # None => q.from < q.to)
    <2>1. q.from \in {None, -1, 1, 2} /\ q.to \in {None, 1, 2}
      BY <1>2 DEF Plain, QuestionSet
    <2>2. -1 \notin {q.from, q.to} /\ (None \notin {q.from, q.to} => q.to > q.from)
      BY <1>3 DEF ResourcesAllowed, WindowAllowed
    <2>3. q.from \in {None, 1, 2}
      BY <2>1, <2>2
    <2>4. q.from # None /\ q.to # None => q.from < q.to
      BY <2>2, <2>1
    <2> QED BY <2>1, <2>3, <2>4
  <1>7. RawWindowLoads(q, navs) = loads
    BY <1>6, LoadsUnderWay
  <1> DEFINE latest == IF loads = {} THEN None ELSE navs[Max(loads)].url
  <1>8. context = [status |-> IF loads = {} THEN "none" ELSE IF Cardinality(loads) = 1 THEN "single" ELSE "ambiguous",
                   count |-> Cardinality(loads), url |-> latest]
    <2>1. ~(q.from = None /\ q.to = None)
      OBVIOUS
    <2> QED BY <1>7, <2>1 DEF Context
  <1>9. loads \subseteq DOMAIN navs /\ \A n \in DOMAIN navs : n \in Nat /\ navs[n].url \in {4, 7}
    <2>1. navs \in Seq(Load)
      BY DEF TraceInv
    <2>2. \A n \in DOMAIN navs : n \in Nat /\ navs[n] \in Load
      BY <2>1
    <2> QED BY <2>2 DEF UnderWay, Load
  <1>10. IsFiniteSet(loads)
    <2>1. DOMAIN navs = 1 .. Len(navs) /\ Len(navs) \in Nat
      BY DEF TraceInv
    <2>2. IsFiniteSet(DOMAIN navs)
      BY <2>1, FS_Interval
    <2> QED BY <1>9, <2>2, FS_Subset
  <1> HIDE DEF q, w, loads, targets
  <1>11. CASE Cardinality(loads) # 1
    <2>1. ~Certain(context)
      <3>1. context.status \in {"none", "ambiguous"}
        BY <1>8, <1>11
      <3> QED BY <3>1 DEF Certain
    <2>2. r.relation = "unknown"
      <3>1. At(r.key, "chrome") # 1
        BY <1>5, AtIs DEF Hosted
      <3> QED BY <1>5, <2>1, <3>1 DEF Relation
    <2>3. targets.upids = {}
      BY <2>1 DEF Targets, targets
    <2>4. r.renderer.is = "unknown"
      BY <1>5, <2>3 DEF RendererRelation
    <2> QED BY <1>11, <2>2, <2>4
  <1>12. CASE Cardinality(loads) = 1
    <2>1. PICK n : loads = {n}
      BY <1>10, <1>12, FS_Singleton
    <2>2. n \in Nat /\ navs[n].url \in {4, 7} /\ (CHOOSE m \in loads : TRUE) = n
      BY <1>9, <2>1
    <2> DEFINE page == navs[n].url
    <2>3. Max(loads) = n
      BY <2>1, <2>2, OneExtreme
    <2>4. context.status = "single" /\ context.url = page
      BY <1>8, <1>12, <2>1, <2>3
    <2>5. page # None /\ page \in {4, 7}
      <3>1. \A u \in Int : u # None
        BY NullIsNoTool
      <3> QED BY <2>2, <3>1
    <2> HIDE DEF page, context
    <2>6. Certain(context)
      BY <2>4, <2>5 DEF Certain
    <2>7. (r.relation \in {"navigation_url", "same_origin"}) = SameSite(r.key, page)
      <3>1. r.relation \in {"navigation_url", "same_origin"} <=> SameSite(r.key, page)
        BY <1>5, <2>4, <2>5, <2>6, RelationIs
      <3>2. SameSite(r.key, page) \in BOOLEAN
        BY DEF SameSite
      <3> QED BY <3>1, <3>2
    <2>8. ASSUME r.renderer.confidence = "high"
          PROVE  \E j \in DOMAIN trace : /\ \E a \in trace[j].args : a.url = page
                                         /\ ThreadProcess[trace[j].track] \in r.upids
                                         /\ Shared(j, q) > 0 \/ trace[j].dur = 0
      <3>1. targets.source = "renderer_navigation_url_slice" /\ r.upids \cap targets.upids # {}
        BY <1>5, <2>8 DEF RendererRelation
      <3>2. targets.upids = SaysItLoads(trace, w, context)
        <4>1. SaysItLoads(trace, w, context) = {} =>
                targets.upids = {} \/ targets.source = "resource_candidate_url_slice"
          BY <2>6 DEF targets, Targets
        <4>2. SaysItLoads(trace, w, context) # {} => targets.upids = SaysItLoads(trace, w, context)
          BY <2>6 DEF targets, Targets
        <4> QED BY <3>1, <4>1, <4>2
      <3>3. PICK j \in DOMAIN trace :
              /\ ThreadProcess[trace[j].track] \in r.upids
              /\ \E a \in trace[j].args : a.url = context.url /\ IsUrl(a)
              /\ ~w.empty /\ StartsBefore(trace[j], w)
              /\ w.start = None \/ (IF trace[j].dur >= 0 THEN End(trace[j]) ELSE TraceEnd) > w.start
        BY <3>1, <3>2 DEF SaysItLoads
      <3>4. Shared(j, q) > 0 \/ trace[j].dur = 0
        BY <3>3, <1>2, TouchesShares DEF w
      <3> QED BY <2>4, <3>3, <3>4
    <2>9. navs[CHOOSE m \in loads : TRUE].url = page
      BY <2>2 DEF page
    <2> QED BY <1>12, <2>7, <2>8, <2>9
  <1> QED BY <1>11, <1>12
-------------------------------------------------------------------------------
\* What is recorded is a trace, and what is answered comes of the rows of the tool's query
\* (server/mod.rs, sql_templates/), in a window that a first question has too: the inductive
\* invariant of the analyses.
THEOREM AnalysesInvariant == Spec => [](TraceInv /\ AskedInv /\ WindowInv)
PROOF
  <1>1. Init => TraceInv /\ AskedInv /\ WindowInv
    BY StartsRight DEF Init, Asking, WindowInv
  <1>2. (TraceInv /\ AskedInv /\ WindowInv) /\ [Next]_vars => (TraceInv /\ AskedInv /\ WindowInv)'
    BY TraceKept, AskedKept, WindowKept
  <1> QED BY <1>1, <1>2, PTL DEF Spec

\* chrome_main_thread.rs:47, chrome_resources.rs:23: in whatever trace, a row has the time
\* its slice was running in the window that was asked about, and none of those is left out.
THEOREM OverlapsAlwaysExact == Spec => []OverlapExact
PROOF
  <1>1. TraceInv /\ AskedInv => OverlapExact
    BY OverlapsAreExact
  <1> QED BY <1>1, AnalysesInvariant, PTL

\* slice_descendants.rs:119: a row of the breakdown has the time its slices ran without their
\* children, whatever the roots, the depth and the nesting, and the rest is counted.
THEOREM DescendantsAlwaysExact == Spec => []DescendantsExact
PROOF
  <1>1. TraceInv /\ AskedInv => DescendantsExact
    BY DescendantsAreThose
  <1> QED BY <1>1, AnalysesInvariant, PTL

\* chrome_scripts.rs:155, CHANGELOG.md:55: whatever the scripts and the runs of rendering
\* within them, a script is charged with the work it is the nearest cause of and with no
\* other, and the pipelines are together charged with no more than there is.
THEOREM RenderWorkPaidOnce == Spec => []RenderWorkOnce
PROOF
  <1>1. TraceInv /\ AskedInv /\ WindowInv => RenderWorkOnce
    BY WorkIsPaidOnce
  <1> QED BY <1>1, AnalysesInvariant, PTL

\* chrome_resources.rs:380-485, 1270: a resource is related to a page only when that page and
\* no other was being loaded in the window, to its origin just when it is of it, and to a
\* renderer with high confidence only when that renderer named the page in the window.
THEOREM RelationsAreAlwaysTrue == Spec => []RelationTrue
PROOF
  <1>1. TraceInv /\ AskedInv => RelationTrue
    BY RelationsAreTrue
  <1> QED BY <1>1, AnalysesInvariant, PTL

\* server/mod.rs:919, :1014: the example of a resource leads to that resource.
THEOREM DrillDownFinds == Spec => DrillDown
PROOF
  <1>1. TraceInv /\ AskedInv /\ [Next]_vars => [Drill]_vars
    BY DrillStep
  <1>2. Spec => [][Drill]_vars
    BY <1>1, AnalysesInvariant, PTL DEF Spec
  <1> QED BY <1>2 DEF Drill, DrillDown
-------------------------------------------------------------------------------
\* Measures of some slices that are natural numbers have a total and a largest one that are.
LEMMA Totals ==
  ASSUME NEW S, IsFiniteSet(S), NEW f, f = [x \in S |-> f[x]], \A x \in S : f[x] \in Nat
  PROVE  /\ SumFunction(f) \in Nat
         /\ S # {} => Max({f[x] : x \in S}) \in Nat
PROOF
  <1>1. SumOver(f, S) = SumFunction(f)
    BY DEF SumOver
  <1>2. SumOver(f, S) \in Int /\ SumOver(f, {}) = 0
    <2>1. \A x \in S : f[x] \in Int
      OBVIOUS
    <2> QED BY <2>1, SumOverRules
  <1>3. SumOver(f, {}) <= SumOver(f, S)
    <2>1. {} \in SUBSET S
      OBVIOUS
    <2> QED BY <2>1, SumGrows
  <1>4. SumFunction(f) \in Nat
    BY <1>1, <1>2, <1>3
  <1>5. ASSUME S # {} PROVE Max({f[x] : x \in S}) \in Nat
    <2> DEFINE V == {f[x] : x \in S}
    <2>1. IsFiniteSet(V)
      BY Images
    <2>2. V \subseteq Nat /\ V \subseteq Int /\ V # {}
      BY <1>5
    <2> HIDE DEF V
    <2>3. Max(V) \in V
      BY <2>1, <2>2, Extremes
    <2> QED BY <2>2, <2>3 DEF V
  <1> QED BY <1>4, <1>5

\* A window that is not empty ends after it starts.
LEMMA WindowOpens ==
  ASSUME TraceInv, NEW q \in Plain,
         ~Window(q, navs).empty, Window(q, navs).start # None, Window(q, navs).end # None
  PROVE  Window(q, navs).start < Window(q, navs).end
PROOF
  <1> DEFINE w == Window(q, navs)
             phase == Phase(q)
             nav   == navs[Latest(q, navs)]
             from  == nav[Phases[phase][1]]
             to    == nav[Phases[phase][2]]
             start == IF phase = None THEN q.from ELSE Later(from, q.from)
             end   == IF phase = None THEN q.to ELSE Earlier(to, q.to)
  <1>1. w = IF phase # None /\ (Matching(q, navs) = {} \/ None \in {from, to}) THEN Closed
            ELSE IF None \notin {start, end} /\ end <= start THEN Closed
            ELSE [empty |-> FALSE, start |-> start, end |-> end]
    BY DEF Window
  <1>2. WindowTyped(w)
    BY WindowIsTyped
  <1>3. ~w.empty /\ w.start # None /\ w.end # None
    OBVIOUS
  <1>4. Closed.empty = TRUE
    BY DEF Closed
  <1> HIDE DEF w, phase, from, to, start, end
  <1>5. w = [empty |-> FALSE, start |-> start, end |-> end] /\ ~(None \notin {start, end} /\ end <= start)
    BY <1>1, <1>3, <1>4
  <1>6. w.start = start /\ w.end = end
    BY <1>5
  <1>7. start \in Int /\ end \in Int /\ ~(end <= start)
    BY <1>2, <1>3, <1>5, <1>6 DEF WindowTyped
  <1>8. w.start < w.end
    BY <1>6, <1>7
  <1> QED BY <1>8 DEF w

\* A slice that ran and touches the window was running in it.
LEMMA TouchedHasPart ==
  ASSUME TraceInv, NEW q \in Plain, NEW i \in DOMAIN trace, trace[i].dur > 0, TaskTouches(trace[i], Window(q, navs))
  PROVE  TaskOverlap(trace[i], Window(q, navs)) \in Nat
PROOF
  <1> DEFINE w == Window(q, navs)
             x == w.start
             y == w.end
             a == trace[i].ts
             b == End(trace[i])
  <1>1. a \in Int /\ b \in Int /\ trace[i].dur \in Int /\ b = a + trace[i].dur
    BY SliceFacts DEF End
  <1>2. x \in Int \cup {None} /\ y \in Int \cup {None} /\ None \notin Int
    BY WindowIsTyped, NullIsNoTool DEF WindowTyped
  <1>3. ~w.empty /\ (y = None \/ a < y) /\ (x = None \/ b > x)
    BY DEF TaskTouches, StartsBefore
  <1>4. x # None /\ y # None => x < y
    BY <1>3, WindowOpens
  <1>5. TaskOverlap(trace[i], w) = IF x = None /\ y = None THEN trace[i].dur ELSE Earlier(b, y) - Later(a, x)
    BY DEF TaskOverlap, TaskEnd, OverlapStart
  <1>6. trace[i].dur > 0
    OBVIOUS
  <1> HIDE DEF x, y, a, b, w
  <1>7. Earlier(b, y) - Later(a, x) \in Nat
    BY <1>1, <1>2, <1>3, <1>4, <1>6 DEF Earlier, Later, Smaller, Larger
  <1>8. TaskOverlap(trace[i], w) \in Nat
    BY <1>1, <1>5, <1>6, <1>7
  <1> QED BY <1>8 DEF w

\* What scripts made the renderer do took time.
LEMMA RollupIsTime ==
  ASSUME TraceInv, NEW q \in Plain, NEW roots \in SUBSET DOMAIN trace, NEW group \in SUBSET roots, NEW names,
         \A r \in roots : trace[r].dur > 0 /\ TaskTouches(trace[r], Window(q, navs))
  PROVE  Rollup(trace, Window(q, navs), group, roots, names) \in Nat
PROOF
  <1> DEFINE S == Owed(group, roots, names)
             f == Times(q)
             g == [i \in S |-> f[i]]
  <1>1. Rollup(trace, Window(q, navs), group, roots, names) = SumFunction(g)
    BY RollupIs DEF SumOver
  <1>2. S \in SUBSET DOMAIN trace
    BY DEF Owed
  <1>3. IsFiniteSet(S)
    BY <1>2, PlacesFinite, FS_Subset
  <1>4. \A i \in S : f[i] \in Nat
    BY <1>2, TimesAre
  <1> HIDE DEF S, f
  <1>5. g = [i \in S |-> g[i]] /\ \A i \in S : g[i] \in Nat
    BY <1>4
  <1> HIDE DEF g
  <1>6. SumFunction(g) \in Nat
    BY <1>3, <1>5, Totals
  <1> QED BY <1>1, <1>6
-------------------------------------------------------------------------------
\* Every measure a row has is a natural number.
Measured(r) == \A m \in Measures \cap DOMAIN r : r[m] \in Nat

LEMMA MinimumIs == \A q \in Plain : q.min \in Nat
PROOF
  <1> TAKE q \in Plain
  <1>1. q.min \in {0, 2}
    BY DEF Plain, QuestionSet
  <1> QED BY <1>1

LEMMA TasksMeasured ==
  ASSUME TraceInv, NEW q \in Plain, NEW r \in MainThreadRows(trace, Window(q, navs), q)
  PROVE  Measured(r)
PROOF
  <1> DEFINE w == Window(q, navs)
  <1>1. PICK i \in DOMAIN trace : /\ TaskOverlap(trace[i], w) >= q.min
                                  /\ r = [id |-> i, overlap |-> TaskOverlap(trace[i], w), dur |-> trace[i].dur]
    BY DEF MainThreadRows
  <1>2. TaskOverlap(trace[i], w) \in Int
    BY WindowIsTyped, OverlapIsTyped
  <1> HIDE DEF w
  <1>3. TaskOverlap(trace[i], w) \in Nat
    BY <1>1, <1>2, MinimumIs
  <1>4. DOMAIN r = {"id", "overlap", "dur"} /\ r.overlap \in Nat
    BY <1>1, <1>3
  <1> QED BY <1>4 DEF Measured, Measures

LEMMA HotspotsMeasured ==
  ASSUME TraceInv, NEW q \in Plain, NEW r \in HotspotRows(trace, Window(q, navs), q)
  PROVE  Measured(r)
PROOF
  <1> DEFINE w == Window(q, navs)
  <1>1. PICK i \in Candidates(trace, w, q.min) :
          r = [id |-> i, overlap |-> ResourceOverlap(trace[i], w), dur |-> trace[i].dur, start |-> trace[i].ts]
    BY DEF HotspotRows
  <1>2. i \in DOMAIN trace /\ ResourceOverlap(trace[i], w) >= q.min
    BY DEF Candidates
  <1>3. ResourceOverlap(trace[i], w) \in Int
    BY <1>2, WindowIsTyped, OverlapIsTyped
  <1> HIDE DEF w
  <1>4. ResourceOverlap(trace[i], w) \in Nat
    BY <1>2, <1>3, MinimumIs
  <1>5. DOMAIN r = {"id", "overlap", "dur", "start"} /\ r.overlap \in Nat
    BY <1>1, <1>4
  <1> QED BY <1>5 DEF Measured, Measures

\* The rows of the scripts: their time, and the three kinds of work they have caused.
LEMMA ScriptsMeasured ==
  ASSUME TraceInv, NEW q \in Plain, NEW r \in ScriptRows(trace, Window(q, navs), q)
  PROVE  Measured(r)
PROOF
  <1> DEFINE w == Window(q, navs)
             scripts     == ScriptSlices(trace, w, q)
             overlap(i)  == TaskOverlap(trace[i], w)
             members(g)  == {i \in scripts : ScriptGroup(trace[i]) = g}
             work(g, k)  == Rollup(trace, w, members(g), scripts, Work[k])
             laps(g)     == [i \in members(g) |-> overlap(i)]
             count(g)    == Cardinality(members(g))
             total(g)    == SumFunction(laps(g))
             max(g)      == Max({overlap(i) : i \in members(g)})
             forced(g)   == work(g, "forced")
             style(g)    == work(g, "style")
             layout(g)   == work(g, "layout")
             first(g)    == Min({OverlapStart(trace[i], w) : i \in members(g)})
             example(g)  == First([i \in members(g) |-> <<overlap(i), trace[i].dur>>])
             row(g)      == [group |-> g, count |-> count(g), total |-> total(g), max |-> max(g),
                             forced |-> forced(g), style |-> style(g), layout |-> layout(g),
                             first |-> first(g), example |-> example(g)]
             group(i)    == ScriptGroup(trace[i])
  <1>1. ScriptRows(trace, w, q) = {s \in {row(group(i)) : i \in scripts} : s.total >= q.min}
    BY DEF ScriptRows
  <1>2. PICK j \in scripts : r = row(group(j))
    <2> HIDE DEF row, group, scripts
    <2> QED BY <1>1
  <1> DEFINE g == group(j)
             S == members(g)
  <1>3. S \in SUBSET scripts /\ scripts \in SUBSET DOMAIN trace /\ j \in S
    BY DEF ScriptSlices
  <1>4. \A i \in scripts : i \in DOMAIN trace /\ trace[i].dur > 0 /\ TaskTouches(trace[i], w)
    BY DEF ScriptSlices
  <1>5. \A i \in scripts : overlap(i) \in Nat
    <2> HIDE DEF scripts
    <2> QED BY <1>4, TouchedHasPart
  <1>6. forced(g) \in Nat /\ style(g) \in Nat /\ layout(g) \in Nat
    <2> HIDE DEF scripts, g
    <2>1. S \in SUBSET scripts
      BY <1>3 DEF g
    <2> QED BY <1>3, <1>4, <2>1, RollupIsTime
  <1>7. IsFiniteSet(S) /\ S # {}
    <2>1. S \in SUBSET DOMAIN trace
      BY <1>3
    <2> HIDE DEF S
    <2> QED BY <1>3, <2>1, PlacesFinite, FS_Subset
  <1>8. count(g) \in Nat
    BY <1>7, FS_CardinalityType
  <1>9. total(g) \in Nat /\ max(g) \in Nat
    <2> DEFINE f == laps(g)
    <2>1. f = [i \in S |-> f[i]] /\ (\A i \in S : f[i] = overlap(i)) /\ \A i \in S : f[i] \in Nat
      <3>1. f = [i \in S |-> overlap(i)]
        OBVIOUS
      <3>2. \A i \in S : overlap(i) \in Nat
        BY <1>3, <1>5
      <3> HIDE DEF S, overlap, f
      <3> QED BY <3>1, <3>2
    <2>2. {overlap(i) : i \in S} = {f[i] : i \in S}
      <3> HIDE DEF f, overlap, S
      <3> QED BY <2>1
    <2>3. SumFunction(f) \in Nat /\ Max({f[i] : i \in S}) \in Nat
      <3> HIDE DEF f, S
      <3> QED BY <1>7, <2>1, Totals
    <2>4. total(g) = SumFunction(f)
      OBVIOUS
    <2>5. max(g) = Max({overlap(i) : i \in S})
      OBVIOUS
    <2> HIDE DEF f, S, overlap, total, max
    <2> QED BY <2>2, <2>3, <2>4, <2>5
  <1>10. r = row(g)
    BY <1>2
  <1> HIDE DEF g, count, total, max, forced, style, layout, first, example
  <1>11. /\ DOMAIN r = {"group", "count", "total", "max", "forced", "style", "layout", "first", "example"}
         /\ r.count = count(g) /\ r.total = total(g) /\ r.max = max(g)
         /\ r.forced = forced(g) /\ r.style = style(g) /\ r.layout = layout(g)
    BY <1>10
  <1> HIDE DEF row
  <1> QED BY <1>6, <1>8, <1>9, <1>11 DEF Measured, Measures

\* The rows of the breakdown: no slice took less than no time, alone or with its children.
LEMMA DescendantsMeasured ==
  ASSUME TraceInv, NEW q \in Plain, WalkTo(q) \in Nat, NEW r \in DescendantRows(trace, q)
  PROVE  Measured(r)
PROOF
  <1> DEFINE W == WalkTo(q)
             R == q.ids \cap DOMAIN trace
             levels == [x \in R |-> Below(trace, x, W, DOMAIN trace)]
             members(x, d, n) == {i \in levels[x][d] : trace[i].name = n /\ trace[i].dur >= q.min}
             durs(x, d, n)    == [i \in members(x, d, n) |-> trace[i].dur]
             selves(x, d, n)  == [i \in members(x, d, n) |-> SelfTime(trace, i)]
             count(x, d, n)   == Cardinality(members(x, d, n))
             total(x, d, n)   == SumFunction(durs(x, d, n))
             self(x, d, n)    == SumFunction(selves(x, d, n))
             max(x, d, n)     == Max({trace[i].dur : i \in members(x, d, n)})
             first(x, d, n)   == Min({trace[i].ts : i \in members(x, d, n)})
             example(x, d, n) == First([i \in members(x, d, n) |-> <<trace[i].dur>>])
             row(x, d, n) == [root |-> x, depth |-> d, name |-> n, count |-> count(x, d, n),
                              total |-> total(x, d, n), self |-> self(x, d, n), max |-> max(x, d, n),
                              first |-> first(x, d, n), example |-> example(x, d, n)]
             names(x, d) == {j \in levels[x][d] : trace[j].dur >= q.min}
  <1>1. DescendantRows(trace, q)
          = UNION {UNION {{row(x, d, trace[i].name) : i \in names(x, d)} : d \in 1 .. W} : x \in DOMAIN levels}
    BY DEF DescendantRows
  <1>2. DOMAIN levels = R
    OBVIOUS
  <1>3. PICK x \in R : \E d \in 1 .. W : \E i \in names(x, d) : r = row(x, d, trace[i].name)
    <2> HIDE DEF row, names, levels, W
    <2> QED BY <1>1, <1>2
  <1>4. PICK d \in 1 .. W : \E i \in names(x, d) : r = row(x, d, trace[i].name)
    BY <1>3
  <1>5. PICK i \in names(x, d) : r = row(x, d, trace[i].name)
    BY <1>4
  <1> DEFINE n == trace[i].name
             S == members(x, d, n)
             f == durs(x, d, n)
             g == selves(x, d, n)
  <1>6. levels[x][d] \in SUBSET DOMAIN trace
    <2>1. levels[x] = Below(trace, x, W, DOMAIN trace)
      BY <1>3
    <2>2. Below(trace, x, W, DOMAIN trace)[d] = {j \in DOMAIN trace : DepthBelow(x, j) = d}
      BY <1>3, <1>4, LevelsAreDepths
    <2> QED BY <2>1, <2>2
  <1>7. S \in SUBSET DOMAIN trace /\ i \in S
    <2> HIDE DEF levels
    <2> QED BY <1>5, <1>6
  <1>8. \A j \in S : trace[j].dur >= q.min
    <2> HIDE DEF levels
    <2> QED OBVIOUS
  <1>9. ASSUME NEW j \in S PROVE trace[j].dur \in Nat /\ SelfTime(trace, j) \in Nat
    <2> HIDE DEF S
    <2>1. j \in DOMAIN trace /\ trace[j].dur >= q.min /\ q.min \in Nat
      BY <1>7, <1>8, <1>9, MinimumIs
    <2>2. trace[j].dur \in Nat
      BY <2>1, SliceFacts
    <2>3. SelfTime(trace, j) = Cardinality(SelfOnly(j))
      BY <2>1, <2>2, SelfTimeIs
    <2>4. IsFiniteSet(SelfOnly(j))
      <3>1. IsFiniteSet(Instants(trace[j]))
        <4> DEFINE a == trace[j].ts
                   b == End(trace[j]) - 1
        <4>1. Instants(trace[j]) = a .. b
          BY <2>2 DEF Instants, Incomplete
        <4>2. a \in Int /\ b \in Int
          BY <2>1, SliceFacts
        <4> HIDE DEF a, b
        <4> QED BY <4>1, <4>2, FS_Interval
      <3>2. SelfOnly(j) \in SUBSET Instants(trace[j])
        BY DEF SelfOnly
      <3> QED BY <3>1, <3>2, FS_Subset
    <2> QED BY <2>2, <2>3, <2>4, FS_CardinalityType
  <1>10. IsFiniteSet(S) /\ S # {}
    <2> HIDE DEF S
    <2> QED BY <1>7, PlacesFinite, FS_Subset
  <1>11. count(x, d, n) \in Nat
    <2> HIDE DEF levels, n
    <2> QED BY <1>10, FS_CardinalityType
  <1>12. total(x, d, n) \in Nat /\ max(x, d, n) \in Nat
    <2>1. f = [j \in S |-> trace[j].dur]
      OBVIOUS
    <2>2. max(x, d, n) = Max({trace[j].dur : j \in S}) /\ total(x, d, n) = SumFunction(f)
      OBVIOUS
    <2> HIDE DEF f, S, total, max
    <2>3. f = [j \in S |-> f[j]] /\ (\A j \in S : f[j] = trace[j].dur /\ f[j] \in Nat)
      BY <1>9, <2>1
    <2>4. {trace[j].dur : j \in S} = {f[j] : j \in S}
      BY <2>3
    <2>5. SumFunction(f) \in Nat /\ Max({f[j] : j \in S}) \in Nat
      BY <1>10, <2>3, Totals
    <2> QED BY <2>2, <2>4, <2>5
  <1>13. self(x, d, n) \in Nat
    <2>1. g = [j \in S |-> SelfTime(trace, j)]
      OBVIOUS
    <2>2. self(x, d, n) = SumFunction(g)
      OBVIOUS
    <2> HIDE DEF g, S, self
    <2>3. g = [j \in S |-> g[j]] /\ (\A j \in S : g[j] \in Nat)
      BY <1>9, <2>1
    <2> QED BY <1>10, <2>2, <2>3, Totals
  <1>14. r = row(x, d, n)
    BY <1>5
  <1> HIDE DEF S, f, g, n, count, total, self, max, first, example
  <1>15. /\ DOMAIN r = {"root", "depth", "name", "count", "total", "self", "max", "first", "example"}
         /\ r.count = count(x, d, n) /\ r.total = total(x, d, n) /\ r.self = self(x, d, n) /\ r.max = max(x, d, n)
    BY <1>14
  <1> HIDE DEF row
  <1> QED BY <1>11, <1>12, <1>13, <1>15 DEF Measured, Measures

\* The rows of the summary: from the first start of the resources of a URL to their last end
\* is not less than nothing, as each of them was in the window.
LEMMA SummaryMeasured ==
  ASSUME TraceInv, NEW q \in Plain, NEW r \in SummaryRows(trace, navs, Window(q, navs), q)
  PROVE  Measured(r)
PROOF
  <1> DEFINE w == Window(q, navs)
             rows    == Candidates(trace, w, 0)
             context == Context(q, navs)
             targets == Targets(trace, w, context)
             key(i)  == UrlKey(SelectedUrl(trace[i]), q.grouping)
             of(k)   == {i \in rows : key(i) = k}
             lap(i)  == ResourceOverlap(trace[i], w)
             laps(k) == [i \in of(k) |-> lap(i)]
             upids(k) == {ProcessOf(trace[i].track) : i \in of(k)} \ {None}
             a       == context.status
             b(k)    == Relation(k, context, q.grouping)
             c(k)    == RendererRelation(upids(k), \E i \in of(k) : InRenderer(trace[i].track), targets)
             d(k)    == Cardinality({i \in of(k) : trace[i].dur < 0})
             h(k)    == ByOverlap(trace, w, {i \in of(k) : trace[i].name \notin NotDetailed})
             ends(k)    == {ResourceEnd(trace[i], w) : i \in of(k)}
             starts(k)  == {OverlapStart(trace[i], w) : i \in of(k)}
             count(k)   == Cardinality(of(k))
             max(k)     == Max({lap(i) : i \in of(k)})
             summed(k)  == SumFunction(laps(k))
             span(k)    == Max(ends(k)) - Min(starts(k))
             first(k)   == Min(starts(k))
             example(k) == ByOverlap(trace, w, of(k))
             row(k)  == [key |-> k, context |-> a, relation |-> b(k), upids |-> upids(k), renderer |-> c(k),
                         count |-> count(k), unended |-> d(k), max |-> max(k), summed |-> summed(k), span |-> span(k),
                         first |-> first(k), example |-> example(k), detail |-> h(k)]
  <1>1. SummaryRows(trace, navs, w, q) = {s \in {row(key(i)) : i \in rows} : s.max >= q.min}
    BY DEF SummaryRows
  <1>2. PICK j \in rows : r = row(key(j))
    <2> HIDE DEF row, key, rows
    <2> QED BY <1>1
  <1> DEFINE k == key(j)
             S == of(k)
             f == laps(k)
  <1>3. S \in SUBSET DOMAIN trace /\ j \in S
    BY DEF Candidates
  <1>4. \A i \in S : ResourceOverlap(trace[i], w) >= 0
    BY DEF Candidates
  <1>5. ASSUME NEW i \in S
        PROVE  /\ lap(i) \in Nat /\ ResourceEnd(trace[i], w) \in Int /\ OverlapStart(trace[i], w) \in Int
               /\ lap(i) = ResourceEnd(trace[i], w) - OverlapStart(trace[i], w)
    <2>1. i \in DOMAIN trace
      BY <1>3
    <2>2. WindowTyped(w)
      BY WindowIsTyped
    <2>3. lap(i) \in Int /\ ResourceEnd(trace[i], w) \in Int /\ OverlapStart(trace[i], w) \in Int
      BY <2>1, <2>2, OverlapIsTyped
    <2>4. lap(i) = ResourceEnd(trace[i], w) - OverlapStart(trace[i], w)
      BY DEF ResourceOverlap
    <2>5. lap(i) >= 0
      BY <1>4
    <2> HIDE DEF lap, w
    <2> QED BY <2>3, <2>4, <2>5
  <1>6. IsFiniteSet(S) /\ S # {}
    <2> HIDE DEF S
    <2> QED BY <1>3, PlacesFinite, FS_Subset
  <1>7. count(k) \in Nat
    <2>1. count(k) = Cardinality(S)
      OBVIOUS
    <2> HIDE DEF S, count
    <2> QED BY <1>6, <2>1, FS_CardinalityType
  <1>8. max(k) \in Nat /\ summed(k) \in Nat
    <2>1. f = [i \in S |-> lap(i)]
      OBVIOUS
    <2>2. max(k) = Max({lap(i) : i \in S}) /\ summed(k) = SumFunction(f)
      OBVIOUS
    <2> HIDE DEF f, S, lap, max, summed
    <2>3. f = [i \in S |-> f[i]] /\ (\A i \in S : f[i] = lap(i) /\ f[i] \in Nat)
      BY <1>5, <2>1
    <2>4. {lap(i) : i \in S} = {f[i] : i \in S}
      BY <2>3
    <2>5. SumFunction(f) \in Nat /\ Max({f[i] : i \in S}) \in Nat
      BY <1>6, <2>3, Totals
    <2> QED BY <2>2, <2>4, <2>5
  <1>9. span(k) \in Nat
    <2> DEFINE e == [i \in S |-> ResourceEnd(trace[i], w)]
               o == [i \in S |-> OverlapStart(trace[i], w)]
               E == {e[i] : i \in S}
               O == {o[i] : i \in S}
    <2>1. \A i \in S : e[i] = ResourceEnd(trace[i], w) /\ o[i] = OverlapStart(trace[i], w)
      OBVIOUS
    <2>2. ends(k) = {ResourceEnd(trace[i], w) : i \in S} /\ starts(k) = {OverlapStart(trace[i], w) : i \in S}
      OBVIOUS
    <2>3. span(k) = Max(ends(k)) - Min(starts(k))
      OBVIOUS
    <2> HIDE DEF S, e, o, ends, starts, span
    <2>4. ends(k) = E /\ starts(k) = O
      <3>1. E = {ResourceEnd(trace[i], w) : i \in S}
        BY <2>1
      <3>2. O = {OverlapStart(trace[i], w) : i \in S}
        BY <2>1
      <3> HIDE DEF E, O
      <3> QED BY <2>2, <3>1, <3>2
    <2>5. IsFiniteSet(E) /\ IsFiniteSet(O)
      BY <1>6, Images
    <2>6. E \subseteq Int /\ O \subseteq Int /\ E # {} /\ O # {} /\ e[j] \in E /\ o[j] \in O
      BY <1>3, <1>5, <2>1
    <2>7. e[j] - o[j] \in Nat /\ e[j] \in Int /\ o[j] \in Int
      <3>1. j \in S
        BY <1>3
      <3>2. lap(j) \in Nat /\ lap(j) = e[j] - o[j] /\ e[j] \in Int /\ o[j] \in Int
        BY <1>5, <2>1, <3>1
      <3> QED BY <3>2
    <2> HIDE DEF E, O
    <2>8. Max(E) \in E /\ Max(E) >= e[j] /\ Min(O) \in O /\ Min(O) <= o[j]
      BY <2>5, <2>6, Extremes
    <2>9. Max(E) - Min(O) \in Nat
      <3> DEFINE hi == Max(E)
                 lo == Min(O)
      <3>1. hi \in Int /\ lo \in Int /\ hi >= e[j] /\ lo <= o[j]
        BY <2>6, <2>8
      <3> HIDE DEF hi, lo
      <3>2. hi - lo \in Nat
        BY <2>7, <3>1
      <3> QED BY <3>2 DEF hi, lo
    <2> QED BY <2>3, <2>4, <2>9
  <1>10. r = row(k)
    BY <1>2
  <1> HIDE DEF S, f, k, a, b, c, d, h, upids, count, max, summed, span, first, example
  <1>11. /\ DOMAIN r = {"key", "context", "relation", "upids", "renderer", "count", "unended", "max", "summed", "span",
                        "first", "example", "detail"}
         /\ r.count = count(k) /\ r.max = max(k) /\ r.summed = summed(k) /\ r.span = span(k)
    BY <1>10
  <1> HIDE DEF row
  <1> QED BY <1>7, <1>8, <1>9, <1>11 DEF Measured, Measures

\* The rows of the pipeline: the resources of a URL, and the scripts that came with it.
LEMMA PipelineMeasured ==
  ASSUME TraceInv, NEW q, NEW p \in Plain, SameWindow(q, p), NEW r \in PipelineRows(trace, Window(q, navs), q)
  PROVE  Measured(r)
PROOF
  <1> DEFINE w == Window(q, navs)
             rows    == PipelineResources(trace, w, q)
             key(i)  == UrlKey(SelectedUrl(trace[i]), q.grouping)
             keys    == {key(i) : i \in rows}
             scripts == PipelineScripts(trace, w, keys, q)
             of(k)   == {i \in rows : key(i) = k}
             runs(k) == {i \in scripts : key(i) = k}
             lap(i)  == ResourceOverlap(trace[i], w)
             ran(i)  == TaskOverlap(trace[i], w)
             by(i)   == MatchedBy(trace, SelectedUrl(trace[i]), q)
             best(k) == First([i \in of(k) |-> <<MatchRank(by(i)), lap(i), trace[i].dur>>])
             named(s, names) == {i \in s : trace[i].name \in names}
             work(k, kind)   == Rollup(trace, w, runs(k), scripts, PipelineWork[kind])
             times(k, names) == [i \in named(runs(k), names) |-> ran(i)]
             matched(k)    == by(best(k))
             count(k)      == Cardinality(of(k))
             max(k)        == Max({lap(i) : i \in of(k)})
             first(k)      == Min({trace[i].ts : i \in of(k)})
             request(k)    == Largest({lap(i) : i \in named(of(k), RequestNames)})
             example(k)    == ByOverlap(trace, w, of(k))
             detail(k)     == ByOverlap(trace, w, {i \in of(k) : trace[i].name \notin NotDetailed})
             results(k)    == ResultsOf(trace, of(k))
             ofScripts(k)  == Cardinality(runs(k))
             background(k) == SumFunction(times(k, BackgroundParse))
             evaluated(k)  == SumFunction(times(k, Evaluations))
             callback(k)   == Largest({ran(i) : i \in named(runs(k), Callbacks)})
             forced(k)     == work(k, "forced")
             style(k)      == work(k, "style")
             layout(k)     == work(k, "layout")
             script(k)     == First([i \in runs(k) |-> <<ran(i), trace[i].dur>>])
             row(k)  == [key |-> k, matched |-> matched(k), count |-> count(k), max |-> max(k), first |-> first(k),
                         request |-> request(k), example |-> example(k), detail |-> detail(k), results |-> results(k),
                         scripts |-> ofScripts(k), background |-> background(k), evaluated |-> evaluated(k),
                         callback |-> callback(k), forced |-> forced(k), style |-> style(k), layout |-> layout(k),
                         script |-> script(k)]
  <1>1. PipelineRows(trace, w, q) = {row(k) : k \in keys}
    BY DEF PipelineRows
  <1>2. PICK k \in keys : r = row(k)
    <2> HIDE DEF row, keys
    <2> QED BY <1>1
  <1>3. PICK j \in rows : k = key(j)
    BY <1>2
  <1>4. w = Window(p, navs)
    BY SameWindowIs
  <1> DEFINE S == of(k)
  <1>5. S \in SUBSET DOMAIN trace /\ j \in S
    BY <1>3 DEF PipelineResources, Candidates
  <1>6. \A i \in S : ResourceOverlap(trace[i], w) >= 0
    BY DEF PipelineResources, Candidates
  <1>7. \A i \in S : lap(i) \in Nat
    <2> SUFFICES ASSUME NEW i \in S PROVE lap(i) \in Nat
      OBVIOUS
    <2>1. WindowTyped(w)
      BY <1>4, WindowIsTyped
    <2>2. i \in DOMAIN trace /\ lap(i) >= 0
      BY <1>5, <1>6
    <2> HIDE DEF w, S
    <2>3. lap(i) \in Int
      BY <2>1, <2>2, OverlapIsTyped
    <2> HIDE DEF lap
    <2> QED BY <2>2, <2>3
  <1>8. IsFiniteSet(S) /\ S # {}
    <2> HIDE DEF S
    <2> QED BY <1>5, PlacesFinite, FS_Subset
  <1>9. count(k) \in Nat /\ max(k) \in Nat
    <2> DEFINE f == [i \in S |-> lap(i)]
    <2>1. count(k) = Cardinality(S) /\ max(k) = Max({lap(i) : i \in S})
      OBVIOUS
    <2>2. \A i \in S : f[i] = lap(i) /\ f[i] \in Nat
      BY <1>7
    <2>3. f = [i \in S |-> f[i]]
      <3> HIDE DEF S, lap
      <3> QED OBVIOUS
    <2> HIDE DEF f, S, lap, count, max
    <2>4. {lap(i) : i \in S} = {f[i] : i \in S}
      BY <2>2
    <2>5. Max({f[i] : i \in S}) \in Nat
      BY <1>8, <2>2, <2>3, Totals
    <2>6. Cardinality(S) \in Nat
      BY <1>8, FS_CardinalityType
    <2> QED BY <2>1, <2>4, <2>5, <2>6
  <1>10. /\ scripts \in SUBSET DOMAIN trace /\ runs(k) \in SUBSET scripts
         /\ \A i \in scripts : trace[i].dur > 0 /\ TaskTouches(trace[i], w)
    BY DEF PipelineScripts
  <1>11. \A i \in scripts : ran(i) \in Nat
    <2> HIDE DEF scripts, w
    <2>1. ASSUME NEW i \in scripts PROVE TaskOverlap(trace[i], Window(p, navs)) \in Nat
      <3>1. i \in DOMAIN trace /\ trace[i].dur > 0 /\ TaskTouches(trace[i], Window(p, navs))
        BY <1>4, <1>10
      <3> QED BY <3>1, TouchedHasPart
    <2> QED BY <1>4, <2>1
  <1>12. ASSUME NEW names PROVE SumFunction(times(k, names)) \in Nat
    <2> DEFINE N == named(runs(k), names)
               f == times(k, names)
    <2>1. f = [i \in N |-> ran(i)]
      OBVIOUS
    <2>2. N \in SUBSET scripts
      OBVIOUS
    <2> HIDE DEF N, f, scripts, ran
    <2>3. N \in SUBSET DOMAIN trace /\ \A i \in N : ran(i) \in Nat
      BY <1>10, <1>11, <2>2
    <2>4. IsFiniteSet(N)
      BY <2>3, PlacesFinite, FS_Subset
    <2>5. f = [i \in N |-> f[i]] /\ \A i \in N : f[i] \in Nat
      BY <2>1, <2>3
    <2>6. SumFunction(f) \in Nat
      BY <2>4, <2>5, Totals
    <2> QED BY <2>6 DEF f
  <1>13. background(k) \in Nat /\ evaluated(k) \in Nat
    <2> HIDE DEF times
    <2> QED BY <1>12
  <1>14. forced(k) \in Nat /\ style(k) \in Nat /\ layout(k) \in Nat
    <2> DEFINE G == runs(k)
    <2>1. G \in SUBSET scripts
      BY <1>10
    <2>2. \A kind : work(k, kind) = Rollup(trace, w, G, scripts, PipelineWork[kind])
      OBVIOUS
    <2> HIDE DEF scripts, G, w, work
    <2>3. \A names : Rollup(trace, w, G, scripts, names) \in Nat
      <3>1. \A i \in scripts : trace[i].dur > 0 /\ TaskTouches(trace[i], Window(p, navs))
        BY <1>4, <1>10
      <3>2. \A names : Rollup(trace, Window(p, navs), G, scripts, names) \in Nat
        BY <1>10, <2>1, <3>1, RollupIsTime
      <3> QED BY <1>4, <3>2
    <2> QED BY <2>2, <2>3
  <1> HIDE DEF matched, count, max, first, request, example, detail, results, ofScripts, background, evaluated,
               callback, forced, style, layout, script
  <1>15. /\ DOMAIN r = {"key", "matched", "count", "max", "first", "request", "example", "detail", "results", "scripts",
                        "background", "evaluated", "callback", "forced", "style", "layout", "script"}
         /\ r.count = count(k) /\ r.max = max(k) /\ r.background = background(k) /\ r.evaluated = evaluated(k)
         /\ r.forced = forced(k) /\ r.style = style(k) /\ r.layout = layout(k)
    BY <1>2
  <1> HIDE DEF row
  <1> QED BY <1>9, <1>13, <1>14, <1>15 DEF Measured, Measures
-------------------------------------------------------------------------------
\* Whatever is answered, its rows measure something.
LEMMA AnswersMeasured == TraceInv /\ AskedInv /\ WindowInv => \A r \in answer.rows : Measured(r)
PROOF
  <1> SUFFICES ASSUME TraceInv, AskedInv, WindowInv, NEW r \in answer.rows PROVE Measured(r)
    OBVIOUS
  <1> DEFINE q == asked.q
             tool == asked.tool
             w == Window(q, navs)
             rank == Ranked(tool, q, trace, navs)
  <1>1. tool # None
    BY DEF AskedInv, NoAnswer
  <1>2. r \in DOMAIN rank
    <2>1. Answered(tool, q, trace, navs, answer)
      BY <1>1 DEF AskedInv
    <2>2. answer # NoAnswer
      BY DEF NoAnswer
    <2>3. answer.rows \in Tops(rank, RowsUpTo(q.limit, Default(tool)))
      BY <2>1, <2>2 DEF Answered
    <2> QED BY <2>3, OnlyTheirRows
  <1>3. tool \in Tools /\ (tool = purpose \/ tool = "resource_pipeline")
    BY <1>1 DEF AskedInv, TraceInv, Tools
  <1>4. CASE tool = "resource_pipeline"
    <2>1. PICK p \in Plain : SameWindow(q, p)
      BY <1>1 DEF WindowInv
    <2>2. r \in PipelineRows(trace, w, q)
      BY <1>2, <1>4 DEF Ranked, PipelineRank
    <2> QED BY <2>1, <2>2, PipelineMeasured
  <1>5. CASE tool # "resource_pipeline"
    <2>1. q \in Plain /\ q \in Questions(tool)
      BY <1>3, <1>5, QuestionsPlain DEF AskedInv
    <2>2. CASE tool = "main_thread_hotspots"
      <3>1. r \in MainThreadRows(trace, w, q)
        BY <1>2, <2>2 DEF Ranked, MainThreadRank
      <3> QED BY <2>1, <3>1, TasksMeasured
    <2>3. CASE tool = "script_hotspots"
      <3>1. r \in ScriptRows(trace, w, q)
        BY <1>2, <2>3 DEF Ranked, ScriptRank
      <3> QED BY <2>1, <3>1, ScriptsMeasured
    <2>4. CASE tool = "slice_descendants_breakdown"
      <3>1. r \in DescendantRows(trace, q)
        BY <1>2, <2>4 DEF Ranked, DescendantRank
      <3>2. WalkTo(q) \in Nat
        <4>1. Permitted(tool, q)
          BY <1>1 DEF AskedInv, Answered, NoAnswer
        <4>2. WalkTo(q) \in 1 .. MaxDepth
          BY <2>4, <4>1 DEF Permitted, DescendantsAllowed
        <4> QED BY <4>2, DepthAssumption
      <3> QED BY <2>1, <3>1, <3>2, DescendantsMeasured
    <2>5. CASE tool = "resource_hotspots"
      <3>1. r \in HotspotRows(trace, w, q)
        BY <1>2, <2>5 DEF Ranked, HotspotRank
      <3> QED BY <2>1, <3>1, HotspotsMeasured
    <2>6. CASE tool = "resource_summary"
      <3>1. r \in SummaryRows(trace, navs, w, q)
        BY <1>2, <2>6 DEF Ranked, SummaryRank
      <3> QED BY <2>1, <3>1, SummaryMeasured
    <2> QED BY <1>3, <1>5, <2>2, <2>3, <2>4, <2>5, <2>6 DEF Tools
  <1> QED BY <1>4, <1>5

\* Every variable of the analyses has its type: a slice is within the recording and begins
\* in one that began before it, and what a row counts and measures is not negative, in
\* whatever window and however its slices nest (sql_templates/).
THEOREM AnalysesTypeCorrect == Spec => []TypeOK
PROOF
  <1>1. TraceInv /\ AskedInv /\ WindowInv => TypeOK
    <2> SUFFICES ASSUME TraceInv, AskedInv, WindowInv PROVE TypeOK
      OBVIOUS
    <2>1. purpose \in Tools /\ Len(trace) + Len(navs) <= MaxEvents
      BY DEF TraceInv
    <2>2. \A i \in DOMAIN trace : /\ trace[i].ts \in 0 .. TraceEnd - 1
                                  /\ trace[i].dur \in {Incomplete} \cup 0 .. TraceEnd - trace[i].ts
                                  /\ trace[i].parent \in {None} \cup 1 .. i - 1
      BY DEF TraceInv, SlicesTyped, SliceTyped
    <2>3. asked.tool \in Tools \cup {None}
      BY <2>1 DEF AskedInv, Tools
    <2>4. \A r \in answer.rows : \A m \in Measures \cap DOMAIN r : r[m] \in Nat
      BY AnswersMeasured DEF Measured
    <2> QED BY <2>1, <2>2, <2>3, <2>4 DEF TypeOK
  <1> QED BY <1>1, AnalysesInvariant, PTL
===============================================================================
