--------------------------- MODULE AlgorithmsProofs ---------------------------
(***************************************************************************)
(* Theorems about the algorithms that MCRecords runs beside the records:   *)
(* the pass of the cascade of skips, and the learning path - its order of  *)
(* prerequisites, by Kahn or by the components of Tarjan, and its phases - *)
(* for any number of gaps and any prerequisites among them.                *)
(*                                                                         *)
(* There is no induction rule for data here: where one is needed, the      *)
(* least number that breaks the claim is shown not to exist.               *)
(***************************************************************************)
EXTENDS MCRecords, FiniteSetTheorems, FunctionTheorems, SequenceTheorems,
        WellFoundedInduction, TLAPS

-----------------------------------------------------------------------------
(* Numbers and sequences.                                                  *)

\* A set of natural numbers that is not empty has a least one.
LEMMA LeastNumber ==
    ASSUME NEW S \in SUBSET Nat, S # {}
    PROVE  \E x \in S : \A y \in S : x <= y
<1> DEFINE R == OpToRel(<, Nat)
<1>1. IsWellFoundedOn(R, Nat)
  BY NatLessThanWellFounded
<1>2. \A x, y \in Nat : x < y => <<x, y>> \in R
  BY DEF OpToRel
<1> HIDE DEF R
<1>3. \E x \in S : \A y \in S : ~ (<<y, x>> \in R)
  <2>1. S \subseteq Nat
    OBVIOUS
  <2> QED BY <1>1, <2>1, WFMin, Zenon
<1>4. PICK x \in S : \A y \in S : ~ (<<y, x>> \in R)
  BY <1>3
<1>5. \A y \in S : ~ (y < x)
  BY <1>2, <1>4, Zenon
<1> QED BY <1>5

-----------------------------------------------------------------------------
(* Sequences without repetitions.                                          *)

Members(q) == {q[i] : i \in 1 .. Len(q)}

Distinct(q) == \A i, j \in 1 .. Len(q) : q[i] = q[j] => i = j

LEMMA MembersOf ==
    ASSUME NEW S, NEW q \in Seq(S)
    PROVE  /\ Members(q) \subseteq S /\ Path!Range(q) = Members(q)
           /\ Len(q) \in Nat /\ DOMAIN q = 1 .. Len(q) /\ q = <<>> <=> Len(q) = 0
           /\ q = <<>> <=> Members(q) = {}
<1>1. Len(q) \in Nat /\ DOMAIN q = 1 .. Len(q) /\ q \in [1 .. Len(q) -> S]
  BY LenProperties
<1>2. Path!Range(q) = Members(q)
  BY <1>1 DEF Path!Range, Members
<1>3. q = <<>> <=> Len(q) = 0
  BY EmptySeq
<1>4. Len(q) # 0 => q[1] \in Members(q)
  BY <1>1 DEF Members
<1>5. Len(q) = 0 => Members(q) = {}
  BY <1>1 DEF Members
<1>6. Members(q) \subseteq S
  BY <1>1 DEF Members
<1> QED BY <1>1, <1>2, <1>3, <1>4, <1>5, <1>6

LEMMA DistinctCounts ==
    ASSUME NEW S, IsFiniteSet(S), NEW q \in Seq(S), Distinct(q)
    PROVE  Len(q) <= Cardinality(S) /\ (Len(q) = Cardinality(S) <=> Members(q) = S)
<1>1. Len(q) \in Nat /\ q \in [1 .. Len(q) -> S]
  BY LenProperties
<1>2. q \in Injection(1 .. Len(q), S)
  BY <1>1, Fun_IsInj DEF Distinct
<1>3. Cardinality(1 .. Len(q)) = Len(q)
  BY <1>1, FS_Interval
<1>4. q \in Surjection(1 .. Len(q), S) <=> Members(q) = S
  <2>1. ASSUME q \in Surjection(1 .. Len(q), S) PROVE Members(q) = S
    <3>1. \A t \in S : \E i \in 1 .. Len(q) : q[i] = t
      BY <2>1, Fun_SurjectionProperties
    <3> QED BY <3>1, <1>1 DEF Members
  <2>2. ASSUME Members(q) = S PROVE q \in Surjection(1 .. Len(q), S)
    <3>1. \A t \in S : \E i \in 1 .. Len(q) : q[i] = t
      BY <2>2 DEF Members
    <3> QED BY <3>1, <1>1, Fun_IsSurj
  <2> QED BY <2>1, <2>2
<1> QED BY <1>2, <1>3, <1>4, FS_Injection

LEMMA ConcatDistinct ==
    ASSUME NEW S, NEW q \in Seq(S), NEW r \in Seq(S),
           Distinct(q), Distinct(r), Members(q) \cap Members(r) = {}
    PROVE  Distinct(q \o r)
<1>1. Len(q) \in Nat /\ Len(r) \in Nat
  BY LenProperties
<1>2. /\ Len(q \o r) = Len(q) + Len(r)
      /\ \A i \in 1 .. Len(q) + Len(r) :
           (q \o r)[i] = IF i <= Len(q) THEN q[i] ELSE r[i - Len(q)]
  BY ConcatProperties
<1>3. SUFFICES ASSUME NEW i \in 1 .. Len(q) + Len(r), NEW j \in 1 .. Len(q) + Len(r),
                      (q \o r)[i] = (q \o r)[j]
               PROVE  i = j
  BY <1>2 DEF Distinct
<1>4. CASE i <= Len(q) /\ j <= Len(q)
  BY <1>1, <1>2, <1>3, <1>4 DEF Distinct
<1>5. CASE ~ (i <= Len(q)) /\ ~ (j <= Len(q))
  <2>1. r[i - Len(q)] = r[j - Len(q)]
    BY <1>2, <1>3, <1>5
  <2>2. i - Len(q) \in 1 .. Len(r) /\ j - Len(q) \in 1 .. Len(r)
    BY <1>1, <1>5
  <2>3. i - Len(q) = j - Len(q)
    BY <2>1, <2>2 DEF Distinct
  <2> QED BY <2>3, <1>1
<1>6. CASE i <= Len(q) /\ ~ (j <= Len(q))
  <2>1. q[i] = r[j - Len(q)]
    BY <1>2, <1>3, <1>6
  <2>2. i \in 1 .. Len(q) /\ j - Len(q) \in 1 .. Len(r)
    BY <1>1, <1>6
  <2> QED BY <2>1, <2>2 DEF Members
<1>7. CASE ~ (i <= Len(q)) /\ j <= Len(q)
  <2>1. q[j] = r[i - Len(q)]
    BY <1>2, <1>3, <1>7
  <2>2. j \in 1 .. Len(q) /\ i - Len(q) \in 1 .. Len(r)
    BY <1>1, <1>7
  <2> QED BY <2>1, <2>2 DEF Members
<1> QED BY <1>4, <1>5, <1>6, <1>7

LEMMA ConcatMembers ==
    ASSUME NEW S, NEW q \in Seq(S), NEW r \in Seq(S)
    PROVE  Members(q \o r) = Members(q) \cup Members(r)
<1>1. Len(q) \in Nat /\ Len(r) \in Nat
  BY LenProperties
<1>2. /\ Len(q \o r) = Len(q) + Len(r)
      /\ \A i \in 1 .. Len(q) + Len(r) :
           (q \o r)[i] = IF i <= Len(q) THEN q[i] ELSE r[i - Len(q)]
  BY ConcatProperties
<1>3. ASSUME NEW x \in Members(q \o r) PROVE x \in Members(q) \cup Members(r)
  <2>1. PICK i \in 1 .. Len(q) + Len(r) : x = (q \o r)[i]
    BY <1>2, <1>3 DEF Members
  <2>2. CASE i <= Len(q)
    BY <1>1, <1>2, <2>1, <2>2 DEF Members
  <2>3. CASE ~ (i <= Len(q))
    <3>1. i - Len(q) \in 1 .. Len(r) /\ x = r[i - Len(q)]
      BY <1>1, <1>2, <2>1, <2>3
    <3> QED BY <3>1 DEF Members
  <2> QED BY <2>2, <2>3
<1>4. ASSUME NEW x \in Members(q) PROVE x \in Members(q \o r)
  <2>1. PICK i \in 1 .. Len(q) : x = q[i]
    BY <1>4 DEF Members
  <2>2. i \in 1 .. Len(q) + Len(r) /\ (q \o r)[i] = x
    BY <1>1, <1>2, <2>1
  <2> QED BY <1>2, <2>2 DEF Members
<1>5. ASSUME NEW x \in Members(r) PROVE x \in Members(q \o r)
  <2>1. PICK i \in 1 .. Len(r) : x = r[i]
    BY <1>5 DEF Members
  <2>2. i + Len(q) \in 1 .. Len(q) + Len(r) /\ ~ (i + Len(q) <= Len(q))
        /\ (i + Len(q)) - Len(q) = i
    BY <1>1, <2>1
  <2>3. (q \o r)[i + Len(q)] = x
    BY <1>2, <2>1, <2>2
  <2> QED BY <1>2, <2>2, <2>3 DEF Members
<1> QED BY <1>3, <1>4, <1>5

-----------------------------------------------------------------------------
(* A set of numbers in order.                                              *)

InOrder(q, S) ==
    /\ q \in [1 .. Cardinality(S) -> S]
    /\ \A i, j \in 1 .. Cardinality(S) : i < j => q[i] < q[j]

LEMMA OrderExists == \A n \in Nat : \A S \in SUBSET (1 .. n) : \E q : InOrder(q, S)
<1> DEFINE Bad == {n \in Nat : \E S \in SUBSET (1 .. n) : \A q : ~ InOrder(q, S)}
<1>1. SUFFICES ASSUME Bad # {} PROVE FALSE
  OBVIOUS
<1>2. PICK n \in Bad : \A m \in Bad : n <= m
  BY <1>1, LeastNumber
<1>3. PICK S \in SUBSET (1 .. n) : \A q : ~ InOrder(q, S)
  OBVIOUS
<1>4. n # 0
  <2> SUFFICES ASSUME n = 0 PROVE FALSE
    OBVIOUS
  <2>1. S = {}
    OBVIOUS
  <2>2. Cardinality(S) = 0
    BY <2>1, FS_EmptySet
  <2>3. [i \in 1 .. 0 |-> i] \in [1 .. 0 -> S]
    OBVIOUS
  <2>4. InOrder([i \in 1 .. 0 |-> i], S)
    BY <2>2, <2>3 DEF InOrder
  <2> QED BY <2>4, <1>3
<1>5. n - 1 \in Nat /\ n - 1 \notin Bad
  BY <1>2, <1>4
<1> DEFINE T == S \ {n}
<1>6. T \in SUBSET (1 .. n - 1)
  BY <1>5
<1>7. PICK q : InOrder(q, T)
  BY <1>5, <1>6
<1>8. n \in S
  BY <1>3, <1>7
<1>9. IsFiniteSet(S) /\ IsFiniteSet(T) /\ Cardinality(T) \in Nat
      /\ Cardinality(S) = Cardinality(T) + 1
  <2>0. IsFiniteSet(1 .. n)
    BY <1>5, FS_Interval
  <2>1. IsFiniteSet(S)
    BY <2>0, <1>3, FS_Subset
  <2>2. IsFiniteSet(T) /\ Cardinality(T) = Cardinality(S) - 1
    BY <2>1, <1>8, FS_RemoveElement
  <2> QED BY <2>1, <2>2, FS_CardinalityType
<1> DEFINE r == [i \in 1 .. Cardinality(S) |-> IF i = Cardinality(S) THEN n ELSE q[i]]
<1>10. \A i \in 1 .. Cardinality(T) : q[i] \in T /\ q[i] < n
  <2>1. n \in Nat /\ \A x \in T : x < n
    BY <1>5, <1>6
  <2> HIDE DEF T
  <2> QED BY <2>1, <1>7 DEF InOrder
<1> HIDE DEF T, Bad
<1>11. r \in [1 .. Cardinality(S) -> S]
  BY <1>8, <1>9, <1>10 DEF T
<1>12. ASSUME NEW i \in 1 .. Cardinality(S), NEW j \in 1 .. Cardinality(S), i < j
       PROVE  r[i] < r[j]
  <2>1. i \in 1 .. Cardinality(T) /\ i # Cardinality(S) /\ r[i] = q[i]
    BY <1>9, <1>12
  <2>2. CASE j = Cardinality(S)
    BY <1>10, <2>1, <2>2
  <2>3. CASE j # Cardinality(S)
    <3>1. j \in 1 .. Cardinality(T) /\ r[j] = q[j]
      BY <1>9, <2>3
    <3> QED BY <1>7, <1>12, <2>1, <3>1 DEF InOrder
  <2> QED BY <2>2, <2>3
<1>13. InOrder(r, S)
  BY <1>11, <1>12 DEF InOrder
<1> QED BY <1>3, <1>13

LEMMA AscendingFacts ==
    ASSUME NEW n \in Nat, NEW S \in SUBSET (1 .. n)
    PROVE  LET q == Path!Ascending(S)
           IN q \in Seq(S) /\ Distinct(q) /\ Members(q) = S
<1> DEFINE q == Path!Ascending(S)
<1>0. IsFiniteSet(1 .. n)
  BY FS_Interval
<1>1. IsFiniteSet(S) /\ Cardinality(S) \in Nat
  BY <1>0, FS_Subset, FS_CardinalityType
<1>2. \E r \in [1 .. Cardinality(S) -> S] :
         \A i, j \in 1 .. Cardinality(S) : i < j => r[i] < r[j]
  BY OrderExists DEF InOrder
<1>3. /\ q \in [1 .. Cardinality(S) -> S]
      /\ \A i, j \in 1 .. Cardinality(S) : i < j => q[i] < q[j]
  BY <1>2 DEF Path!Ascending, Path!Cardinality, Cardinality, Path!IsFiniteSet, IsFiniteSet
<1> HIDE DEF q
<1>4. q \in Seq(S) /\ Len(q) = Cardinality(S)
  BY <1>1, <1>3
<1>5. Distinct(q)
  <2> SUFFICES ASSUME NEW i \in 1 .. Len(q), NEW j \in 1 .. Len(q), q[i] = q[j], i # j
               PROVE  FALSE
    BY DEF Distinct
  <2>1. i < j \/ j < i
    BY <1>4
  <2>2. q[i] \in S /\ q[j] \in S
    BY <1>3, <1>4
  <2>0. \A x \in S : x \in Nat
    OBVIOUS
  <2>3. q[i] \in Nat /\ q[j] \in Nat
    BY <2>0, <2>2
  <2> QED BY <1>3, <1>4, <2>1, <2>3
<1>6. Members(q) = S
  BY <1>1, <1>4, <1>5, DistinctCounts
<1> QED BY <1>4, <1>5, <1>6 DEF q

-----------------------------------------------------------------------------
(* The pass of the cascade.                                                *)

\* The stages the loop has visited have the statuses of the closed form, the
\* others those they were read with.
CascadeInv ==
    /\ given \in Pass!Snapshots /\ at \in 1 .. 7
    /\ array = [s \in Pass!Stages |->
                   IF Pass!Position[s] < at THEN Pass!Cascade(given)[s] ELSE given[s]]

\* The stage before s in the serial chain.
Before(s) ==
    CASE s = "dedup" -> "crawl" [] s = "clean" -> "dedup" [] s = "import" -> "clean"
      [] s = "graph_sync" -> "import" [] s = "timeseries" -> "graph_sync"

LEMMA ChainOfStages ==
    /\ Pass!Position["crawl"] = 1 /\ Pass!Position["dedup"] = 2
    /\ Pass!Position["clean"] = 3 /\ Pass!Position["import"] = 4
    /\ Pass!Position["graph_sync"] = 5 /\ Pass!Position["timeseries"] = 6
    /\ Pass!Deps["crawl"] = {} /\ Pass!Deps["dedup"] = {"crawl"}
    /\ Pass!Deps["clean"] = {"dedup"} /\ Pass!Deps["import"] = {"clean"}
    /\ Pass!Deps["graph_sync"] = {"import"}
    /\ Pass!Deps["timeseries"] = {"graph_sync"}
  BY DEF Pass!Position, Pass!Deps

LEMMA ReachedThrough ==
    ASSUME NEW c, NEW s \in Pass!Stages, NEW d \in Pass!Stages,
           \A x \in Pass!Stages : /\ Pass!Position[x] \in Int
                                  /\ Pass!Position[x] = Pass!Position[d] => x = d,
           Pass!Position[s] = Pass!Position[d] + 1
    PROVE  Pass!Reached(c, s) <=>
              \/ c[d] = "failed"
              \/ c[d] = "pending" /\ d \notin Pass!Optional /\ Pass!Reached(c, d)
<1>1. \A x \in Pass!Stages : Pass!Position[x] < Pass!Position[s]
                               <=> x = d \/ Pass!Position[x] < Pass!Position[d]
  OBVIOUS
<1>2. ASSUME Pass!Reached(c, s)
      PROVE  \/ c[d] = "failed"
             \/ c[d] = "pending" /\ d \notin Pass!Optional /\ Pass!Reached(c, d)
  <2>1. PICK a \in Pass!Stages :
           /\ Pass!Position[a] < Pass!Position[s] /\ c[a] = "failed"
           /\ \A b \in Pass!Stages :
                Pass!Position[a] < Pass!Position[b] /\ Pass!Position[b] < Pass!Position[s]
                  => c[b] = "pending" /\ b \notin Pass!Optional
    BY <1>2 DEF Pass!Reached
  <2>2. CASE a = d
    BY <2>1, <2>2
  <2>3. CASE a # d
    <3>1. Pass!Position[a] < Pass!Position[d] /\ Pass!Position[d] < Pass!Position[s]
      BY <1>1, <2>1, <2>3
    <3>2. c[d] = "pending" /\ d \notin Pass!Optional
      BY <2>1, <3>1
    <3>3. Pass!Reached(c, d)
      BY <1>1, <2>1, <3>1 DEF Pass!Reached
    <3> QED BY <3>2, <3>3
  <2> QED BY <2>2, <2>3
<1>3. ASSUME c[d] = "failed" PROVE Pass!Reached(c, s)
  BY <1>1, <1>3 DEF Pass!Reached
<1>4. ASSUME c[d] = "pending" /\ d \notin Pass!Optional /\ Pass!Reached(c, d)
      PROVE  Pass!Reached(c, s)
  <2>1. PICK a \in Pass!Stages :
           /\ Pass!Position[a] < Pass!Position[d] /\ c[a] = "failed"
           /\ \A b \in Pass!Stages :
                Pass!Position[a] < Pass!Position[b] /\ Pass!Position[b] < Pass!Position[d]
                  => c[b] = "pending" /\ b \notin Pass!Optional
    BY <1>4 DEF Pass!Reached
  <2>2. \A b \in Pass!Stages :
           Pass!Position[a] < Pass!Position[b] /\ Pass!Position[b] < Pass!Position[s]
             => c[b] = "pending" /\ b \notin Pass!Optional
    BY <1>1, <1>4, <2>1
  <2>3. Pass!Position[a] < Pass!Position[s]
    BY <1>1, <2>1
  <2> QED BY <2>1, <2>2, <2>3 DEF Pass!Reached
<1> QED BY <1>2, <1>3, <1>4

LEMMA ReachedFromBefore ==
    ASSUME NEW c
    PROVE  /\ ~ Pass!Reached(c, "crawl")
           /\ \A s \in Pass!Stages \ {"crawl"} :
                /\ Before(s) \in Pass!Stages
                /\ Pass!Position[Before(s)] = Pass!Position[s] - 1
                /\ Pass!Deps[s] = {Before(s)}
                /\ Pass!Reached(c, s) <=>
                     \/ c[Before(s)] = "failed"
                     \/ /\ c[Before(s)] = "pending" /\ Before(s) \notin Pass!Optional
                        /\ Pass!Reached(c, Before(s))
<1>1. ~ Pass!Reached(c, "crawl")
  BY ChainOfStages DEF Pass!Stages, Pass!Reached
<1>2. \A x, y \in Pass!Stages : /\ Pass!Position[x] \in 1 .. 6
                                /\ Pass!Position[x] = Pass!Position[y] => x = y
  BY ChainOfStages DEF Pass!Stages
<1>3. ASSUME NEW s \in Pass!Stages \ {"crawl"}
      PROVE  /\ Before(s) \in Pass!Stages
             /\ Pass!Position[Before(s)] = Pass!Position[s] - 1
             /\ Pass!Deps[s] = {Before(s)}
  BY ChainOfStages DEF Pass!Stages, Before
<1>4. ASSUME NEW s \in Pass!Stages \ {"crawl"}
      PROVE  Pass!Reached(c, s) <=>
                \/ c[Before(s)] = "failed"
                \/ /\ c[Before(s)] = "pending" /\ Before(s) \notin Pass!Optional
                   /\ Pass!Reached(c, Before(s))
  <2> DEFINE d == Before(s)
  <2>1. d \in Pass!Stages /\ Pass!Position[d] = Pass!Position[s] - 1
    BY <1>3
  <2>2. \A x \in Pass!Stages : /\ Pass!Position[x] \in Int
                               /\ Pass!Position[x] = Pass!Position[d] => x = d
    BY <1>2, <2>1
  <2>3. Pass!Position[s] = Pass!Position[d] + 1
    BY <1>2, <2>1
  <2> HIDE DEF d
  <2>4. Pass!Reached(c, s) <=>
           \/ c[d] = "failed"
           \/ c[d] = "pending" /\ d \notin Pass!Optional /\ Pass!Reached(c, d)
    BY <2>1, <2>2, <2>3, ReachedThrough
  <2> QED BY <2>4 DEF d
<1> QED BY <1>1, <1>3, <1>4

LEMMA CascadeStarts == ASSUME Pass!Init PROVE CascadeInv
<1>1. \A s \in Pass!Stages : Pass!Position[s] >= 1
  BY ChainOfStages DEF Pass!Stages
<1>2. array = [s \in Pass!Stages |-> given[s]] /\ given \in Pass!Snapshots /\ at = 1
  BY DEF Pass!Init, Pass!Snapshots
<1>3. array = [s \in Pass!Stages |->
                  IF Pass!Position[s] < at THEN Pass!Cascade(given)[s] ELSE given[s]]
  BY <1>1, <1>2 DEF Pass!Position, Pass!Stages
<1> QED BY <1>2, <1>3 DEF CascadeInv

LEMMA CascadeStays == CascadeInv /\ [Pass!Next]_passVars => CascadeInv'
<1> SUFFICES ASSUME CascadeInv, [Pass!Next]_passVars PROVE CascadeInv'
  OBVIOUS
<1>1. CASE UNCHANGED passVars
  BY <1>1 DEF CascadeInv, passVars
<1>2. CASE Pass!Visit
  <2> DEFINE h == Pass!Here  c == Pass!Cascade(given)
  <2>1. at \in 1 .. 6 /\ given' = given /\ at' = at + 1
        /\ array' = [array EXCEPT ![h] = Pass!Verdict(h)]
    BY <1>2 DEF Pass!Visit, Pass!Last, CascadeInv
  <2>2. \A x, y \in Pass!Stages : /\ Pass!Position[x] \in 1 .. 6
                                  /\ Pass!Position[x] = Pass!Position[y] => x = y
    BY ChainOfStages DEF Pass!Stages
  <2>3. h \in Pass!Stages /\ Pass!Position[h] = at
    <3>1. \E s \in Pass!Stages : Pass!Position[s] = at
      BY <2>1, ChainOfStages DEF Pass!Stages
    <3> QED BY <3>1 DEF Pass!Here
  <2>4. array[h] = given[h]
    BY <2>1, <2>3 DEF CascadeInv
  <2>5. Pass!Verdict(h) = c[h]
    <3>1. CASE h = "crawl"
      <4>1. Pass!Deps[h] = {} /\ ~ Pass!Reached(given, h)
        BY <3>1, ChainOfStages, ReachedFromBefore
      <4> QED BY <4>1, <2>3, <2>4 DEF Pass!Verdict, Pass!Cascade
    <3>2. CASE h # "crawl"
      <4> DEFINE d == Before(h)
      <4>1. /\ d \in Pass!Stages /\ Pass!Position[d] = at - 1 /\ Pass!Deps[h] = {d}
            /\ Pass!Reached(given, h) <=>
                 \/ given[d] = "failed"
                 \/ given[d] = "pending" /\ d \notin Pass!Optional /\ Pass!Reached(given, d)
        BY <3>2, <2>3, ReachedFromBefore
      <4> HIDE DEF d
      <4>2. array[d] = c[d]
        BY <4>1, <2>1 DEF CascadeInv
      <4>3. c[d] = "failed" <=> Pass!Reached(given, h)
        BY <4>1 DEF Pass!Cascade
      <4>4. Pass!Verdict(h) = IF given[h] = "pending" /\ c[d] = "failed"
                              THEN IF h \in Pass!Optional THEN "skipped" ELSE "failed"
                              ELSE given[h]
        BY <4>1, <4>2, <2>4 DEF Pass!Verdict
      <4> QED BY <4>3, <4>4, <2>3 DEF Pass!Cascade
    <3> QED BY <3>1, <3>2
  <2>6. \A s \in Pass!Stages :
           Pass!Position[s] < at + 1 <=> s = h \/ Pass!Position[s] < at
    BY <2>1, <2>2, <2>3
  <2> HIDE DEF h, c
  <2>7. array' = [s \in Pass!Stages |->
                     IF Pass!Position[s] < at + 1 THEN c[s] ELSE given[s]]
    BY <2>1, <2>3, <2>5, <2>6 DEF CascadeInv, c
  <2>8. array' = [s \in Pass!Stages |->
                     IF Pass!Position[s] < at' THEN Pass!Cascade(given')[s] ELSE given'[s]]
    BY <2>1, <2>7 DEF c
  <2>9. given' \in Pass!Snapshots /\ at' \in 1 .. 7
    BY <2>1 DEF CascadeInv
  <2> QED BY <2>8, <2>9 DEF CascadeInv
<1> QED BY <1>1, <1>2 DEF Pass!Next

LEMMA CascadeTwice ==
    ASSUME NEW g \in Pass!Snapshots
    PROVE  Pass!Cascade(Pass!Cascade(g)) = Pass!Cascade(g)
<1> DEFINE c == Pass!Cascade(g)
<1>1. \A s \in Pass!Stages :
         c[s] = IF g[s] = "pending" /\ Pass!Reached(g, s)
                THEN IF s \in Pass!Optional THEN "skipped" ELSE "failed" ELSE g[s]
  BY DEF Pass!Cascade
<1> HIDE DEF c
<1>2. ~ Pass!Reached(c, "crawl")
  BY ReachedFromBefore
<1>3. ASSUME NEW s \in Pass!Stages \ {"crawl"}, c[s] = "pending",
             c[Before(s)] = "pending" => ~ Pass!Reached(c, Before(s))
      PROVE  ~ Pass!Reached(c, s)
  <2> DEFINE d == Before(s)
  <2>1. /\ d \in Pass!Stages
        /\ Pass!Reached(c, s) <=>
             \/ c[d] = "failed"
             \/ c[d] = "pending" /\ d \notin Pass!Optional /\ Pass!Reached(c, d)
        /\ Pass!Reached(g, s) <=>
             \/ g[d] = "failed"
             \/ g[d] = "pending" /\ d \notin Pass!Optional /\ Pass!Reached(g, d)
    BY ReachedFromBefore
  <2>2. ~ Pass!Reached(g, s)
    BY <1>1, <1>3
  <2>3. c[d] # "failed"
    BY <1>1, <2>1, <2>2
  <2> QED BY <1>3, <2>1, <2>3
<1>4. /\ Before("dedup") = "crawl" /\ Before("clean") = "dedup"
      /\ Before("import") = "clean" /\ Before("graph_sync") = "import"
      /\ Before("timeseries") = "graph_sync"
  BY DEF Before
<1>5. \A s \in Pass!Stages : c[s] = "pending" => ~ Pass!Reached(c, s)
  <2>1. c["dedup"] = "pending" => ~ Pass!Reached(c, "dedup")
    BY <1>2, <1>3, <1>4 DEF Pass!Stages
  <2>2. c["clean"] = "pending" => ~ Pass!Reached(c, "clean")
    BY <2>1, <1>3, <1>4 DEF Pass!Stages
  <2>3. c["import"] = "pending" => ~ Pass!Reached(c, "import")
    BY <2>2, <1>3, <1>4 DEF Pass!Stages
  <2>4. c["graph_sync"] = "pending" => ~ Pass!Reached(c, "graph_sync")
    BY <2>3, <1>3, <1>4 DEF Pass!Stages
  <2>5. c["timeseries"] = "pending" => ~ Pass!Reached(c, "timeseries")
    BY <2>4, <1>3, <1>4 DEF Pass!Stages
  <2> QED BY <1>2, <2>1, <2>2, <2>3, <2>4, <2>5 DEF Pass!Stages
<1>6. c = [s \in Pass!Stages |-> c[s]]
  BY DEF c, Pass!Cascade
<1>7. Pass!Cascade(c) = [s \in Pass!Stages |-> c[s]]
  BY <1>5 DEF Pass!Cascade
<1> QED BY <1>6, <1>7 DEF c

LEMMA CascadeInSum ==
    /\ focus = "stages" /\ SumInit => Pass!Init
    /\ [SumNext]_allVars => (focus' = focus /\ (focus = "stages" => [Pass!Next]_passVars))
  BY DEF SumInit, SumNext, allVars

LEMMA CascadeHolds == SumSpec => [](focus = "stages" => CascadeInv)
<1>1. SumInit => (focus = "stages" => CascadeInv)
  BY CascadeInSum, CascadeStarts
<1>2. (focus = "stages" => CascadeInv) /\ [SumNext]_allVars
        => (focus = "stages" => CascadeInv)'
  BY CascadeInSum, CascadeStays
<1> QED BY <1>1, <1>2, PTL DEF SumSpec

LEMMA CascadeComputed == ASSUME CascadeInv PROVE Pass!CascadeCorrect
<1> SUFFICES ASSUME at = 7
             PROVE  /\ array = Pass!Cascade(given) /\ Pass!Cascade(array) = array
                    /\ \A s \in Pass!Ready(array) \ Pass!Ready(given) :
                          \E d \in Pass!Deps[s] : d \in Pass!Optional /\ array[d] = "skipped"
  BY DEF Pass!CascadeCorrect, Pass!Last
<1>1. \A s \in Pass!Stages : Pass!Position[s] < 7
  BY ChainOfStages DEF Pass!Stages
<1>2. array = Pass!Cascade(given)
  BY <1>1 DEF CascadeInv, Pass!Cascade
<1>3. Pass!Cascade(array) = array
  BY <1>2, CascadeTwice DEF CascadeInv
<1>4. ASSUME NEW s \in Pass!Ready(array) \ Pass!Ready(given)
      PROVE  \E d \in Pass!Deps[s] : d \in Pass!Optional /\ array[d] = "skipped"
  <2>1. \A x \in Pass!Stages :
           array[x] = IF given[x] = "pending" /\ Pass!Reached(given, x)
                      THEN IF x \in Pass!Optional THEN "skipped" ELSE "failed" ELSE given[x]
    BY <1>2 DEF Pass!Cascade
  <2>2. Pass!Deps[s] \subseteq Pass!Stages /\ s \in Pass!Stages
    BY ChainOfStages DEF Pass!Stages, Pass!Ready
  <2>3. /\ array[s] = "pending" /\ given[s] = "pending"
        /\ \A d \in Pass!Deps[s] : array[d] \in {"completed", "skipped"}
    BY <2>1 DEF Pass!Ready
  <2>4. PICK d \in Pass!Deps[s] : given[d] \notin {"completed", "skipped"}
    BY <2>2, <2>3 DEF Pass!Ready
  <2> QED BY <2>1, <2>2, <2>3, <2>4
<1> QED BY <1>2, <1>3, <1>4

-----------------------------------------------------------------------------
(* Kahn's algorithm over the nodes 1 .. n, where node m needs needs[m].    *)

\* The nodes in done are ordered: the rest wait for what they need of the rest,
\* and those that wait for nothing are in the queue.
KahnState(n, needs, done, w, q) ==
    /\ done \subseteq 1 .. n /\ \A m \in done : needs[m] \subseteq done
    /\ w = [m \in 1 .. n |-> Cardinality(needs[m] \ done)]
    /\ q \in Seq(1 .. n) /\ Distinct(q)
    /\ Members(q) = {m \in (1 .. n) \ done : needs[m] \subseteq done}

LEMMA KahnBegins ==
    ASSUME NEW n \in Nat, NEW needs \in [1 .. n -> SUBSET (1 .. n)], NEW w, NEW q,
           w = [m \in 1 .. n |-> Cardinality(needs[m])],
           q = Path!Ascending({m \in 1 .. n : needs[m] = {}})
    PROVE  KahnState(n, needs, {}, w, q)
<1> DEFINE free == {m \in 1 .. n : needs[m] = {}}
<1>1. q \in Seq(free) /\ Distinct(q) /\ Members(q) = free
  BY AscendingFacts
<1>2. q \in Seq(1 .. n)
  BY <1>1, SeqMonotonic
<1>3. \A m \in 1 .. n : needs[m] \ {} = needs[m]
  OBVIOUS
<1>4. w = [m \in 1 .. n |-> Cardinality(needs[m] \ {})]
  BY <1>3
<1>5. free = {m \in (1 .. n) \ {} : needs[m] \subseteq {}}
  OBVIOUS
<1> QED BY <1>1, <1>2, <1>4, <1>5 DEF KahnState

\* The nodes that need the head of the queue, and what TakeHead makes of the counts
\* and of the queue.
Freeing(n, needs, q) == {m \in 1 .. n : Head(q) \in needs[m]}

CountsAfter(n, needs, w, q) ==
    [m \in DOMAIN w |-> IF m \in Freeing(n, needs, q) THEN w[m] - 1 ELSE w[m]]

QueueAfter(n, needs, w, q) ==
    Tail(q) \o Path!Ascending({m \in Freeing(n, needs, q) : w[m] = 1})

LEMMA KahnGoesOn ==
    ASSUME NEW n \in Nat, NEW needs \in [1 .. n -> SUBSET (1 .. n)], NEW done,
           NEW w, NEW q, KahnState(n, needs, done, w, q), q # <<>>
    PROVE  /\ Head(q) \in (1 .. n) \ done /\ needs[Head(q)] \subseteq done
           /\ KahnState(n, needs, done \cup {Head(q)},
                        CountsAfter(n, needs, w, q), QueueAfter(n, needs, w, q))
<1> DEFINE w2 == CountsAfter(n, needs, w, q)  q2 == QueueAfter(n, needs, w, q)
           after == Freeing(n, needs, q)
<1>0. /\ after = {m \in 1 .. n : Head(q) \in needs[m]}
      /\ w2 = [m \in DOMAIN w |-> IF m \in after THEN w[m] - 1 ELSE w[m]]
      /\ q2 = Tail(q) \o Path!Ascending({m \in after : w[m] = 1})
  BY DEF Freeing, CountsAfter, QueueAfter
<1> HIDE DEF w2, q2, after
<1> DEFINE h == Head(q)  freed == {m \in after : w[m] = 1}  a == Path!Ascending(freed)
<1>1. q \in Seq(1 .. n) /\ Len(q) \in Nat /\ Len(q) # 0
  BY MembersOf DEF KahnState
<1>2. h = q[1] /\ h \in Members(q)
  BY <1>1 DEF Members
<1>3. h \in (1 .. n) \ done /\ needs[h] \subseteq done
  BY <1>2 DEF KahnState
<1>4. \A m \in 1 .. n : IsFiniteSet(needs[m] \ done) /\ Cardinality(needs[m] \ done) \in Nat
  <2>1. IsFiniteSet(1 .. n)
    BY FS_Interval
  <2> QED BY <2>1, FS_Subset, FS_CardinalityType
<1>5. ASSUME NEW m \in 1 .. n
      PROVE  /\ w[m] = Cardinality(needs[m] \ done)
             /\ w2[m] = Cardinality(needs[m] \ (done \cup {h}))
             /\ m \in freed <=> h \in needs[m] /\ needs[m] \ done = {h}
  <2>1. w[m] = Cardinality(needs[m] \ done)
    BY DEF KahnState
  <2>2. needs[m] \ (done \cup {h}) = (needs[m] \ done) \ {h}
    OBVIOUS
  <2>3. h \in needs[m] \ done <=> m \in after
    BY <1>0, <1>3
  <2>4. w2[m] = IF m \in after THEN w[m] - 1 ELSE w[m]
    BY <1>0 DEF KahnState
  <2>5. w2[m] = Cardinality(needs[m] \ (done \cup {h}))
    <3> DEFINE rest == needs[m] \ done
    <3>1. IsFiniteSet(rest)
      BY <1>4
    <3> HIDE DEF rest
    <3>2. Cardinality(rest \ {h}) =
             IF h \in rest THEN Cardinality(rest) - 1 ELSE Cardinality(rest)
      BY <3>1, FS_RemoveElement
    <3> QED BY <3>2, <2>1, <2>2, <2>3, <2>4 DEF rest
  <2>6. Cardinality(needs[m] \ done) = 1 <=> \E x : needs[m] \ done = {x}
    BY <1>4, FS_Singleton
  <2>7. m \in freed <=> h \in needs[m] /\ needs[m] \ done = {h}
    BY <1>0, <1>3, <2>1, <2>3, <2>6
  <2> QED BY <2>1, <2>5, <2>7
<1>6. w2 = [m \in 1 .. n |-> Cardinality(needs[m] \ (done \cup {h}))]
  <2>1. DOMAIN w = 1 .. n
    BY DEF KahnState
  <2> HIDE DEF h
  <2> QED BY <2>1, <1>0, <1>5
<1>7. a \in Seq(freed) /\ Distinct(a) /\ Members(a) = freed
  <2>1. freed \in SUBSET (1 .. n)
    BY <1>0
  <2> HIDE DEF freed
  <2> QED BY <2>1, AscendingFacts
<1>8. a \in Seq(1 .. n)
  <2>1. freed \subseteq 1 .. n
    BY <1>0
  <2> HIDE DEF freed, a
  <2> QED BY <1>7, <2>1, SeqMonotonic
<1>9. /\ Tail(q) \in Seq(1 .. n) /\ Distinct(Tail(q))
      /\ Members(Tail(q)) = Members(q) \ {h}
  <2>1. /\ Tail(q) \in Seq(1 .. n) /\ Len(Tail(q)) = Len(q) - 1
        /\ \A i \in 1 .. Len(Tail(q)) : Tail(q)[i] = q[i + 1]
    BY <1>1, HeadTailProperties
  <2>2. \A i \in 1 .. Len(q) - 1 : i + 1 \in 1 .. Len(q) /\ i + 1 # 1
    BY <1>1
  <2>3. Distinct(Tail(q))
    <3> SUFFICES ASSUME NEW i \in 1 .. Len(Tail(q)), NEW j \in 1 .. Len(Tail(q)),
                        Tail(q)[i] = Tail(q)[j]
                 PROVE  i = j
      BY DEF Distinct
    <3>1. i + 1 = j + 1
      BY <2>1, <2>2 DEF KahnState, Distinct
    <3> QED BY <3>1, <2>1, <1>1
  <2>4. \A i \in 2 .. Len(q) : i - 1 \in 1 .. Len(Tail(q)) /\ Tail(q)[i - 1] = q[i]
    BY <1>1, <2>1
  <2>5. \A i \in 1 .. Len(q) : q[i] = h <=> i = 1
    BY <1>1, <1>2 DEF KahnState, Distinct
  <2>6. Members(Tail(q)) \subseteq Members(q) \ {h}
    BY <2>1, <2>2, <2>5 DEF Members
  <2>7. Members(q) \ {h} \subseteq Members(Tail(q))
    <3> SUFFICES ASSUME NEW i \in 1 .. Len(q), q[i] # h PROVE q[i] \in Members(Tail(q))
      BY DEF Members
    <3>1. i \in 2 .. Len(q)
      BY <1>1, <2>5
    <3> QED BY <2>4, <3>1 DEF Members
  <2> QED BY <2>1, <2>3, <2>6, <2>7
<1>10. Members(Tail(q)) \cap Members(a) = {}
  <2>1. \A m \in Members(q) : needs[m] \subseteq done /\ m \in 1 .. n
    BY DEF KahnState
  <2> HIDE DEF a, freed, h
  <2> QED BY <2>1, <1>3, <1>5, <1>7, <1>9
<1>11. q2 = Tail(q) \o a
  BY <1>0
<1> HIDE DEF a, freed, h
<1>12. q2 \in Seq(1 .. n) /\ Distinct(q2) /\ Members(q2) = (Members(q) \ {h}) \cup freed
  <2>1. Distinct(Tail(q) \o a)
    BY <1>7, <1>8, <1>9, <1>10, ConcatDistinct
  <2>2. Members(Tail(q) \o a) = Members(Tail(q)) \cup Members(a)
    <3>1. \A r1, r2 \in Seq(1 .. n) : Members(r1 \o r2) = Members(r1) \cup Members(r2)
      BY ConcatMembers
    <3> QED BY <1>8, <1>9, <3>1
  <2>3. Tail(q) \o a \in Seq(1 .. n)
    BY <1>8, <1>9, ConcatProperties
  <2> QED BY <2>1, <2>2, <2>3, <1>7, <1>9, <1>11
<1>13. (Members(q) \ {h}) \cup freed
         = {m \in (1 .. n) \ (done \cup {h}) : needs[m] \subseteq done \cup {h}}
  <2>1. Members(q) = {m \in (1 .. n) \ done : needs[m] \subseteq done}
    BY DEF KahnState
  <2>2. freed \subseteq 1 .. n
    BY <1>0 DEF freed
  <2>3. \A m \in done : needs[m] \subseteq done
    BY DEF KahnState
  <2>4. ASSUME NEW m \in (1 .. n) \ (done \cup {h}), needs[m] \subseteq done \cup {h},
               m \notin Members(q)
        PROVE  m \in freed
    <3>1. ~ (needs[m] \subseteq done)
      BY <2>1, <2>4
    <3>2. h \in needs[m] /\ needs[m] \ done = {h}
      BY <2>4, <3>1
    <3> QED BY <1>5, <3>2
  <2>5. ASSUME NEW m \in freed
        PROVE  m \in (1 .. n) \ (done \cup {h}) /\ needs[m] \subseteq done \cup {h}
    <3>1. m \in 1 .. n /\ h \in needs[m] /\ needs[m] \ done = {h}
      BY <1>5, <2>2
    <3>2. h \notin done
      BY <1>3
    <3> QED BY <3>1, <3>2, <2>3, <1>3
  <2>6. ASSUME NEW m \in Members(q) \ {h}
        PROVE  m \in (1 .. n) \ (done \cup {h}) /\ needs[m] \subseteq done \cup {h}
    BY <2>1
  <2> QED BY <2>4, <2>5, <2>6
<1>14. \A m \in done \cup {h} : needs[m] \subseteq done \cup {h}
  BY <1>3 DEF KahnState
<1>15. done \cup {h} \subseteq 1 .. n
  BY <1>3 DEF KahnState
<1>16. KahnState(n, needs, done \cup {h}, w2, q2)
  BY <1>6, <1>12, <1>13, <1>14, <1>15 DEF KahnState
<1> QED BY <1>3, <1>16 DEF h, w2, q2

-----------------------------------------------------------------------------
(* The order of the skills.                                                *)

LEMMA PathConstants == SkillCount \in Nat /\ HourChoices \subseteq Nat /\ Budget \in Nat
  BY RecordsAssumptions DEF Path!PathAssumption

LEMMA SkillsFinite ==
    IsFiniteSet(1 .. SkillCount) /\ Cardinality(1 .. SkillCount) = SkillCount
  BY FS_Interval, PathConstants

GraphTyped == graph \in [1 .. SkillCount -> SUBSET (1 .. SkillCount)]

LEMMA NeedsItself == \A s \in 1 .. SkillCount : Path!Needs(s, s)
  BY DEF Path!Needs

LEMMA NeedsPrerequisite ==
    ASSUME NEW s \in 1 .. SkillCount, NEW p \in graph[s]
    PROVE  Path!Needs(s, p)
  BY DEF Path!Needs

LEMMA NeedsThrough ==
    ASSUME NEW a, NEW b, NEW c, Path!Needs(a, b), Path!Needs(b, c)
    PROVE  Path!Needs(a, c)
  BY DEF Path!Needs

\* What a skill of q needs comes before it, unless each needs the other.
PrerequisitesFirst(q) ==
    \A i \in 1 .. Len(q) : \A p \in graph[q[i]] :
        Path!Needs(p, q[i]) \/ \E k \in 1 .. i - 1 : q[k] = p

\* An order of some skills, each once.
PartialOrder(q) == q \in Seq(1 .. SkillCount) /\ Distinct(q) /\ PrerequisitesFirst(q)

LEMMA OrderGrows ==
    ASSUME NEW q, PartialOrder(q), NEW r \in Seq(1 .. SkillCount), Distinct(r),
           Members(q) \cap Members(r) = {},
           \A s \in Members(r) : \A p \in graph[s] : Path!Needs(p, s) \/ p \in Members(q)
    PROVE  PartialOrder(q \o r) /\ Members(q \o r) = Members(q) \cup Members(r)
<1>1. q \in Seq(1 .. SkillCount) /\ Distinct(q) /\ PrerequisitesFirst(q)
  BY DEF PartialOrder
<1>2. Distinct(q \o r)
  BY <1>1, ConcatDistinct
<1>3. Members(q \o r) = Members(q) \cup Members(r)
  <2>1. \A r1, r2 \in Seq(1 .. SkillCount) : Members(r1 \o r2) = Members(r1) \cup Members(r2)
    BY ConcatMembers
  <2> QED BY <1>1, <2>1
<1>4. /\ q \o r \in Seq(1 .. SkillCount) /\ Len(q \o r) = Len(q) + Len(r)
      /\ \A i \in 1 .. Len(q) + Len(r) :
           (q \o r)[i] = IF i <= Len(q) THEN q[i] ELSE r[i - Len(q)]
  BY <1>1, ConcatProperties
<1>5. Len(q) \in Nat /\ Len(r) \in Nat
  BY <1>1, LenProperties
<1>6. ASSUME NEW i \in 1 .. Len(q \o r), NEW p \in graph[(q \o r)[i]]
      PROVE  Path!Needs(p, (q \o r)[i]) \/ \E k \in 1 .. i - 1 : (q \o r)[k] = p
  <2>1. CASE i <= Len(q)
    <3>1. i \in 1 .. Len(q) /\ (q \o r)[i] = q[i]
      BY <1>4, <1>5, <2>1
    <3>2. Path!Needs(p, q[i]) \/ \E k \in 1 .. i - 1 : q[k] = p
      BY <1>1, <1>6, <3>1 DEF PrerequisitesFirst
    <3>3. \A k \in 1 .. i - 1 : (q \o r)[k] = q[k]
      BY <1>4, <1>5, <2>1
    <3> QED BY <3>1, <3>2, <3>3
  <2>2. CASE ~ (i <= Len(q))
    <3>1. i - Len(q) \in 1 .. Len(r) /\ (q \o r)[i] = r[i - Len(q)]
      BY <1>4, <1>5, <2>2
    <3>2. (q \o r)[i] \in Members(r)
      BY <3>1 DEF Members
    <3>3. CASE p \in Members(q)
      <4>1. PICK k \in 1 .. Len(q) : q[k] = p
        BY <3>3 DEF Members
      <4>2. k \in 1 .. i - 1 /\ (q \o r)[k] = p
        BY <1>4, <1>5, <2>2, <4>1
      <4> QED BY <4>2
    <3> QED BY <1>6, <3>2, <3>3
  <2> QED BY <2>1, <2>2
<1>7. PrerequisitesFirst(q \o r)
  BY <1>6 DEF PrerequisitesFirst
<1> QED BY <1>2, <1>3, <1>4, <1>7 DEF PartialOrder

KahnInv ==
    /\ PartialOrder(order)
    /\ KahnState(SkillCount, graph, Members(order), waits, queue)

\* The order, once it is complete.
OrderInv == PartialOrder(order) /\ Members(order) = 1 .. SkillCount

LEMMA SortStarts == ASSUME Path!Init, GraphTyped PROVE KahnInv
<1>1. order = <<>> /\ Members(order) = {} /\ Distinct(order) /\ PrerequisitesFirst(order)
  BY DEF Path!Init, Members, Distinct, PrerequisitesFirst
<1>2. PartialOrder(order)
  BY <1>1 DEF PartialOrder
<1>3. \A m \in 1 .. SkillCount : Path!Cardinality(graph[m]) = Cardinality(graph[m])
  BY DEF Path!Cardinality, Cardinality, Path!IsFiniteSet, IsFiniteSet
<1>4. /\ waits = [m \in 1 .. SkillCount |-> Cardinality(graph[m])]
      /\ queue = Path!Ascending({m \in 1 .. SkillCount : graph[m] = {}})
  BY <1>3 DEF Path!Init, Path!Skills
<1>5. KahnState(SkillCount, graph, {}, waits, queue)
  BY <1>4, KahnBegins, PathConstants DEF GraphTyped
<1> QED BY <1>1, <1>2, <1>5 DEF KahnInv

LEMMA SkillTaken ==
    ASSUME GraphTyped, KahnInv, Path!TakeSkill
    PROVE  KahnInv'
<1> DEFINE h == Head(queue)
<1>1. /\ queue # <<>> /\ order' = Append(order, h) /\ graph' = graph
      /\ waits' = CountsAfter(SkillCount, graph, waits, queue)
      /\ queue' = QueueAfter(SkillCount, graph, waits, queue)
  BY DEF Path!TakeSkill, Path!TakeHead, Path!Skills, CountsAfter, QueueAfter, Freeing
<1>2. /\ h \in (1 .. SkillCount) \ Members(order) /\ graph[h] \subseteq Members(order)
      /\ KahnState(SkillCount, graph, Members(order) \cup {h}, waits', queue')
  <2>1. KahnState(SkillCount, graph, Members(order), waits, queue)
    BY DEF KahnInv
  <2>2. graph \in [1 .. SkillCount -> SUBSET (1 .. SkillCount)] /\ SkillCount \in Nat
    BY PathConstants DEF GraphTyped
  <2> QED BY <1>1, <2>1, <2>2, KahnGoesOn
<1> HIDE DEF h
<1>3. /\ <<h>> \in Seq(1 .. SkillCount) /\ Distinct(<<h>>) /\ Members(<<h>>) = {h}
      /\ order' = order \o <<h>>
  <2>1. <<h>> \in Seq(1 .. SkillCount) /\ Len(<<h>>) = 1 /\ <<h>>[1] = h
    BY <1>2
  <2>2. \A i \in 1 .. 1 : i = 1
    OBVIOUS
  <2>3. Distinct(<<h>>) /\ Members(<<h>>) = {h}
    BY <2>1, <2>2 DEF Distinct, Members
  <2>4. order' = order \o <<h>>
    BY <1>1, <1>2, AppendIsConcat DEF KahnInv, PartialOrder
  <2> QED BY <2>1, <2>3, <2>4
<1>4. PartialOrder(order \o <<h>>) /\ Members(order \o <<h>>) = Members(order) \cup {h}
  <2>1. Members(order) \cap Members(<<h>>) = {}
    BY <1>2, <1>3
  <2>2. \A s \in Members(<<h>>) : \A p \in graph[s] : Path!Needs(p, s) \/ p \in Members(order)
    BY <1>2, <1>3
  <2> QED BY <1>3, <2>1, <2>2, OrderGrows DEF KahnInv
<1>5. PartialOrder(order)'
  BY <1>1, <1>3, <1>4 DEF PartialOrder, PrerequisitesFirst, Path!Needs
<1>6. KahnState(SkillCount, graph, Members(order), waits, queue)'
  BY <1>1, <1>2, <1>3, <1>4 DEF KahnState
<1> QED BY <1>5, <1>6 DEF KahnInv

LEMMA KahnOrders ==
    ASSUME KahnInv, Len(order) = SkillCount
    PROVE  OrderInv
<1>1. IsFiniteSet(1 .. SkillCount) /\ Cardinality(1 .. SkillCount) = SkillCount
  BY SkillsFinite
<1>2. order \in Seq(1 .. SkillCount) /\ Distinct(order)
  BY DEF KahnInv, PartialOrder
<1>3. Members(order) = 1 .. SkillCount
  BY <1>1, <1>2, DistinctCounts
<1> QED BY <1>3 DEF KahnInv, OrderInv

-----------------------------------------------------------------------------
(* Tarjan's algorithm.  The skills whose call is under way reach whatever  *)
(* is above them on the stack, and whatever is on the stack reaches one of *)
(* them at or below it: what is taken off the stack needs each other.  The *)
(* lowlink of a call is at most the number of any skill on the stack that  *)
(* was passed since it began: nothing left on the stack is needed by what  *)
(* is taken off.                                                           *)

Frames == [skill : 1 .. SkillCount, left : SUBSET (1 .. SkillCount)]

\* The skills whose call is under way.
Running == {calls[i].skill : i \in 1 .. Len(calls)}

\* s is in one of the first k components.
Found(s, k) == \E l \in 1 .. k : s \in Members(sccs[l])

\* The loop over the prerequisites of y has looked at p.
Passed(y, p) ==
    p \in graph[y] /\ \A i \in 1 .. Len(calls) : calls[i].skill = y => p \notin calls[i].left

\* x is the innermost call that began no later than y.
Owns(x, y) ==
    /\ x \in Running /\ index[x] <= index[y]
    /\ \A z \in Running : index[z] <= index[y] => index[z] <= index[x]

TarjanTyped ==
    /\ index \in [1 .. SkillCount -> Nat] /\ lowlink \in [1 .. SkillCount -> Nat]
    /\ stack \in Seq(1 .. SkillCount) /\ calls \in Seq(Frames)
    /\ sccs \in Seq(Seq(1 .. SkillCount))

NumbersRise ==
    /\ \A s \in 1 .. SkillCount : index[s] <= SkillCount - Cardinality(Path!Unseen)
    /\ \A i, j \in 1 .. Len(stack) : i < j => index[stack[i]] < index[stack[j]]
    /\ \A i, j \in 1 .. Len(calls) : i < j => index[calls[i].skill] < index[calls[j].skill]

SeenOnce ==
    /\ Running \subseteq Members(stack)
    /\ \A s \in 1 .. SkillCount :
          index[s] > 0 <=> s \in Members(stack) \/ Found(s, Len(sccs))

ComponentsSound ==
    /\ \A k \in 1 .. Len(sccs) :
          /\ sccs[k] # <<>> /\ Distinct(sccs[k]) /\ Members(sccs[k]) \cap Members(stack) = {}
          /\ \A l \in 1 .. Len(sccs) : k # l => Members(sccs[k]) \cap Members(sccs[l]) = {}
          /\ \A s \in Members(sccs[k]) : \A p \in graph[s] : Found(p, k)
          /\ \A a, b \in Members(sccs[k]) : Path!Needs(a, b)

StackConnected ==
    /\ \A x \in Running : \A y \in Members(stack) :
          index[x] <= index[y] => Path!Needs(x, y)
    /\ \A y \in Members(stack) :
          \E x \in Running : index[x] <= index[y] /\ Path!Needs(y, x)

LowlinksReach ==
    \A x \in Running :
        /\ lowlink[x] <= index[x]
        /\ \E w \in Members(stack) : index[w] = lowlink[x] /\ Path!Needs(x, w)

LowlinksReachAll ==
    \A x, y, p \in Members(stack) : Owns(x, y) /\ Passed(y, p) => lowlink[x] <= index[p]

PassedSeen ==
    \A y \in Members(stack) : \A p \in 1 .. SkillCount : Passed(y, p) => index[p] > 0

TarjanInv ==
    /\ TarjanTyped /\ NumbersRise /\ SeenOnce /\ ComponentsSound /\ StackConnected
    /\ LowlinksReach /\ LowlinksReachAll /\ PassedSeen

-----------------------------------------------------------------------------
LEMMA StackNumbers ==
    ASSUME TarjanInv
    PROVE  /\ \A x, y \in Members(stack) : index[x] = index[y] => x = y
           /\ Distinct(stack) /\ Members(stack) \subseteq 1 .. SkillCount
           /\ \A x \in 1 .. SkillCount : index[x] \in Nat /\ lowlink[x] \in Nat
           /\ Len(stack) \in Nat /\ Len(calls) \in Nat /\ Len(sccs) \in Nat
<1>1. stack \in [1 .. Len(stack) -> 1 .. SkillCount] /\ Len(stack) \in Nat
      /\ Len(calls) \in Nat /\ Len(sccs) \in Nat
  BY LenProperties DEF TarjanInv, TarjanTyped
<1>2. \A x \in 1 .. SkillCount : index[x] \in Nat /\ lowlink[x] \in Nat
  BY DEF TarjanInv, TarjanTyped
<1>3. ASSUME NEW i \in 1 .. Len(stack), NEW j \in 1 .. Len(stack),
             index[stack[i]] = index[stack[j]]
      PROVE  i = j
  <2>1. index[stack[i]] \in Nat
    BY <1>1, <1>2
  <2>2. ~ (i < j) /\ ~ (j < i)
    BY <1>3, <2>1 DEF TarjanInv, NumbersRise
  <2> QED BY <1>1, <2>2
<1> QED BY <1>1, <1>2, <1>3 DEF Members, Distinct

LEMMA InnermostCall ==
    ASSUME TarjanInv, calls # <<>>
    PROVE  LET s == Path!Innermost.skill
           IN /\ Len(calls) \in Nat \ {0} /\ Path!Innermost = calls[Len(calls)]
              /\ calls[Len(calls)] \in Frames
              /\ s \in Running /\ s \in Members(stack) /\ s \in 1 .. SkillCount
              /\ \A x \in Running : index[x] <= index[s]
              /\ \A x \in Running : x # s => index[x] < index[s]
              /\ \A i \in 1 .. Len(calls) : calls[i].skill = s => i = Len(calls)
              /\ \A i \in 1 .. Len(calls) : calls[i] \in Frames /\ calls[i].skill \in Running
              /\ \A x \in Running : Owns(x, s) => x = s
              /\ \A y \in Members(stack) : index[s] <= index[y] => Owns(s, y)
<1> DEFINE n == Len(calls)  s == Path!Innermost.skill
<1>1. /\ n \in Nat \ {0} /\ calls \in [1 .. n -> Frames]
      /\ Path!Innermost = calls[n] /\ calls[n] \in Frames
  <2>1. calls \in Seq(Frames)
    BY DEF TarjanInv, TarjanTyped
  <2>2. n \in Nat /\ calls \in [1 .. n -> Frames] /\ n # 0
    BY <2>1, LenProperties, EmptySeq
  <2> QED BY <2>2 DEF Path!Innermost
<1>2. s = calls[n].skill /\ s \in Running
  BY <1>1 DEF Running
<1>3. s \in Members(stack) /\ s \in 1 .. SkillCount
  BY <1>2, StackNumbers DEF TarjanInv, SeenOnce
<1>4. \A i \in 1 .. n : calls[i] \in Frames /\ calls[i].skill \in Running
                        /\ calls[i].skill \in 1 .. SkillCount
  BY <1>1 DEF Running, Frames
<1> HIDE DEF s
<1>5. \A i \in 1 .. n : i # n => index[calls[i].skill] < index[s]
  <2>0. n \in Nat \ {0}
    BY <1>1
  <2>1. \A i \in 1 .. n : i # n => i < n
    BY <2>0
  <2>2. n \in 1 .. n
    BY <2>0
  <2> QED BY <1>2, <2>1, <2>2 DEF TarjanInv, NumbersRise
<1>6. \A i \in 1 .. n : calls[i].skill = s => i = n
  <2>1. index[s] \in Nat
    BY <1>3, StackNumbers
  <2> QED BY <1>5, <2>1
<1>7. ASSUME NEW x \in Running
      PROVE  index[x] <= index[s] /\ (x # s => index[x] < index[s])
  <2>1. PICK i \in 1 .. n : x = calls[i].skill
    BY DEF Running
  <2>2. index[s] \in Nat /\ index[x] \in Nat
    BY <1>3, <1>4, <2>1, StackNumbers
  <2> QED BY <1>2, <1>5, <2>1, <2>2
<1>8. ASSUME NEW x \in Running, Owns(x, s) PROVE x = s
  <2>1. index[s] \in Nat /\ index[x] \in Nat
    BY <1>2, <1>3, StackNumbers DEF TarjanInv, SeenOnce
  <2>2. index[s] <= index[x]
    BY <1>2, <1>8, <2>1 DEF Owns
  <2> QED BY <1>7, <2>1, <2>2
<1>9. \A y \in Members(stack) : index[s] <= index[y] => Owns(s, y)
  BY <1>2, <1>7 DEF Owns
<1> QED BY <1>1, <1>2, <1>3, <1>4, <1>6, <1>7, <1>8, <1>9 DEF s

-----------------------------------------------------------------------------
\* strongconnect(s) begins.
LEMMA CallBegins ==
    ASSUME GraphTyped, TarjanInv, graph' = graph, NEW s \in 1 .. SkillCount, index[s] = 0,
           NEW outer \in Seq(Frames), Len(outer) = Len(calls),
           \A i \in 1 .. Len(calls) : /\ outer[i].skill = calls[i].skill
                                      /\ calls[i].left \subseteq outer[i].left \cup {s},
           calls # <<>> => s \in graph[Path!Innermost.skill],
           Path!Enter(s, outer)
    PROVE  TarjanInv'
<1> DEFINE number == SkillCount - Path!Cardinality(Path!Unseen) + 1
<1>0. Path!Cardinality(Path!Unseen) = Cardinality(Path!Unseen)
  BY DEF Path!Cardinality, Cardinality, Path!IsFiniteSet, IsFiniteSet
<1>1. /\ index' = [index EXCEPT ![s] = number] /\ lowlink' = [lowlink EXCEPT ![s] = number]
      /\ stack' = Append(stack, s) /\ calls' = Append(outer, [skill |-> s, left |-> graph[s]])
      /\ sccs' = sccs
  BY DEF Path!Enter
<1>2. TarjanTyped
  BY DEF TarjanInv
<1>3. /\ IsFiniteSet(Path!Unseen) /\ Cardinality(Path!Unseen) \in Nat
      /\ Cardinality(Path!Unseen) <= SkillCount
      /\ Path!Unseen' = Path!Unseen \ {s} /\ s \in Path!Unseen
  <2>1. IsFiniteSet(1 .. SkillCount) /\ Cardinality(1 .. SkillCount) = SkillCount
    BY SkillsFinite
  <2>2. Path!Unseen \in SUBSET (1 .. SkillCount)
    BY DEF Path!Unseen, Path!Skills
  <2>3. IsFiniteSet(Path!Unseen) /\ Cardinality(Path!Unseen) <= SkillCount
    BY <2>1, <2>2, FS_Subset
  <2>4. number \in Int
    BY <1>0, <2>3, PathConstants, FS_CardinalityType
  <2>5. number # 0
    BY <1>0, <2>3, PathConstants, FS_CardinalityType
  <2>6. Path!Unseen' = Path!Unseen \ {s} /\ s \in Path!Unseen
    <3> HIDE DEF number
    <3> QED BY <1>1, <1>2, <2>5 DEF Path!Unseen, Path!Skills, TarjanTyped
  <2> QED BY <2>3, <2>6, FS_CardinalityType
<1>4. /\ number \in Nat \ {0} /\ number = SkillCount - Cardinality(Path!Unseen')
      /\ \A x \in 1 .. SkillCount : index[x] < number
  <2>1. Cardinality(Path!Unseen') = Cardinality(Path!Unseen) - 1
    BY <1>3, FS_RemoveElement
  <2>2. number \in Nat \ {0} /\ number = SkillCount - Cardinality(Path!Unseen')
    BY <1>0, <1>3, <2>1, PathConstants
  <2>3. \A x \in 1 .. SkillCount : index[x] <= SkillCount - Cardinality(Path!Unseen)
                                   /\ index[x] \in Nat
    BY StackNumbers DEF TarjanInv, NumbersRise
  <2> QED BY <1>0, <1>3, <2>2, <2>3, PathConstants
<1> HIDE DEF number
<1>5. /\ Len(stack) \in Nat /\ Len(calls) \in Nat /\ Members(stack) \subseteq 1 .. SkillCount
      /\ \A x \in 1 .. SkillCount : index[x] \in Nat /\ lowlink[x] \in Nat
  BY StackNumbers
<1>6. s \notin Members(stack) /\ ~ Found(s, Len(sccs))
  BY DEF TarjanInv, SeenOnce
<1>7. /\ index'[s] = number /\ lowlink'[s] = number
      /\ \A x \in 1 .. SkillCount : x # s => index'[x] = index[x] /\ lowlink'[x] = lowlink[x]
      /\ index' \in [1 .. SkillCount -> Nat] /\ lowlink' \in [1 .. SkillCount -> Nat]
  BY <1>1, <1>2, <1>4 DEF TarjanTyped
<1>8. /\ stack' \in Seq(1 .. SkillCount) /\ Len(stack') = Len(stack) + 1
      /\ \A i \in 1 .. Len(stack) : stack'[i] = stack[i]
      /\ stack'[Len(stack) + 1] = s
  BY <1>1, <1>2, AppendProperties DEF TarjanTyped
<1>9. Members(stack') = Members(stack) \cup {s}
  <2>1. \A i \in 1 .. Len(stack) + 1 : i \in 1 .. Len(stack) \/ i = Len(stack) + 1
    BY <1>5
  <2>2. \A i \in 1 .. Len(stack) : i \in 1 .. Len(stack) + 1
    BY <1>5
  <2>3. Len(stack) + 1 \in 1 .. Len(stack) + 1
    BY <1>5
  <2> QED BY <1>8, <2>1, <2>2, <2>3 DEF Members
<1>10. [skill |-> s, left |-> graph[s]] \in Frames
  BY DEF GraphTyped, Frames
<1>11. /\ calls' \in Seq(Frames) /\ Len(calls') = Len(calls) + 1
       /\ \A i \in 1 .. Len(calls) : calls'[i] = outer[i]
       /\ calls'[Len(calls) + 1] = [skill |-> s, left |-> graph[s]]
  BY <1>1, <1>10, AppendProperties
<1>12. \A i \in 1 .. Len(calls) + 1 : i \in 1 .. Len(calls) \/ i = Len(calls) + 1
  BY <1>5
<1>13. \A i \in 1 .. Len(calls) : calls'[i].skill = calls[i].skill
  BY <1>11
<1>14. Running' = Running \cup {s}
  <2>1. \A i \in 1 .. Len(calls) : i \in 1 .. Len(calls) + 1
    BY <1>5
  <2>2. Len(calls) + 1 \in 1 .. Len(calls) + 1
    BY <1>5
  <2>3. calls'[Len(calls) + 1].skill = s
    BY <1>11
  <2> QED BY <1>11, <1>12, <1>13, <2>1, <2>2, <2>3 DEF Running
<1>15. Running \subseteq Members(stack)
  BY DEF TarjanInv, SeenOnce
<1>16. \A x \in Members(stack) : /\ x \in 1 .. SkillCount /\ x # s /\ index'[x] = index[x]
                                 /\ index[x] < number /\ lowlink'[x] = lowlink[x]
  BY <1>4, <1>5, <1>6, <1>7
<1>17. \A a, b : Path!Needs(a, b)' <=> Path!Needs(a, b)
  BY DEF Path!Needs
<1>18. TarjanTyped'
  BY <1>1, <1>2, <1>7, <1>8, <1>11 DEF TarjanTyped
<1>19. NumbersRise'
  <2>1. \A x \in 1 .. SkillCount : index'[x] <= number
    BY <1>4, <1>5, <1>7
  <2>2. ASSUME NEW i \in 1 .. Len(stack'), NEW j \in 1 .. Len(stack'), i < j
        PROVE  index'[stack'[i]] < index'[stack'[j]]
    <3>1. i \in 1 .. Len(stack) /\ stack'[i] = stack[i] /\ stack[i] \in Members(stack)
      BY <1>5, <1>8, <2>2 DEF Members
    <3>2. CASE j = Len(stack) + 1
      BY <1>7, <1>8, <1>16, <3>1, <3>2
    <3>3. CASE j # Len(stack) + 1
      <4>1. j \in 1 .. Len(stack) /\ stack'[j] = stack[j] /\ stack[j] \in Members(stack)
        BY <1>5, <1>8, <2>2, <3>3 DEF Members
      <4>2. index[stack[i]] < index[stack[j]]
        BY <2>2, <3>1, <4>1 DEF TarjanInv, NumbersRise
      <4> QED BY <1>16, <3>1, <4>1, <4>2
    <3> QED BY <3>2, <3>3
  <2>3. ASSUME NEW i \in 1 .. Len(calls'), NEW j \in 1 .. Len(calls'), i < j
        PROVE  index'[calls'[i].skill] < index'[calls'[j].skill]
    <3>1. i \in 1 .. Len(calls) /\ calls'[i].skill = calls[i].skill
          /\ calls[i].skill \in Members(stack)
      BY <1>5, <1>11, <1>13, <1>15, <2>3 DEF Running
    <3>2. CASE j = Len(calls) + 1
      <4>1. calls'[j].skill = s
        BY <1>11, <3>2
      <4> QED BY <1>7, <1>16, <3>1, <4>1
    <3>3. CASE j # Len(calls) + 1
      <4>1. j \in 1 .. Len(calls) /\ calls'[j].skill = calls[j].skill
            /\ calls[j].skill \in Members(stack)
        BY <1>5, <1>11, <1>13, <1>15, <2>3, <3>3 DEF Running
      <4>2. index[calls[i].skill] < index[calls[j].skill]
        BY <2>3, <3>1, <4>1 DEF TarjanInv, NumbersRise
      <4> QED BY <1>16, <3>1, <4>1, <4>2
    <3> QED BY <3>2, <3>3
  <2> QED BY <1>4, <2>1, <2>2, <2>3 DEF NumbersRise
<1>20. \A x, k : Found(x, k)' <=> Found(x, k)
  BY <1>1 DEF Found
<1>21. SeenOnce'
  <2>1. \A x \in 1 .. SkillCount :
           index'[x] > 0 <=> x \in Members(stack') \/ Found(x, Len(sccs))
    BY <1>4, <1>7, <1>9 DEF TarjanInv, SeenOnce
  <2> QED BY <1>1, <1>9, <1>14, <1>15, <1>20, <2>1 DEF SeenOnce
<1>22. ComponentsSound'
  <2>1. \A k \in 1 .. Len(sccs) : s \notin Members(sccs[k])
    BY <1>6 DEF Found
  <2>2. \A k \in 1 .. Len(sccs) : Members(sccs[k]) \cap Members(stack') = {}
    BY <1>9, <2>1 DEF TarjanInv, ComponentsSound
  <2>3. sccs' = sccs /\ graph' = graph
    BY <1>1
  <2>4. ASSUME NEW k \in 1 .. Len(sccs)
        PROVE  /\ sccs[k] # <<>> /\ Distinct(sccs[k])
               /\ \A l \in 1 .. Len(sccs) : k # l => Members(sccs[k]) \cap Members(sccs[l]) = {}
               /\ \A x \in Members(sccs[k]) : \A p \in graph[x] : Found(p, k)'
               /\ \A a, b \in Members(sccs[k]) : Path!Needs(a, b)'
    BY <1>17, <1>20 DEF TarjanInv, ComponentsSound
  <2> QED BY <2>2, <2>3, <2>4 DEF ComponentsSound
<1>23. StackConnected'
  <2>1. ASSUME NEW x \in Running', NEW y \in Members(stack'), index'[x] <= index'[y]
        PROVE  Path!Needs(x, y)
    <3>1. CASE x = s
      <4>1. y = s
        BY <1>4, <1>7, <1>9, <1>16, <2>1, <3>1
      <4> QED BY <3>1, <4>1, NeedsItself
    <3>2. CASE x # s /\ y = s
      <4>1. x \in Running /\ calls # <<>>
        BY <1>5, <1>14, <3>2 DEF Running
      <4> DEFINE caller == Path!Innermost.skill
      <4>2. caller \in Members(stack) /\ caller \in 1 .. SkillCount /\ index[x] <= index[caller]
        BY <4>1, InnermostCall
      <4>3. Path!Needs(x, caller)
        BY <4>1, <4>2 DEF TarjanInv, StackConnected
      <4>4. Path!Needs(caller, s)
        BY <4>1, <4>2, NeedsPrerequisite
      <4> HIDE DEF caller
      <4> QED BY <3>2, <4>3, <4>4, NeedsThrough
    <3>3. CASE x # s /\ y # s
      <4>1. x \in Running /\ y \in Members(stack) /\ index[x] <= index[y]
        BY <1>9, <1>14, <1>15, <1>16, <2>1, <3>3
      <4> QED BY <4>1 DEF TarjanInv, StackConnected
    <3> QED BY <3>1, <3>2, <3>3
  <2>2. ASSUME NEW y \in Members(stack')
        PROVE  \E x \in Running' : index'[x] <= index'[y] /\ Path!Needs(y, x)
    <3>1. CASE y = s
      BY <1>4, <1>7, <1>14, <3>1, NeedsItself
    <3>2. CASE y # s
      <4>1. PICK x \in Running : index[x] <= index[y] /\ Path!Needs(y, x)
        BY <1>9, <3>2 DEF TarjanInv, StackConnected
      <4> QED BY <1>9, <1>14, <1>15, <1>16, <3>2, <4>1
    <3> QED BY <3>1, <3>2
  <2> QED BY <1>17, <2>1, <2>2 DEF StackConnected
<1>24. LowlinksReach'
  <2>1. ASSUME NEW x \in Running'
        PROVE  /\ lowlink'[x] <= index'[x]
               /\ \E w \in Members(stack') : index'[w] = lowlink'[x] /\ Path!Needs(x, w)
    <3>1. CASE x = s
      BY <1>4, <1>7, <1>9, <3>1, NeedsItself
    <3>2. CASE x # s
      <4>1. x \in Running /\ x \in Members(stack)
        BY <1>14, <1>15, <3>2
      <4>2. PICK w \in Members(stack) : index[w] = lowlink[x] /\ Path!Needs(x, w)
        BY <4>1 DEF TarjanInv, LowlinksReach
      <4>3. lowlink[x] <= index[x]
        BY <4>1 DEF TarjanInv, LowlinksReach
      <4> QED BY <1>9, <1>16, <4>1, <4>2, <4>3
    <3> QED BY <3>1, <3>2
  <2> QED BY <1>17, <2>1 DEF LowlinksReach
<1>25. \A p : ~ Passed(s, p)'
  <2>1. Len(calls) + 1 \in 1 .. Len(calls')
    BY <1>5, <1>11
  <2>2. calls'[Len(calls) + 1].skill = s /\ calls'[Len(calls) + 1].left = graph[s]
    BY <1>11
  <2> QED BY <2>1, <2>2 DEF Passed
<1>26. ASSUME NEW y \in Members(stack), NEW p, p # s, Passed(y, p)' PROVE Passed(y, p)
  <2>1. p \in graph[y]
    BY <1>26 DEF Passed
  <2>2. ASSUME NEW i \in 1 .. Len(calls), calls[i].skill = y PROVE p \notin calls[i].left
    <3>1. i \in 1 .. Len(calls') /\ calls'[i].skill = y /\ calls'[i].left = outer[i].left
      BY <1>5, <1>11, <1>13, <2>2
    <3>2. p \notin outer[i].left
      BY <1>26, <3>1 DEF Passed
    <3> QED BY <1>26, <3>2
  <2> QED BY <2>1, <2>2 DEF Passed
<1>27. LowlinksReachAll'
  <2>1. ASSUME NEW x \in Members(stack'), NEW y \in Members(stack'), NEW p \in Members(stack'),
               Owns(x, y)', Passed(y, p)'
        PROVE  lowlink'[x] <= index'[p]
    <3>1. y \in Members(stack) /\ y # s
      BY <1>9, <1>16, <1>25, <2>1
    <3>2. x \in Running /\ x \in Members(stack) /\ index[x] <= index[y]
      <4>1. x \in Running' /\ index'[x] <= index'[y]
        BY <2>1 DEF Owns
      <4>2. x # s
        BY <1>4, <1>5, <1>7, <1>16, <3>1, <4>1
      <4> QED BY <1>14, <1>15, <1>16, <3>1, <4>1, <4>2
    <3>3. CASE p = s
      <4>1. lowlink[x] <= index[x]
        BY <3>2 DEF TarjanInv, LowlinksReach
      <4> QED BY <1>4, <1>5, <1>7, <1>16, <3>2, <3>3, <4>1
    <3>4. CASE p # s
      <4>1. p \in Members(stack)
        BY <1>9, <3>4
      <4>2. \A z \in Running : index[z] <= index[y] => index[z] <= index[x]
        <5>1. \A z \in Running' : index'[z] <= index'[y] => index'[z] <= index'[x]
          BY <2>1 DEF Owns
        <5> QED BY <1>14, <1>15, <1>16, <3>1, <3>2, <5>1
      <4>3. Owns(x, y)
        BY <3>2, <4>2 DEF Owns
      <4>4. lowlink[x] <= index[p]
        BY <1>26, <2>1, <3>1, <3>2, <3>4, <4>1, <4>3 DEF TarjanInv, LowlinksReachAll
      <4> QED BY <1>16, <3>2, <4>1, <4>4
    <3> QED BY <3>3, <3>4
  <2> QED BY <2>1 DEF LowlinksReachAll
<1>28. PassedSeen'
  <2>1. ASSUME NEW y \in Members(stack'), NEW p \in 1 .. SkillCount, Passed(y, p)'
        PROVE  index'[p] > 0
    <3>1. y \in Members(stack)
      BY <1>9, <1>25, <2>1
    <3>2. CASE p = s
      BY <1>4, <1>7, <3>2
    <3>3. CASE p # s
      <4>1. index[p] > 0
        BY <1>26, <2>1, <3>1, <3>3 DEF TarjanInv, PassedSeen
      <4> QED BY <1>7, <3>3, <4>1
    <3> QED BY <3>2, <3>3
  <2> QED BY <2>1 DEF PassedSeen
<1> QED BY <1>18, <1>19, <1>21, <1>22, <1>23, <1>24, <1>27, <1>28 DEF TarjanInv

LEMMA LeastOf == \A a, b \in Nat : /\ Path!Least(a, b) \in Nat
                                   /\ Path!Least(a, b) <= a /\ Path!Least(a, b) <= b
                                   /\ Path!Least(a, b) \in {a, b}
  BY DEF Path!Least

LEMMA FrameChanged ==
    ASSUME NEW c \in Frames, NEW l
    PROVE  [c EXCEPT !.left = l] = [skill |-> c.skill, left |-> l]
  BY DEF Frames

\* The innermost call has looked at p.
LEMMA FrameLooked ==
    ASSUME TarjanInv, calls # <<>>, NEW p, NEW outer,
           outer = [calls EXCEPT ![Len(calls)].left = @ \ {p}]
    PROVE  /\ outer \in Seq(Frames) /\ Len(outer) = Len(calls)
           /\ \A i \in 1 .. Len(calls) :
                /\ outer[i].skill = calls[i].skill
                /\ outer[i].left = IF i = Len(calls) THEN calls[i].left \ {p}
                                   ELSE calls[i].left
<1> DEFINE n == Len(calls)
           f == [skill |-> calls[n].skill, left |-> calls[n].left \ {p}]
<1>1. n \in Nat \ {0} /\ calls[n] \in Frames /\ calls \in Seq(Frames)
  BY InnermostCall DEF TarjanInv, TarjanTyped
<1>2. f \in Frames /\ n \in 1 .. n
  BY <1>1 DEF Frames
<1>3. [calls[n] EXCEPT !.left = calls[n].left \ {p}] = f
  BY <1>1, FrameChanged
<1>4. outer = [calls EXCEPT ![n] = f]
  BY <1>3
<1>5. f.skill = calls[n].skill /\ f.left = calls[n].left \ {p}
  OBVIOUS
<1> HIDE DEF f
<1>6. /\ outer \in Seq(Frames) /\ Len(outer) = n
      /\ \A i \in 1 .. n : outer[i] = IF i = n THEN f ELSE calls[i]
  <2> HIDE DEF n
  <2>1. n = Len(calls)
    BY DEF n
  <2>2. /\ [calls EXCEPT ![n] = f] \in Seq(Frames)
        /\ Len([calls EXCEPT ![n] = f]) = Len(calls)
        /\ \A i \in 1 .. Len(calls) :
             [calls EXCEPT ![n] = f][i] = IF i = n THEN f ELSE calls[i]
    BY <1>1, <1>2, <2>1, ExceptSeq
  <2> QED BY <1>4, <2>1, <2>2
<1>7. \A i \in 1 .. n : /\ outer[i].skill = calls[i].skill
                        /\ outer[i].left = IF i = n THEN calls[i].left \ {p} ELSE calls[i].left
  <2> SUFFICES ASSUME NEW i \in 1 .. n
               PROVE  /\ outer[i].skill = calls[i].skill
                      /\ outer[i].left = IF i = n THEN calls[i].left \ {p} ELSE calls[i].left
    OBVIOUS
  <2>1. CASE i = n
    <3>1. outer[i] = f
      BY <1>6, <2>1
    <3> QED BY <1>5, <2>1, <3>1
  <2>2. CASE i # n
    <3>1. outer[i] = calls[i]
      BY <1>6, <2>2
    <3> QED BY <2>2, <3>1
  <2> QED BY <2>1, <2>2
<1> QED BY <1>6, <1>7

\* A prerequisite that was seen before is passed.
LEMMA SkillPassed ==
    ASSUME GraphTyped, TarjanInv, calls # <<>>, graph' = graph,
           NEW p \in Path!Innermost.left, p \in graph[Path!Innermost.skill], index[p] # 0,
           calls' = [calls EXCEPT ![Len(calls)].left = @ \ {p}],
           lowlink' = [lowlink EXCEPT ![Path!Innermost.skill] =
               IF p \in Path!Range(stack) THEN Path!Least(@, index[p]) ELSE @],
           UNCHANGED <<stack, index, sccs>>
    PROVE  TarjanInv'
<1> DEFINE s == Path!Innermost.skill  n == Len(calls)
<1>1. /\ n \in Nat \ {0} /\ Path!Innermost = calls[n] /\ calls[n] \in Frames
      /\ s \in Running /\ s \in Members(stack) /\ s \in 1 .. SkillCount
      /\ \A i \in 1 .. n : calls[i].skill = s => i = n
      /\ \A i \in 1 .. n : calls[i] \in Frames
      /\ \A x \in Running : Owns(x, s) => x = s
  BY InnermostCall
<1>2. TarjanTyped
  BY DEF TarjanInv
<1>3. p \in 1 .. SkillCount /\ index[p] \in Nat /\ lowlink[s] \in Nat /\ index[p] > 0
  <2>1. p \in 1 .. SkillCount
    BY <1>1 DEF GraphTyped
  <2> QED BY <1>1, <2>1, StackNumbers
<1>4. Path!Range(stack) = Members(stack)
  BY <1>2, MembersOf DEF TarjanTyped
<1>5. /\ calls' \in Seq(Frames) /\ Len(calls') = n
      /\ \A i \in 1 .. n : /\ calls'[i].skill = calls[i].skill
                            /\ calls'[i].left = IF i = n THEN calls[i].left \ {p}
                                                ELSE calls[i].left
  <2> DEFINE outer == [calls EXCEPT ![Len(calls)].left = @ \ {p}]
  <2>1. calls' = outer
    OBVIOUS
  <2>2. /\ outer \in Seq(Frames) /\ Len(outer) = Len(calls)
        /\ \A i \in 1 .. Len(calls) :
             /\ outer[i].skill = calls[i].skill
             /\ outer[i].left = IF i = Len(calls) THEN calls[i].left \ {p} ELSE calls[i].left
    BY FrameLooked
  <2> HIDE DEF outer
  <2> QED BY <2>1, <2>2
<1>7. Running' = Running
  BY <1>5 DEF Running
<1>8. /\ lowlink' \in [1 .. SkillCount -> Nat]
      /\ \A x \in 1 .. SkillCount : lowlink'[x] <= lowlink[x]
      /\ \A x \in 1 .. SkillCount : lowlink'[x] # lowlink[x]
                                      => x = s /\ p \in Members(stack) /\ lowlink'[x] = index[p]
      /\ p \in Members(stack) => lowlink'[s] <= index[p]
  <2> DEFINE low == IF p \in Members(stack) THEN Path!Least(lowlink[s], index[p]) ELSE lowlink[s]
  <2>1. /\ low \in Nat /\ low <= lowlink[s]
        /\ p \in Members(stack) => low <= index[p]
        /\ low # lowlink[s] => p \in Members(stack) /\ low = index[p]
    BY <1>3, LeastOf
  <2>2. lowlink' = [lowlink EXCEPT ![s] = low]
    BY <1>4
  <2> HIDE DEF low, s
  <2>3. \A x \in 1 .. SkillCount : lowlink[x] \in Nat
    BY StackNumbers
  <2>4. /\ lowlink' \in [1 .. SkillCount -> Nat] /\ lowlink'[s] = low
        /\ \A x \in 1 .. SkillCount : x # s => lowlink'[x] = lowlink[x]
    <3>1. lowlink \in [1 .. SkillCount -> Nat] /\ s \in 1 .. SkillCount /\ low \in Nat
      BY <1>1, <1>2, <2>1 DEF TarjanTyped
    <3> QED BY <2>2, <3>1
  <2>5. \A x \in 1 .. SkillCount : lowlink'[x] <= lowlink[x]
    BY <2>1, <2>3, <2>4
  <2> QED BY <2>1, <2>4, <2>5
<1> HIDE DEF s
<1>9. \A a, b : Path!Needs(a, b)' <=> Path!Needs(a, b)
  BY DEF Path!Needs
<1>10. Running \subseteq Members(stack) /\ Members(stack) \subseteq 1 .. SkillCount
       /\ \A x \in 1 .. SkillCount : index[x] \in Nat /\ lowlink[x] \in Nat
  BY StackNumbers DEF TarjanInv, SeenOnce
<1>11. TarjanTyped'
  BY <1>2, <1>5, <1>8 DEF TarjanTyped
<1>12. NumbersRise'
  BY <1>5 DEF TarjanInv, NumbersRise, Path!Unseen
<1>13. SeenOnce'
  BY <1>7 DEF TarjanInv, SeenOnce, Found
<1>14. ComponentsSound'
  <2>1. \A k \in 1 .. Len(sccs) : \A a, b \in Members(sccs[k]) : Path!Needs(a, b)'
    BY <1>9 DEF TarjanInv, ComponentsSound
  <2> QED BY <2>1 DEF TarjanInv, ComponentsSound, Found
<1>15. StackConnected'
  BY <1>7, <1>9 DEF TarjanInv, StackConnected
<1>16. LowlinksReach'
  <2>1. ASSUME NEW x \in Running
        PROVE  /\ lowlink'[x] <= index[x]
               /\ \E w \in Members(stack) : index[w] = lowlink'[x] /\ Path!Needs(x, w)
    <3>1. /\ lowlink[x] <= index[x]
          /\ \E w \in Members(stack) : index[w] = lowlink[x] /\ Path!Needs(x, w)
      BY DEF TarjanInv, LowlinksReach
    <3>2. CASE lowlink'[x] = lowlink[x]
      BY <3>1, <3>2
    <3>3. CASE lowlink'[x] # lowlink[x]
      <4>1. x = s /\ p \in Members(stack) /\ lowlink'[x] = index[p]
        BY <1>8, <1>10, <3>3
      <4>2. Path!Needs(s, p)
        BY <1>1, NeedsPrerequisite DEF s
      <4>3. lowlink'[x] \in Nat /\ lowlink[x] \in Nat /\ index[x] \in Nat
            /\ lowlink'[x] <= lowlink[x]
        BY <1>8, <1>10
      <4> QED BY <3>1, <4>1, <4>2, <4>3
    <3> QED BY <3>2, <3>3
  <2> QED BY <1>7, <1>9, <2>1 DEF LowlinksReach
<1>17. ASSUME NEW y, NEW q, Passed(y, q)' PROVE Passed(y, q) \/ (y = s /\ q = p)
  <2>1. q \in graph[y]
    BY <1>17 DEF Passed
  <2>2. \A i \in 1 .. n : calls[i].skill = y => q \notin calls'[i].left
    BY <1>5, <1>17 DEF Passed
  <2>3. calls[n].skill = s
    BY <1>1 DEF s
  <2> QED BY <1>5, <2>1, <2>2, <2>3 DEF Passed
<1>18. \A x, y : Owns(x, y)' <=> Owns(x, y)
  BY <1>7 DEF Owns
<1>19. LowlinksReachAll'
  <2>1. ASSUME NEW x \in Members(stack), NEW y \in Members(stack), NEW q \in Members(stack),
               Owns(x, y), Passed(y, q)'
        PROVE  lowlink'[x] <= index[q]
    <3>1. CASE Passed(y, q)
      <4>1. lowlink[x] <= index[q]
        BY <2>1, <3>1 DEF TarjanInv, LowlinksReachAll
      <4>2. lowlink'[x] <= lowlink[x] /\ lowlink'[x] \in Nat /\ lowlink[x] \in Nat
            /\ index[q] \in Nat
        BY <1>8, <1>10
      <4> QED BY <4>1, <4>2
    <3>2. CASE y = s /\ q = p
      <4>1. x = s
        BY <1>1, <2>1, <3>2 DEF Owns, s
      <4> QED BY <1>8, <3>2, <4>1
    <3> QED BY <1>17, <2>1, <3>1, <3>2
  <2>2. stack' = stack /\ index' = index
    OBVIOUS
  <2> QED BY <1>18, <2>1, <2>2 DEF LowlinksReachAll
<1>20. PassedSeen'
  <2>1. ASSUME NEW y \in Members(stack), NEW q \in 1 .. SkillCount, Passed(y, q)'
        PROVE  index[q] > 0
    BY <1>3, <1>17, <2>1 DEF TarjanInv, PassedSeen
  <2> QED BY <2>1 DEF PassedSeen
<1> QED BY <1>11, <1>12, <1>13, <1>14, <1>15, <1>16, <1>19, <1>20 DEF TarjanInv

\* The frames loop over prerequisites only.
FramesLoop == \A i \in 1 .. Len(calls) : calls[i].left \subseteq graph[calls[i].skill]

LEMMA RootBegins ==
    ASSUME GraphTyped, TarjanInv, Path!EnterRoot
    PROVE  TarjanInv'
<1> DEFINE s == Head(Path!Ascending(Path!Unseen))
<1>1. calls = <<>> /\ graph' = graph /\ Path!Enter(s, calls)
  BY DEF Path!EnterRoot
<1>2. s \in 1 .. SkillCount /\ index[s] = 0
  <2>1. Path!Unseen \in SUBSET (1 .. SkillCount) /\ Path!Unseen # {}
    BY DEF Path!EnterRoot, Path!Unseen, Path!Skills
  <2> DEFINE q == Path!Ascending(Path!Unseen)
  <2>2. q \in Seq(Path!Unseen) /\ Members(q) = Path!Unseen
    BY <2>1, AscendingFacts, PathConstants
  <2> HIDE DEF q
  <2>3. q # <<>>
    BY <2>1, <2>2, MembersOf
  <2>4. Head(q) \in Path!Unseen
    BY <2>2, <2>3, HeadTailProperties
  <2> QED BY <2>4 DEF q, Path!Unseen, Path!Skills
<1>3. Len(calls) = 0 /\ calls \in Seq(Frames)
  BY <1>1 DEF TarjanInv, TarjanTyped
<1> HIDE DEF s
<1>4. \A i \in 1 .. Len(calls) : /\ calls[i].skill = calls[i].skill
                                 /\ calls[i].left \subseteq calls[i].left \cup {s}
  OBVIOUS
<1> QED BY <1>1, <1>2, <1>3, <1>4, CallBegins

LEMMA PrerequisiteLooked ==
    ASSUME GraphTyped, TarjanInv, FramesLoop, Path!Look
    PROVE  TarjanInv'
<1>1. calls # <<>> /\ graph' = graph
  BY DEF Path!Look
<1>2. PICK p \in Path!Innermost.left : Path!LookAt(p)
  BY DEF Path!Look
<1> DEFINE s == Path!Innermost.skill  n == Len(calls)
           outer == [calls EXCEPT ![n].left = @ \ {p}]
<1>3. /\ n \in Nat \ {0} /\ Path!Innermost = calls[n] /\ calls[n] \in Frames
      /\ s \in 1 .. SkillCount
  BY <1>1, InnermostCall
<1>4. p \in graph[s] /\ p \in 1 .. SkillCount
  <2>1. n \in 1 .. n
    BY <1>3
  <2>2. calls[n].left \subseteq graph[calls[n].skill]
    BY <2>1 DEF FramesLoop
  <2> QED BY <1>2, <1>3, <2>2 DEF GraphTyped
<1>5. CASE index[p] = 0
  <2>1. Path!Enter(p, outer)
    BY <1>2, <1>5 DEF Path!LookAt
  <2>2. /\ outer \in Seq(Frames) /\ Len(outer) = Len(calls)
        /\ \A i \in 1 .. Len(calls) :
             /\ outer[i].skill = calls[i].skill
             /\ outer[i].left = IF i = Len(calls) THEN calls[i].left \ {p} ELSE calls[i].left
    BY <1>1, FrameLooked
  <2> HIDE DEF outer
  <2>3. \A i \in 1 .. Len(calls) : /\ outer[i].skill = calls[i].skill
                                   /\ calls[i].left \subseteq outer[i].left \cup {p}
    BY <2>2
  <2> QED BY <1>1, <1>4, <1>5, <2>1, <2>2, <2>3, CallBegins
<1>6. CASE index[p] # 0
  BY <1>1, <1>2, <1>4, <1>6, SkillPassed DEF Path!LookAt
<1> QED BY <1>5, <1>6

-----------------------------------------------------------------------------
(* strongconnect returns.                                                  *)

\* The innermost call is over, its caller goes on.
LEMMA CallOver ==
    ASSUME TarjanInv, calls # <<>>, NEW outer, outer = Path!Front(calls)
    PROVE  LET n == Len(calls)
               s == Path!Innermost.skill
           IN /\ outer \in Seq(Frames) /\ Len(outer) = n - 1
              /\ \A i \in 1 .. n - 1 : i \in 1 .. n /\ i # n /\ outer[i] = calls[i]
              /\ {outer[i].skill : i \in 1 .. Len(outer)} = Running \ {s}
              /\ outer = <<>> => Running = {s}
              /\ outer # <<>> =>
                   LET o == outer[Len(outer)].skill
                   IN /\ o \in Running /\ o # s
                      /\ \A x \in Running : x # s => index[x] <= index[o]
<1> DEFINE n == Len(calls)  s == Path!Innermost.skill
<1>1. /\ n \in Nat \ {0} /\ Path!Innermost = calls[n] /\ s \in Running
      /\ \A i \in 1 .. n : calls[i].skill = s => i = n
      /\ \A i \in 1 .. n : calls[i] \in Frames /\ calls[i].skill \in Running
  BY InnermostCall
<1>2. /\ outer \in Seq(Frames) /\ Len(outer) = n - 1
      /\ \A i \in 1 .. n - 1 : i \in 1 .. n /\ i # n /\ outer[i] = calls[i]
  <2>0. outer = SubSeq(calls, 1, n - 1)
    BY DEF Path!Front
  <2>1. \A i \in 1 .. n - 1 : i \in 1 .. n /\ i # n
    BY <1>1
  <2>2. \A i \in 1 .. n - 1 : calls[i] \in Frames
    BY <1>1, <2>1
  <2>3. 1 \in Int /\ n - 1 \in Int /\ n - 1 >= 0
    BY <1>1
  <2> HIDE DEF n
  <2>4. /\ SubSeq(calls, 1, n - 1) \in Seq(Frames)
        /\ Len(SubSeq(calls, 1, n - 1)) = IF 1 <= n - 1 THEN (n - 1) - 1 + 1 ELSE 0
        /\ \A i \in 1 .. (n - 1) - 1 + 1 : SubSeq(calls, 1, n - 1)[i] = calls[1 + i - 1]
    BY <2>2, <2>3, SubSeqProperties
  <2>5. \A i \in 1 .. n - 1 : i \in 1 .. (n - 1) - 1 + 1 /\ 1 + i - 1 = i
    BY <2>3
  <2>6. (IF 1 <= n - 1 THEN (n - 1) - 1 + 1 ELSE 0) = n - 1
    BY <2>3
  <2> QED BY <2>0, <2>1, <2>4, <2>5, <2>6
<1>3. \A i \in 1 .. n : i \in 1 .. n - 1 \/ i = n
  BY <1>1
<1> HIDE DEF n
<1>4. n \in 1 .. n /\ calls[n].skill = s
  BY <1>1
<1>5. {outer[i].skill : i \in 1 .. Len(outer)} = Running \ {s}
  <2>1. Running = {calls[i].skill : i \in 1 .. n}
    BY DEF Running, n
  <2> HIDE DEF s
  <2>2. ASSUME NEW i \in 1 .. n - 1 PROVE outer[i].skill \in Running \ {s}
    BY <1>1, <1>2, <2>1
  <2>3. ASSUME NEW x \in Running \ {s} PROVE \E i \in 1 .. n - 1 : x = outer[i].skill
    <3>1. PICK i \in 1 .. n : x = calls[i].skill
      BY <2>1
    <3>2. i \in 1 .. n - 1
      BY <1>3, <1>4, <3>1
    <3> QED BY <1>2, <3>1, <3>2
  <2> QED BY <1>2, <2>2, <2>3
<1>6. outer = <<>> => Running = {s}
  <2>1. outer = <<>> => {outer[i].skill : i \in 1 .. Len(outer)} = {}
    OBVIOUS
  <2> QED BY <1>1, <1>5, <2>1
<1>7. ASSUME outer # <<>>
      PROVE  LET o == outer[Len(outer)].skill
             IN /\ o \in Running /\ o # s
                /\ \A x \in Running : x # s => index[x] <= index[o]
  <2> DEFINE o == outer[Len(outer)].skill
  <2>1. n - 1 \in 1 .. n - 1 /\ o = calls[n - 1].skill
    <3>1. n - 1 # 0
      BY <1>1, <1>2, <1>7, EmptySeq
    <3> QED BY <1>1, <1>2, <3>1
  <2> HIDE DEF o
  <2>2. o \in Running /\ o # s
    <3> HIDE DEF s
    <3> QED BY <1>1, <1>2, <2>1
  <2>3. ASSUME NEW x \in Running, x # s PROVE index[x] <= index[o]
    <3>1. PICK i \in 1 .. n : x = calls[i].skill
      BY DEF Running, n
    <3>2. i \in 1 .. n - 1
      BY <1>3, <1>4, <2>3, <3>1
    <3>3. index[x] \in Nat /\ index[o] \in Nat
      BY <2>2, StackNumbers DEF TarjanInv, SeenOnce
    <3>4. CASE i = n - 1
      BY <2>1, <3>1, <3>3, <3>4
    <3>5. CASE i # n - 1
      <4>1. i < n - 1 /\ i \in 1 .. n /\ n - 1 \in 1 .. n
        BY <1>1, <2>1, <3>2, <3>5
      <4>2. index[calls[i].skill] < index[calls[n - 1].skill]
        BY <4>1 DEF TarjanInv, NumbersRise, n
      <4> QED BY <2>1, <3>1, <3>3, <4>2
    <3> QED BY <3>4, <3>5
  <2> QED BY <2>2, <2>3 DEF o
<1> QED BY <1>2, <1>5, <1>6, <1>7 DEF n, s

\* What is taken off the stack with the root s of a component.
Above(s) == {y \in Members(stack) : index[s] <= index[y]}

LEMMA StackCut ==
    ASSUME TarjanInv, NEW s \in Members(stack)
    PROVE  LET at0 == CHOOSE i \in 1 .. Len(stack) : stack[i] = s
               rest == SubSeq(stack, 1, at0 - 1)
               off == Path!Reverse(SubSeq(stack, at0, Len(stack)))
           IN /\ rest \in Seq(1 .. SkillCount) /\ off \in Seq(1 .. SkillCount)
              /\ Distinct(off) /\ off # <<>>
              /\ Members(off) = Above(s) /\ Members(rest) = Members(stack) \ Above(s)
              /\ Len(rest) <= Len(stack) /\ Len(rest) \in Nat
              /\ \A i \in 1 .. Len(rest) : i \in 1 .. Len(stack) /\ rest[i] = stack[i]
<1> DEFINE m == Len(stack)  a == CHOOSE i \in 1 .. Len(stack) : stack[i] = s
           rest == SubSeq(stack, 1, a - 1)  top == SubSeq(stack, a, m)
           off == Path!Reverse(top)
<1>1. a \in 1 .. m /\ stack[a] = s
  BY DEF Members
<1>2. m \in Nat /\ \A i \in 1 .. m : stack[i] \in 1 .. SkillCount /\ stack[i] \in Members(stack)
  <2>1. stack \in Seq(1 .. SkillCount)
    BY DEF TarjanInv, TarjanTyped
  <2> QED BY <2>1, LenProperties DEF Members
<1>3. \A x \in 1 .. SkillCount : index[x] \in Nat
  BY StackNumbers
<1>4. \A i, j \in 1 .. m : i < j => index[stack[i]] < index[stack[j]]
  BY DEF TarjanInv, NumbersRise
<1> HIDE DEF a, m
<1>5. \A i \in 1 .. m : index[s] <= index[stack[i]] <=> a <= i
  <2> SUFFICES ASSUME NEW i \in 1 .. m PROVE index[s] <= index[stack[i]] <=> a <= i
    OBVIOUS
  <2>1. a < i => index[s] < index[stack[i]]
    BY <1>1, <1>4
  <2>2. i < a => index[stack[i]] < index[s]
    BY <1>1, <1>4
  <2>3. index[s] \in Nat /\ index[stack[i]] \in Nat
    BY <1>1, <1>2, <1>3
  <2>4. i = a => stack[i] = s
    BY <1>1
  <2>5. a \in Nat /\ i \in Nat
    BY <1>1
  <2> QED BY <2>1, <2>2, <2>3, <2>4, <2>5
<1>6. /\ rest \in Seq(1 .. SkillCount) /\ Len(rest) = a - 1
      /\ \A i \in 1 .. a - 1 : i \in 1 .. m /\ rest[i] = stack[i]
  <2>1. \A i \in 1 .. a - 1 : i \in 1 .. m /\ stack[i] \in 1 .. SkillCount
    BY <1>1, <1>2
  <2>2. 1 \in Int /\ a - 1 \in Int /\ a - 1 >= 0
    BY <1>1
  <2>3. /\ SubSeq(stack, 1, a - 1) \in Seq(1 .. SkillCount)
        /\ Len(SubSeq(stack, 1, a - 1)) = IF 1 <= a - 1 THEN (a - 1) - 1 + 1 ELSE 0
        /\ \A i \in 1 .. (a - 1) - 1 + 1 : SubSeq(stack, 1, a - 1)[i] = stack[1 + i - 1]
    BY <2>1, <2>2, SubSeqProperties
  <2>4. \A i \in 1 .. a - 1 : i \in 1 .. (a - 1) - 1 + 1 /\ 1 + i - 1 = i
    BY <2>2
  <2>5. (IF 1 <= a - 1 THEN (a - 1) - 1 + 1 ELSE 0) = a - 1
    BY <2>2
  <2> QED BY <2>1, <2>3, <2>4, <2>5
<1>7. /\ top \in Seq(1 .. SkillCount) /\ Len(top) = m - a + 1
      /\ \A i \in 1 .. m - a + 1 : a + i - 1 \in 1 .. m /\ top[i] = stack[a + i - 1]
  <2>1. \A i \in a .. m : stack[i] \in 1 .. SkillCount
    BY <1>1, <1>2
  <2>2. a \in Int /\ m \in Int /\ a <= m
    BY <1>1, <1>2
  <2>3. /\ SubSeq(stack, a, m) \in Seq(1 .. SkillCount)
        /\ Len(SubSeq(stack, a, m)) = IF a <= m THEN m - a + 1 ELSE 0
        /\ \A i \in 1 .. m - a + 1 : SubSeq(stack, a, m)[i] = stack[a + i - 1]
    BY <2>1, <2>2, SubSeqProperties
  <2>4. \A i \in 1 .. m - a + 1 : a + i - 1 \in 1 .. m
    BY <1>1, <1>2
  <2> QED BY <2>2, <2>3, <2>4
<1> HIDE DEF rest, top
<1> DEFINE c == m - a + 1
<1>8. c \in Nat \ {0}
  BY <1>1, <1>2
<1>9. /\ off \in Seq(1 .. SkillCount) /\ Len(off) = c
      /\ \A i \in 1 .. c : m - i + 1 \in 1 .. m /\ off[i] = stack[m - i + 1]
  <2>1. off = [i \in 1 .. c |-> top[(c - i) + 1]]
    BY <1>7 DEF Path!Reverse
  <2>2. \A i \in 1 .. c : /\ (c - i) + 1 \in 1 .. c /\ m - i + 1 \in 1 .. m
                          /\ a + ((c - i) + 1) - 1 = m - i + 1
    BY <1>1, <1>2
  <2> HIDE DEF c
  <2>3. \A i \in 1 .. c : top[(c - i) + 1] = stack[m - i + 1]
    <3>1. \A i \in 1 .. c : top[i] = stack[a + i - 1]
      BY <1>7 DEF c
    <3> QED BY <2>2, <3>1
  <2>4. off \in [1 .. c -> 1 .. SkillCount]
    BY <1>2, <2>1, <2>2, <2>3
  <2>5. off \in Seq(1 .. SkillCount) /\ Len(off) = c
    <3> HIDE DEF off
    <3>1. \A set, n : \A f \in [1 .. n -> set] : n \in Nat => f \in Seq(set) /\ Len(f) = n
      OBVIOUS
    <3> QED BY <1>8, <2>4, <3>1
  <2> QED BY <2>1, <2>2, <2>3, <2>5
<1> HIDE DEF off
<1>10. \A i \in 1 .. m : a <= i => m - i + 1 \in 1 .. c /\ m - (m - i + 1) + 1 = i
  BY <1>1, <1>2
<1>11. \A i \in 1 .. c : a <= m - i + 1
  BY <1>1, <1>2
<1> HIDE DEF c
<1>12. Members(off) = Above(s)
  <2>1. ASSUME NEW i \in 1 .. c PROVE off[i] \in Above(s)
    BY <1>2, <1>5, <1>9, <1>11 DEF Above
  <2>2. ASSUME NEW y \in Above(s) PROVE \E i \in 1 .. c : y = off[i]
    <3>1. PICK i \in 1 .. m : y = stack[i]
      BY DEF Above, Members, m
    <3>2. a <= i
      BY <1>5, <3>1 DEF Above
    <3>3. m - i + 1 \in 1 .. c /\ m - (m - i + 1) + 1 = i
      BY <1>10, <3>2
    <3> QED BY <1>9, <3>1, <3>3
  <2> QED BY <1>9, <2>1, <2>2 DEF Members
<1>13. Members(rest) = Members(stack) \ Above(s)
  <2>1. ASSUME NEW i \in 1 .. a - 1 PROVE rest[i] \in Members(stack) \ Above(s)
    <3>1. i \in 1 .. m /\ ~ (a <= i)
      <4>1. a \in 1 .. m /\ m \in Nat /\ a \in Nat
        BY <1>1, <1>2
      <4> HIDE DEF a, m
      <4> QED BY <4>1
    <3> QED BY <1>2, <1>5, <1>6, <3>1 DEF Above
  <2>2. ASSUME NEW y \in Members(stack) \ Above(s) PROVE \E i \in 1 .. a - 1 : y = rest[i]
    <3>1. PICK i \in 1 .. m : y = stack[i]
      BY DEF Members, m
    <3>2. ~ (a <= i)
      BY <1>2, <1>5, <3>1 DEF Above
    <3>3. i \in 1 .. a - 1
      BY <1>1, <3>2
    <3> QED BY <1>6, <3>1, <3>3
  <2> QED BY <1>6, <2>1, <2>2 DEF Members
<1>14. Distinct(off)
  <2> SUFFICES ASSUME NEW i \in 1 .. c, NEW j \in 1 .. c, off[i] = off[j] PROVE i = j
    BY <1>9 DEF Distinct
  <2>1. stack[m - i + 1] = stack[m - j + 1] /\ m - i + 1 \in 1 .. m /\ m - j + 1 \in 1 .. m
    BY <1>9
  <2>2. m - i + 1 = m - j + 1
    BY <2>1, StackNumbers DEF Distinct, m
  <2> QED BY <1>2, <2>2
<1>15. off # <<>>
  BY <1>8, <1>9, EmptySeq
<1>16. Len(rest) <= m /\ Len(rest) \in Nat
  BY <1>1, <1>2, <1>6
<1> QED BY <1>6, <1>9, <1>12, <1>13, <1>14, <1>15, <1>16 DEF rest, top, off, a, m

\* What has been passed when a call is over had been passed before.
LEMMA PassedBefore ==
    ASSUME TarjanInv, calls # <<>>, Path!Innermost.left = {}, graph' = graph,
           calls' = Path!Front(calls), NEW y, NEW p, Passed(y, p)'
    PROVE  Passed(y, p)
<1> DEFINE n == Len(calls)
<1>1. n \in Nat \ {0} /\ calls[n].left = {}
  BY InnermostCall
<1>2. Len(calls') = n - 1 /\ \A i \in 1 .. n - 1 : calls'[i] = calls[i]
  BY CallOver
<1>3. p \in graph[y] /\ \A i \in 1 .. n - 1 : calls[i].skill = y => p \notin calls[i].left
  BY <1>2 DEF Passed
<1> HIDE DEF n
<1>4. \A i \in 1 .. n : i \in 1 .. n - 1 \/ i = n
  BY <1>1
<1> QED BY <1>1, <1>3, <1>4 DEF Passed, n

\* strongconnect returns within a component.
LEMMA CallerGoesOn ==
    ASSUME GraphTyped, TarjanInv, calls # <<>>, Path!Innermost.left = {},
           lowlink[Path!Innermost.skill] # index[Path!Innermost.skill],
           calls' = Path!Front(calls), UNCHANGED <<graph, stack, sccs, index>>,
           lowlink' = IF calls' = <<>> THEN lowlink
                      ELSE [lowlink EXCEPT ![calls'[Len(calls')].skill] =
                               Path!Least(@, lowlink[Path!Innermost.skill])]
    PROVE  TarjanInv'
<1> DEFINE s == Path!Innermost.skill  n == Len(calls)  o == calls'[Len(calls')].skill
<1>1. /\ n \in Nat \ {0} /\ s \in Running /\ s \in Members(stack) /\ s \in 1 .. SkillCount
      /\ \A x \in Running : index[x] <= index[s]
      /\ \A x \in Running : x # s => index[x] < index[s]
      /\ \A y \in Members(stack) : index[s] <= index[y] => Owns(s, y)
  BY InnermostCall
<1>2. /\ calls' \in Seq(Frames) /\ Len(calls') = n - 1
      /\ \A i \in 1 .. n - 1 : i \in 1 .. n /\ i # n /\ calls'[i] = calls[i]
      /\ Running' = Running \ {s}
      /\ calls' = <<>> => Running = {s}
      /\ calls' # <<>> => /\ o \in Running /\ o # s
                          /\ \A x \in Running : x # s => index[x] <= index[o]
  <2> DEFINE outer == Path!Front(calls)
  <2>1. calls' = outer
    OBVIOUS
  <2>2. LET q == outer[Len(outer)].skill
        IN /\ outer \in Seq(Frames) /\ Len(outer) = n - 1
           /\ \A i \in 1 .. n - 1 : i \in 1 .. n /\ i # n /\ outer[i] = calls[i]
           /\ {outer[i].skill : i \in 1 .. Len(outer)} = Running \ {s}
           /\ outer = <<>> => Running = {s}
           /\ outer # <<>> => /\ q \in Running /\ q # s
                              /\ \A x \in Running : x # s => index[x] <= index[q]
    BY CallOver
  <2>3. Running' = {outer[i].skill : i \in 1 .. Len(outer)}
    BY <2>1 DEF Running
  <2> HIDE DEF outer, s, n
  <2> QED BY <2>1, <2>2, <2>3
<1> HIDE DEF o, s
<1>3. /\ Running \subseteq Members(stack) /\ Members(stack) \subseteq 1 .. SkillCount
      /\ \A x \in 1 .. SkillCount : index[x] \in Nat /\ lowlink[x] \in Nat
      /\ \A x, y \in Members(stack) : index[x] = index[y] => x = y
  BY StackNumbers DEF TarjanInv, SeenOnce
<1>4. PICK w \in Members(stack) : index[w] = lowlink[s] /\ Path!Needs(s, w)
  BY <1>1 DEF TarjanInv, LowlinksReach
<1>5. lowlink[s] < index[s]
  <2>1. lowlink[s] <= index[s] /\ lowlink[s] # index[s]
    BY <1>1 DEF TarjanInv, LowlinksReach, s
  <2> QED BY <1>1, <1>3, <2>1
<1>6. PICK x0 \in Running : index[x0] <= index[w] /\ Path!Needs(w, x0)
  BY DEF TarjanInv, StackConnected
<1>7. index[x0] < index[s] /\ x0 # s /\ Path!Needs(s, x0)
  <2>1. index[x0] \in Nat /\ index[w] \in Nat /\ index[s] \in Nat
    BY <1>1, <1>3
  <2> QED BY <1>4, <1>5, <1>6, <2>1, NeedsThrough
<1>8. /\ calls' # <<>> /\ o \in Running /\ o # s /\ o \in 1 .. SkillCount
      /\ \A x \in Running : x # s => index[x] <= index[o]
  BY <1>2, <1>3, <1>7
<1>9. /\ lowlink' \in [1 .. SkillCount -> Nat]
      /\ \A x \in 1 .. SkillCount : lowlink'[x] <= lowlink[x]
      /\ \A x \in 1 .. SkillCount : lowlink'[x] # lowlink[x] => x = o /\ lowlink'[x] = lowlink[s]
      /\ lowlink'[o] <= lowlink[s]
  <2> DEFINE low == Path!Least(lowlink[o], lowlink[s])
  <2>1. low \in Nat /\ low <= lowlink[o] /\ low <= lowlink[s] /\ low \in {lowlink[o], lowlink[s]}
    BY <1>1, <1>3, <1>8, LeastOf
  <2>2. lowlink' = [lowlink EXCEPT ![o] = low]
    BY <1>8 DEF s, o
  <2> HIDE DEF low
  <2>3. lowlink \in [1 .. SkillCount -> Nat]
    BY DEF TarjanInv, TarjanTyped
  <2>4. /\ lowlink' \in [1 .. SkillCount -> Nat] /\ lowlink'[o] = low
        /\ \A x \in 1 .. SkillCount : x # o => lowlink'[x] = lowlink[x]
    BY <1>8, <2>1, <2>2, <2>3
  <2>5. \A x \in 1 .. SkillCount : lowlink'[x] <= lowlink[x]
    BY <1>3, <2>1, <2>4
  <2> QED BY <2>1, <2>4, <2>5
<1>10. \A a, b : Path!Needs(a, b)' <=> Path!Needs(a, b)
  BY DEF Path!Needs
<1>11. TarjanTyped'
  BY <1>2, <1>9 DEF TarjanInv, TarjanTyped
<1>12. NumbersRise'
  <2>1. ASSUME NEW i \in 1 .. Len(calls'), NEW j \in 1 .. Len(calls'), i < j
        PROVE  index[calls'[i].skill] < index[calls'[j].skill]
    <3>1. i \in 1 .. n /\ j \in 1 .. n /\ calls'[i] = calls[i] /\ calls'[j] = calls[j]
      BY <1>2
    <3> QED BY <2>1, <3>1 DEF TarjanInv, NumbersRise
  <2> QED BY <2>1 DEF TarjanInv, NumbersRise, Path!Unseen
<1>13. SeenOnce'
  BY <1>2 DEF TarjanInv, SeenOnce, Found
<1>14. ComponentsSound'
  <2>1. sccs' = sccs /\ graph' = graph /\ stack' = stack
    OBVIOUS
  <2>2. \A x, k : Found(x, k)' <=> Found(x, k)
    BY <2>1 DEF Found
  <2>3. ASSUME NEW k \in 1 .. Len(sccs)
        PROVE  /\ sccs[k] # <<>> /\ Distinct(sccs[k]) /\ Members(sccs[k]) \cap Members(stack) = {}
               /\ \A l \in 1 .. Len(sccs) : k # l => Members(sccs[k]) \cap Members(sccs[l]) = {}
               /\ \A x \in Members(sccs[k]) : \A p \in graph[x] : Found(p, k)'
               /\ \A a, b \in Members(sccs[k]) : Path!Needs(a, b)'
    BY <1>10, <2>2 DEF TarjanInv, ComponentsSound
  <2> QED BY <2>1, <2>3 DEF ComponentsSound
<1>15. StackConnected'
  <2>1. \A x \in Running \ {s} : \A y \in Members(stack) :
           index[x] <= index[y] => Path!Needs(x, y)
    BY DEF TarjanInv, StackConnected
  <2>2. ASSUME NEW y \in Members(stack)
        PROVE  \E x \in Running \ {s} : index[x] <= index[y] /\ Path!Needs(y, x)
    <3>1. PICK x \in Running : index[x] <= index[y] /\ Path!Needs(y, x)
      BY DEF TarjanInv, StackConnected
    <3>2. CASE x = s
      <4>1. Path!Needs(y, x0)
        BY <1>7, <3>1, <3>2, NeedsThrough
      <4>2. index[x0] \in Nat /\ index[y] \in Nat /\ index[s] \in Nat
        BY <1>1, <1>3
      <4>3. index[x0] <= index[y]
        BY <1>7, <3>1, <3>2, <4>2
      <4> QED BY <1>7, <4>1, <4>3
    <3>3. CASE x # s
      BY <3>1, <3>3
    <3> QED BY <3>2, <3>3
  <2> QED BY <1>2, <1>10, <2>1, <2>2 DEF StackConnected
<1>16. LowlinksReach'
  <2>1. ASSUME NEW x \in Running \ {s}
        PROVE  /\ lowlink'[x] <= index[x]
               /\ \E v \in Members(stack) : index[v] = lowlink'[x] /\ Path!Needs(x, v)
    <3>1. /\ lowlink[x] <= index[x]
          /\ \E v \in Members(stack) : index[v] = lowlink[x] /\ Path!Needs(x, v)
      BY DEF TarjanInv, LowlinksReach
    <3>2. lowlink'[x] \in Nat /\ lowlink[x] \in Nat /\ index[x] \in Nat /\ lowlink'[x] <= lowlink[x]
      BY <1>3, <1>9
    <3>3. CASE lowlink'[x] = lowlink[x]
      BY <3>1, <3>3
    <3>4. CASE lowlink'[x] # lowlink[x]
      <4>1. x = o /\ lowlink'[x] = lowlink[s]
        BY <1>3, <1>9, <3>4
      <4>2. Path!Needs(x, s)
        BY <1>1 DEF TarjanInv, StackConnected
      <4>3. Path!Needs(x, w)
        BY <1>4, <4>2, NeedsThrough
      <4> QED BY <1>4, <3>1, <3>2, <4>1, <4>3
    <3> QED BY <3>3, <3>4
  <2> QED BY <1>2, <1>10, <2>1 DEF LowlinksReach
<1>17. LowlinksReachAll'
  <2>1. ASSUME NEW x \in Members(stack), NEW y \in Members(stack), NEW p \in Members(stack),
               Owns(x, y)', Passed(y, p)
        PROVE  lowlink'[x] <= index[p]
    <3>1. /\ x \in Running \ {s} /\ index[x] <= index[y]
          /\ \A z \in Running \ {s} : index[z] <= index[y] => index[z] <= index[x]
      BY <1>2, <2>1 DEF Owns
    <3>2. lowlink'[x] \in Nat /\ lowlink[x] \in Nat /\ index[p] \in Nat /\ index[x] \in Nat
          /\ lowlink'[x] <= lowlink[x]
      BY <1>3, <1>9
    <3>3. CASE Owns(x, y)
      <4>1. lowlink[x] <= index[p]
        BY <2>1, <3>3 DEF TarjanInv, LowlinksReachAll
      <4> QED BY <3>2, <4>1
    <3>4. CASE ~ Owns(x, y)
      <4>1. index[s] <= index[y]
        BY <3>1, <3>4 DEF Owns
      <4>2. lowlink[s] <= index[p]
        BY <1>1, <2>1, <4>1 DEF TarjanInv, LowlinksReachAll
      <4>3. index[o] <= index[y]
        <5>1. index[o] \in Nat /\ index[y] \in Nat /\ index[s] \in Nat /\ index[o] <= index[s]
          BY <1>1, <1>3, <1>8
        <5> QED BY <4>1, <5>1
      <4>4. index[o] <= index[x] /\ index[x] <= index[o]
        BY <1>8, <3>1, <4>3
      <4>5. x = o
        BY <1>3, <1>8, <3>2, <4>4
      <4>6. lowlink'[o] <= lowlink[s] /\ lowlink[s] \in Nat
        BY <1>1, <1>3, <1>9
      <4> QED BY <3>2, <4>2, <4>5, <4>6
    <3> QED BY <3>3, <3>4
  <2>2. \A y, p : Passed(y, p)' => Passed(y, p)
    BY PassedBefore
  <2>3. stack' = stack /\ index' = index
    OBVIOUS
  <2> QED BY <2>1, <2>2, <2>3 DEF LowlinksReachAll
<1>18. PassedSeen'
  <2>1. \A y, p : Passed(y, p)' => Passed(y, p)
    BY PassedBefore
  <2> QED BY <2>1 DEF TarjanInv, PassedSeen
<1> QED BY <1>11, <1>12, <1>13, <1>14, <1>15, <1>16, <1>17, <1>18 DEF TarjanInv

\* What is taken off the stack with a root is all it needs of the stack,
\* and each of it needs the others.
LEMMA RootFound ==
    ASSUME GraphTyped, TarjanInv, calls # <<>>, Path!Innermost.left = {},
           lowlink[Path!Innermost.skill] = index[Path!Innermost.skill]
    PROVE  LET A == Above(Path!Innermost.skill)
           IN /\ \A y \in A : \A p \in graph[y] : Found(p, Len(sccs)) \/ p \in A
              /\ \A a, b \in A : Path!Needs(a, b)
<1> DEFINE s == Path!Innermost.skill  A == Above(s)  n == Len(calls)
<1>1. /\ n \in Nat \ {0} /\ s \in Running /\ s \in Members(stack) /\ s \in 1 .. SkillCount
      /\ calls[n].left = {} /\ lowlink[s] = index[s]
      /\ \A x \in Running : index[x] <= index[s]
      /\ \A x \in Running : x # s => index[x] < index[s]
      /\ \A i \in 1 .. n : calls[i].skill = s => i = n
      /\ \A y \in Members(stack) : index[s] <= index[y] => Owns(s, y)
  BY InnermostCall
<1> HIDE DEF s
<1>2. /\ Running \subseteq Members(stack) /\ Members(stack) \subseteq 1 .. SkillCount
      /\ \A x \in 1 .. SkillCount : index[x] \in Nat /\ lowlink[x] \in Nat
  BY StackNumbers DEF TarjanInv, SeenOnce
<1>3. ASSUME NEW y \in A, NEW p \in graph[y] PROVE Found(p, Len(sccs)) \/ p \in A
  <2>1. y \in Members(stack) /\ index[s] <= index[y] /\ y \in 1 .. SkillCount
    BY <1>2 DEF Above
  <2>2. p \in 1 .. SkillCount
    BY <2>1 DEF GraphTyped
  <2>3. Passed(y, p)
    <3> SUFFICES ASSUME NEW i \in 1 .. n, calls[i].skill = y PROVE calls[i].left = {}
      BY DEF Passed
    <3>1. y \in Running
      BY DEF Running
    <3>2. index[s] \in Nat /\ index[y] \in Nat
      BY <1>1, <1>2, <2>1
    <3>3. y = s
      BY <1>1, <2>1, <3>1, <3>2
    <3> QED BY <1>1, <3>3
  <2>4. p \in Members(stack) \/ Found(p, Len(sccs))
    BY <2>1, <2>2, <2>3 DEF TarjanInv, PassedSeen, SeenOnce
  <2>5. p \in Members(stack) => index[s] <= index[p]
    BY <1>1, <2>1, <2>3 DEF TarjanInv, LowlinksReachAll
  <2> QED BY <2>4, <2>5 DEF Above
<1>4. ASSUME NEW a \in A, NEW b \in A PROVE Path!Needs(a, b)
  <2>1. a \in Members(stack) /\ b \in Members(stack) /\ index[s] <= index[b]
    BY DEF Above
  <2>2. PICK x \in Running : index[x] <= index[a] /\ Path!Needs(a, x)
    BY <2>1 DEF TarjanInv, StackConnected
  <2>3. Path!Needs(x, s)
    BY <1>1 DEF TarjanInv, StackConnected
  <2>4. Path!Needs(s, b)
    BY <1>1, <2>1 DEF TarjanInv, StackConnected
  <2> QED BY <2>2, <2>3, <2>4, NeedsThrough
<1> QED BY <1>3, <1>4 DEF s

\* strongconnect returns with a component.
LEMMA ComponentFound ==
    ASSUME GraphTyped, TarjanInv, calls # <<>>, Path!Innermost.left = {},
           lowlink[Path!Innermost.skill] = index[Path!Innermost.skill],
           calls' = Path!Front(calls), UNCHANGED <<graph, index>>,
           NEW rest \in Seq(1 .. SkillCount), NEW off \in Seq(1 .. SkillCount),
           Distinct(off), off # <<>>, Members(off) = Above(Path!Innermost.skill),
           Members(rest) = Members(stack) \ Above(Path!Innermost.skill),
           Len(rest) <= Len(stack), Len(rest) \in Nat,
           \A i \in 1 .. Len(rest) : i \in 1 .. Len(stack) /\ rest[i] = stack[i],
           stack' = rest, sccs' = Append(sccs, off),
           lowlink' = IF calls' = <<>> THEN lowlink
                      ELSE [lowlink EXCEPT ![calls'[Len(calls')].skill] =
                               Path!Least(@, lowlink[Path!Innermost.skill])]
    PROVE  TarjanInv'
<1> DEFINE s == Path!Innermost.skill  n == Len(calls)  o == calls'[Len(calls')].skill
           A == Above(s)  m == Len(sccs)
<1>1. /\ n \in Nat \ {0} /\ s \in Running /\ s \in Members(stack) /\ s \in 1 .. SkillCount
      /\ \A x \in Running : index[x] <= index[s]
      /\ \A x \in Running : x # s => index[x] < index[s]
  BY InnermostCall
<1>2. /\ calls' \in Seq(Frames) /\ Len(calls') = n - 1
      /\ \A i \in 1 .. n - 1 : i \in 1 .. n /\ i # n /\ calls'[i] = calls[i]
      /\ Running' = Running \ {s}
      /\ calls' # <<>> => o \in Running /\ o # s
  <2> DEFINE outer == Path!Front(calls)
  <2>1. calls' = outer
    OBVIOUS
  <2>2. LET q == outer[Len(outer)].skill
        IN /\ outer \in Seq(Frames) /\ Len(outer) = n - 1
           /\ \A i \in 1 .. n - 1 : i \in 1 .. n /\ i # n /\ outer[i] = calls[i]
           /\ {outer[i].skill : i \in 1 .. Len(outer)} = Running \ {s}
           /\ outer = <<>> => Running = {s}
           /\ outer # <<>> => /\ q \in Running /\ q # s
                              /\ \A x \in Running : x # s => index[x] <= index[q]
    BY CallOver
  <2>3. Running' = {outer[i].skill : i \in 1 .. Len(outer)}
    BY <2>1 DEF Running
  <2> HIDE DEF outer, s, n
  <2> QED BY <2>1, <2>2, <2>3
<1>3. /\ Running \subseteq Members(stack) /\ Members(stack) \subseteq 1 .. SkillCount
      /\ \A x \in 1 .. SkillCount : index[x] \in Nat /\ lowlink[x] \in Nat
      /\ m \in Nat
  BY StackNumbers DEF TarjanInv, SeenOnce
<1>4. /\ \A y \in A : \A p \in graph[y] : Found(p, m) \/ p \in A
      /\ \A a, b \in A : Path!Needs(a, b)
  BY RootFound
<1>5. lowlink' = lowlink
  <2>1. CASE calls' = <<>>
    BY <2>1
  <2>2. CASE calls' # <<>>
    <3>1. o \in Running /\ o # s /\ o \in 1 .. SkillCount
      BY <1>2, <1>3, <2>2
    <3>2. lowlink[o] <= index[o] /\ index[o] < index[s] /\ lowlink[s] = index[s]
      BY <1>1, <3>1 DEF TarjanInv, LowlinksReach
    <3>3. lowlink[o] \in Nat /\ index[o] \in Nat /\ index[s] \in Nat
      BY <1>1, <1>3, <3>1
    <3>4. Path!Least(lowlink[o], lowlink[s]) = lowlink[o]
      BY <3>2, <3>3 DEF Path!Least
    <3>5. lowlink' = [lowlink EXCEPT ![o] = lowlink[o]]
      BY <2>2, <3>4
    <3>6. lowlink \in [1 .. SkillCount -> Nat]
      BY DEF TarjanInv, TarjanTyped
    <3> HIDE DEF o, s
    <3> QED BY <3>1, <3>5, <3>6
  <2> QED BY <2>1, <2>2
<1>6. Members(off) = A /\ Members(rest) = Members(stack) \ A /\ off # <<>> /\ Distinct(off)
      /\ stack' = rest /\ sccs' = Append(sccs, off) /\ index' = index /\ graph' = graph
  OBVIOUS
<1>0. \A y, p : Passed(y, p)' => Passed(y, p)
  BY PassedBefore
<1> HIDE DEF o, s
<1>7. /\ A \subseteq Members(stack) /\ A = {y \in Members(stack) : index[s] <= index[y]}
      /\ \A y \in Members(rest) : y \in Members(stack) /\ index[y] < index[s]
      /\ Running \ {s} \subseteq Members(rest)
  <2>1. A = {y \in Members(stack) : index[s] <= index[y]}
    BY DEF Above
  <2> HIDE DEF A
  <2>2. \A y \in Members(stack) : index[y] \in Nat /\ index[s] \in Nat
    BY <1>1, <1>3
  <2>3. \A y \in Members(rest) : y \in Members(stack) /\ index[y] < index[s]
    BY <1>6, <2>1, <2>2
  <2>4. ASSUME NEW x \in Running, x # s PROVE x \in Members(rest)
    <3>1. x \in Members(stack) /\ index[x] < index[s]
      BY <1>1, <1>3, <2>4
    <3> QED BY <1>6, <2>1, <2>2, <3>1
  <2> QED BY <2>1, <2>3, <2>4
<1> HIDE DEF A
<1>8. \A a, b : Path!Needs(a, b)' <=> Path!Needs(a, b)
  BY <1>6 DEF Path!Needs
<1>9. /\ sccs' \in Seq(Seq(1 .. SkillCount)) /\ Len(sccs') = m + 1
      /\ \A k \in 1 .. m : sccs'[k] = sccs[k]
      /\ sccs'[m + 1] = off
  BY <1>6, AppendProperties DEF TarjanInv, TarjanTyped
<1>10. \A k \in 1 .. m + 1 : k \in 1 .. m \/ k = m + 1
  BY <1>3
<1>11. /\ \A x : \A k \in 1 .. m : Found(x, k)' <=> Found(x, k)
       /\ \A x, k : k = m + 1 => (Found(x, k)' <=> Found(x, m) \/ x \in A)
  <2>1. \A k \in 1 .. m : \A l \in 1 .. k : l \in 1 .. m
    BY <1>3
  <2>2. \A l \in 1 .. m : l \in 1 .. m + 1
    BY <1>3
  <2>3. m + 1 \in 1 .. m + 1
    BY <1>3
  <2>4. \A x : \A k \in 1 .. m : Found(x, k)' <=> Found(x, k)
    BY <1>9, <2>1 DEF Found
  <2>5. ASSUME NEW x, NEW k, k = m + 1 PROVE Found(x, k)' <=> Found(x, m) \/ x \in A
    <3>1. Found(x, k)' <=> \E l \in 1 .. m + 1 : x \in Members(sccs'[l])
      BY <2>5 DEF Found, Members
    <3>2. Found(x, m) <=> \E l \in 1 .. m : x \in Members(sccs[l])
      BY DEF Found
    <3>3. Members(sccs'[m + 1]) = A /\ \A l \in 1 .. m : sccs'[l] = sccs[l]
      BY <1>6, <1>9
    <3> HIDE DEF m
    <3> QED BY <1>10, <2>2, <2>3, <3>1, <3>2, <3>3
  <2> QED BY <2>4, <2>5
<1>12. TarjanTyped'
  BY <1>2, <1>5, <1>6, <1>9 DEF TarjanInv, TarjanTyped
<1>13. NumbersRise'
  <2>1. ASSUME NEW i \in 1 .. Len(calls'), NEW j \in 1 .. Len(calls'), i < j
        PROVE  index[calls'[i].skill] < index[calls'[j].skill]
    <3>1. i \in 1 .. n /\ j \in 1 .. n /\ calls'[i] = calls[i] /\ calls'[j] = calls[j]
      BY <1>2
    <3> QED BY <2>1, <3>1 DEF TarjanInv, NumbersRise
  <2>2. \A i, j \in 1 .. Len(rest) : i < j => index[rest[i]] < index[rest[j]]
    BY DEF TarjanInv, NumbersRise
  <2> QED BY <1>6, <2>1, <2>2 DEF TarjanInv, NumbersRise, Path!Unseen
<1>14. SeenOnce'
  <2>1. \A x \in 1 .. SkillCount : index[x] > 0 <=> x \in Members(stack) \/ Found(x, m)
    BY DEF TarjanInv, SeenOnce
  <2>2. \A k : k = m + 1 => \A x \in 1 .. SkillCount :
           index[x] > 0 <=> x \in Members(rest) \/ Found(x, k)'
    BY <1>6, <1>7, <1>11, <2>1
  <2>3. \A x \in 1 .. SkillCount :
           index[x] > 0 <=> x \in Members(rest) \/ Found(x, Len(sccs))'
    <3>1. Len(sccs)' = m + 1
      BY <1>9
    <3> HIDE DEF m
    <3>2. \A x : \A k : k = Len(sccs)' => (Found(x, k)' <=> Found(x, Len(sccs))')
      BY DEF Found
    <3> QED BY <2>2, <3>1, <3>2
  <2> QED BY <1>2, <1>6, <1>7, <2>3 DEF SeenOnce
<1>15. ComponentsSound'
  <2>1. ASSUME NEW k \in 1 .. m
        PROVE  /\ sccs'[k] = sccs[k] /\ sccs[k] # <<>> /\ Distinct(sccs[k])
               /\ Members(sccs[k]) \cap Members(stack) = {}
               /\ \A l \in 1 .. m : k # l => Members(sccs[k]) \cap Members(sccs[l]) = {}
               /\ \A x \in Members(sccs[k]) : \A p \in graph[x] : Found(p, k)'
               /\ \A a, b \in Members(sccs[k]) : Path!Needs(a, b)'
    BY <1>8, <1>9, <1>11 DEF TarjanInv, ComponentsSound
  <2>2. ASSUME NEW k \in 1 .. m + 1
        PROVE  /\ sccs'[k] # <<>> /\ Distinct(sccs'[k])
               /\ Members(sccs'[k]) \cap Members(rest) = {}
               /\ \A x \in Members(sccs'[k]) : \A p \in graph[x] : Found(p, k)'
               /\ \A a, b \in Members(sccs'[k]) : Path!Needs(a, b)'
    <3>1. CASE k \in 1 .. m
      BY <1>6, <2>1, <3>1
    <3>2. CASE k = m + 1
      <4>1. sccs'[k] = off
        BY <1>9, <3>2
      <4>2. \A x \in A : \A p \in graph[x] : Found(p, k)'
        BY <1>4, <1>11, <3>2
      <4>3. \A a, b \in A : Path!Needs(a, b)'
        BY <1>4, <1>8
      <4> QED BY <1>6, <4>1, <4>2, <4>3
    <3> QED BY <1>10, <3>1, <3>2
  <2>3. ASSUME NEW k \in 1 .. m + 1, NEW l \in 1 .. m + 1, k # l
        PROVE  Members(sccs'[k]) \cap Members(sccs'[l]) = {}
    <3>1. \A j \in 1 .. m : Members(sccs[j]) \cap A = {}
      BY <1>7, <2>1
    <3>2. CASE k \in 1 .. m /\ l \in 1 .. m
      BY <2>1, <2>3, <3>2
    <3>3. CASE k \in 1 .. m /\ l = m + 1
      BY <1>6, <1>9, <2>1, <3>1, <3>3
    <3>4. CASE k = m + 1 /\ l \in 1 .. m
      BY <1>6, <1>9, <2>1, <3>1, <3>4
    <3> QED BY <1>10, <2>3, <3>2, <3>3, <3>4
  <2> HIDE DEF m
  <2> QED BY <1>6, <1>9, <2>2, <2>3 DEF ComponentsSound
<1>16. StackConnected'
  <2>1. \A x \in Running \ {s} : \A y \in Members(rest) :
           index[x] <= index[y] => Path!Needs(x, y)
    BY <1>7 DEF TarjanInv, StackConnected
  <2>2. ASSUME NEW y \in Members(rest)
        PROVE  \E x \in Running \ {s} : index[x] <= index[y] /\ Path!Needs(y, x)
    <3>1. PICK x \in Running : index[x] <= index[y] /\ Path!Needs(y, x)
      BY <1>7 DEF TarjanInv, StackConnected
    <3>2. index[y] < index[s] /\ index[y] \in Nat /\ index[s] \in Nat
      BY <1>1, <1>3, <1>7
    <3>3. x # s
      BY <3>1, <3>2
    <3> QED BY <3>1, <3>3
  <2> QED BY <1>2, <1>6, <1>8, <2>1, <2>2 DEF StackConnected
<1>17. LowlinksReach'
  <2>1. ASSUME NEW x \in Running \ {s}
        PROVE  /\ lowlink[x] <= index[x]
               /\ \E v \in Members(rest) : index[v] = lowlink[x] /\ Path!Needs(x, v)
    <3>1. lowlink[x] <= index[x] /\ index[x] < index[s]
      BY <1>1 DEF TarjanInv, LowlinksReach
    <3>2. PICK v \in Members(stack) : index[v] = lowlink[x] /\ Path!Needs(x, v)
      BY DEF TarjanInv, LowlinksReach
    <3>3. index[x] \in Nat /\ index[v] \in Nat /\ index[s] \in Nat
      BY <1>1, <1>3
    <3>4. v \notin A
      BY <1>7, <3>1, <3>2, <3>3
    <3> QED BY <1>6, <3>1, <3>2, <3>4
  <2> QED BY <1>2, <1>5, <1>6, <1>8, <2>1 DEF LowlinksReach
<1>18. LowlinksReachAll'
  <2>1. ASSUME NEW x \in Members(rest), NEW y \in Members(rest), NEW p \in Members(rest),
               Owns(x, y)', Passed(y, p)
        PROVE  lowlink[x] <= index[p]
    <3>1. /\ x \in Running \ {s} /\ index[x] <= index[y]
          /\ \A z \in Running \ {s} : index[z] <= index[y] => index[z] <= index[x]
      BY <1>2, <1>6, <2>1 DEF Owns
    <3>2. index[y] < index[s] /\ index[y] \in Nat /\ index[s] \in Nat
      BY <1>1, <1>3, <1>7
    <3>3. ~ (index[s] <= index[y])
      BY <3>2
    <3>4. Owns(x, y)
      BY <3>1, <3>3 DEF Owns
    <3> QED BY <1>7, <2>1, <3>4 DEF TarjanInv, LowlinksReachAll
  <2> QED BY <1>0, <1>5, <1>6, <2>1 DEF LowlinksReachAll
<1>19. PassedSeen'
  BY <1>0, <1>6, <1>7 DEF TarjanInv, PassedSeen
<1> QED BY <1>12, <1>13, <1>14, <1>15, <1>16, <1>17, <1>18, <1>19 DEF TarjanInv

\* strongconnect returns.
LEMMA CallReturns ==
    ASSUME GraphTyped, TarjanInv, Path!Leave
    PROVE  TarjanInv'
<1> DEFINE s == Path!Innermost.skill
           at0 == CHOOSE i \in 1 .. Len(stack) : stack[i] = s
           rest == SubSeq(stack, 1, at0 - 1)
           off == Path!Reverse(SubSeq(stack, at0, Len(stack)))
<1>1. /\ calls # <<>> /\ Path!Innermost.left = {} /\ calls' = Path!Front(calls)
      /\ UNCHANGED <<graph, index>>
      /\ lowlink' = IF calls' = <<>> THEN lowlink
                    ELSE [lowlink EXCEPT ![calls'[Len(calls')].skill] =
                             Path!Least(@, lowlink[s])]
      /\ stack' = IF lowlink[s] = index[s] THEN rest ELSE stack
      /\ sccs' = IF lowlink[s] = index[s] THEN Append(sccs, off) ELSE sccs
  BY DEF Path!Leave
<1>2. CASE lowlink[s] # index[s]
  BY <1>1, <1>2, CallerGoesOn
<1>3. CASE lowlink[s] = index[s]
  <2>1. s \in Members(stack)
    BY <1>1, InnermostCall
  <2>2. /\ rest \in Seq(1 .. SkillCount) /\ off \in Seq(1 .. SkillCount)
        /\ Distinct(off) /\ off # <<>>
        /\ Members(off) = Above(s) /\ Members(rest) = Members(stack) \ Above(s)
        /\ Len(rest) <= Len(stack) /\ Len(rest) \in Nat
        /\ \A i \in 1 .. Len(rest) : i \in 1 .. Len(stack) /\ rest[i] = stack[i]
    BY <2>1, StackCut
  <2>3. stack' = rest /\ sccs' = Append(sccs, off)
    BY <1>1, <1>3
  <2> HIDE DEF rest, off
  <2> QED BY <1>1, <1>3, <2>2, <2>3, ComponentFound
<1> QED BY <1>2, <1>3

-----------------------------------------------------------------------------
(* The search from its start to its end.                                   *)

Unsearched ==
    /\ calls = <<>> /\ stack = <<>> /\ sccs = <<>>
    /\ index = [s \in 1 .. SkillCount |-> 0] /\ lowlink = [s \in 1 .. SkillCount |-> 0]

LEMMA SearchStarts == ASSUME Unsearched, GraphTyped PROVE TarjanInv /\ FramesLoop
<1>0. Path!Cardinality(Path!Unseen) = Cardinality(Path!Unseen)
  BY DEF Path!Cardinality, Cardinality, Path!IsFiniteSet, IsFiniteSet
<1>1. Path!Unseen = 1 .. SkillCount
  BY DEF Unsearched, Path!Unseen, Path!Skills
<1>2. \A s \in 1 .. SkillCount : index[s] <= SkillCount - Cardinality(Path!Unseen)
  BY <1>1, SkillsFinite, PathConstants DEF Unsearched
<1>3. Len(calls) = 0 /\ Len(stack) = 0 /\ Len(sccs) = 0 /\ 1 .. 0 = {}
  BY DEF Unsearched
<1>4. Running = {} /\ Members(stack) = {} /\ \A s : ~ Found(s, Len(sccs))
  BY <1>3 DEF Running, Members, Found
<1>5. TarjanTyped
  BY DEF Unsearched, TarjanTyped
<1>6. NumbersRise
  BY <1>0, <1>2, <1>3 DEF NumbersRise
<1>7. SeenOnce
  BY <1>4 DEF SeenOnce, Unsearched
<1>8. ComponentsSound /\ StackConnected /\ LowlinksReach /\ LowlinksReachAll /\ PassedSeen
  BY <1>3, <1>4
  DEF ComponentsSound, StackConnected, LowlinksReach, LowlinksReachAll, PassedSeen
<1>9. FramesLoop
  BY <1>3 DEF FramesLoop
<1> QED BY <1>5, <1>6, <1>7, <1>8, <1>9 DEF TarjanInv

LEMMA FramesEnter ==
    ASSUME GraphTyped, graph' = graph, NEW s \in 1 .. SkillCount,
           NEW outer \in Seq(Frames),
           \A i \in 1 .. Len(outer) : outer[i].left \subseteq graph[outer[i].skill],
           Path!Enter(s, outer)
    PROVE  FramesLoop'
<1> DEFINE f == [skill |-> s, left |-> graph[s]]
<1>1. calls' = Append(outer, f)
  BY DEF Path!Enter
<1>2. f \in Frames /\ f.left = graph[f.skill]
  BY DEF GraphTyped, Frames
<1> HIDE DEF f
<1>3. /\ Len(calls') = Len(outer) + 1 /\ Len(outer) \in Nat
      /\ calls'[Len(outer) + 1] = f
      /\ \A i \in 1 .. Len(outer) : calls'[i] = outer[i]
  BY <1>1, <1>2, AppendProperties, LenProperties
<1>4. \A i \in 1 .. Len(outer) + 1 : i \in 1 .. Len(outer) \/ i = Len(outer) + 1
  BY <1>3
<1>5. \A i \in 1 .. Len(calls') : calls'[i].left \subseteq graph[calls'[i].skill]
  BY <1>2, <1>3, <1>4
<1> QED BY <1>5 DEF FramesLoop

LEMMA SearchGoesOn ==
    ASSUME GraphTyped, TarjanInv, FramesLoop, Path!EnterRoot \/ Path!Look \/ Path!Leave
    PROVE  TarjanInv' /\ FramesLoop'
<1>1. TarjanInv'
  BY RootBegins, PrerequisiteLooked, CallReturns
<1>2. calls \in Seq(Frames)
  BY DEF TarjanInv, TarjanTyped
<1>3. CASE Path!EnterRoot
  <2> DEFINE s == Head(Path!Ascending(Path!Unseen))
  <2>1. Path!Enter(s, calls) /\ graph' = graph
    BY <1>3 DEF Path!EnterRoot
  <2>2. s \in 1 .. SkillCount
    <3> DEFINE q == Path!Ascending(Path!Unseen)
    <3>1. Path!Unseen \in SUBSET (1 .. SkillCount) /\ Path!Unseen # {}
      BY <1>3 DEF Path!EnterRoot, Path!Unseen, Path!Skills
    <3>2. q \in Seq(Path!Unseen) /\ Members(q) = Path!Unseen
      BY <3>1, AscendingFacts, PathConstants
    <3> HIDE DEF q
    <3>3. q # <<>>
      BY <3>1, <3>2, MembersOf
    <3>4. Head(q) \in Path!Unseen
      BY <3>2, <3>3, HeadTailProperties
    <3> QED BY <3>1, <3>4 DEF q
  <2>3. \A i \in 1 .. Len(calls) : calls[i].left \subseteq graph[calls[i].skill]
    BY DEF FramesLoop
  <2> HIDE DEF s
  <2> QED BY <1>1, <1>2, <2>1, <2>2, <2>3, FramesEnter
<1>4. CASE Path!Look
  <2>1. calls # <<>> /\ graph' = graph
    BY <1>4 DEF Path!Look
  <2>2. PICK p \in Path!Innermost.left : Path!LookAt(p)
    BY <1>4 DEF Path!Look
  <2> DEFINE outer == [calls EXCEPT ![Len(calls)].left = @ \ {p}]
  <2>3. Path!Enter(p, outer) \/ calls' = outer
    BY <2>2 DEF Path!LookAt
  <2>4. /\ outer \in Seq(Frames) /\ Len(outer) = Len(calls)
        /\ \A i \in 1 .. Len(calls) :
             /\ outer[i].skill = calls[i].skill
             /\ outer[i].left = IF i = Len(calls) THEN calls[i].left \ {p} ELSE calls[i].left
    BY <2>1, FrameLooked
  <2> HIDE DEF outer
  <2>5. \A i \in 1 .. Len(outer) : outer[i].left \subseteq graph[outer[i].skill]
    BY <2>4 DEF FramesLoop
  <2>6. p \in 1 .. SkillCount
    BY <2>1, <2>2, InnermostCall DEF Frames
  <2>7. CASE Path!Enter(p, outer)
    BY <1>1, <2>1, <2>4, <2>5, <2>6, <2>7, FramesEnter
  <2>8. CASE calls' = outer
    BY <1>1, <2>1, <2>5, <2>8 DEF FramesLoop
  <2> QED BY <2>3, <2>7, <2>8
<1>5. CASE Path!Leave
  <2> DEFINE outer == Path!Front(calls)
  <2>1. calls # <<>> /\ graph' = graph /\ calls' = outer
    BY <1>5 DEF Path!Leave
  <2>2. /\ Len(outer) = Len(calls) - 1
        /\ \A i \in 1 .. Len(calls) - 1 : i \in 1 .. Len(calls) /\ outer[i] = calls[i]
    BY <2>1, CallOver
  <2> HIDE DEF outer
  <2> QED BY <1>1, <2>1, <2>2 DEF FramesLoop
<1> QED BY <1>3, <1>4, <1>5

-----------------------------------------------------------------------------
(* The components sorted.                                                  *)

\* The components of the search are all there is.
SearchOver == TarjanInv /\ \A s \in 1 .. SkillCount : Found(s, Len(sccs))

\* The components that hold a prerequisite of component j.
NeedsOf ==
    [j \in 1 .. Len(sccs) |-> {i \in 1 .. Len(sccs) : j \in Path!Above(i)}]

\* The components ordered so far.
Done == {k \in 1 .. Len(sccs) : Members(sccs[k]) \subseteq Members(order)}

ComponentsInv ==
    /\ SearchOver /\ PartialOrder(order)
    /\ \A s \in Members(order) : \E k \in Done : s \in Members(sccs[k])
    /\ KahnState(Len(sccs), NeedsOf, Done, waits, queue)

LEMMA ComponentFacts ==
    ASSUME GraphTyped, SearchOver
    PROVE  /\ Len(sccs) \in Nat /\ DOMAIN sccs = 1 .. Len(sccs)
           /\ \A k \in 1 .. Len(sccs) :
                /\ sccs[k] \in Seq(1 .. SkillCount) /\ Members(sccs[k]) # {}
                /\ Path!Range(sccs[k]) = Members(sccs[k])
                /\ Members(sccs[k]) \subseteq 1 .. SkillCount
                /\ \A l \in 1 .. Len(sccs) : l # k => Members(sccs[k]) \cap Members(sccs[l]) = {}
           /\ NeedsOf \in [1 .. Len(sccs) -> SUBSET (1 .. Len(sccs))]
           /\ \A j \in 1 .. Len(sccs) : \A i \in NeedsOf[j] : i \in 1 .. Len(sccs) /\ i < j
           /\ \A i \in 1 .. Len(sccs) : Path!Above(i) = {j \in 1 .. Len(sccs) : i \in NeedsOf[j]}
           /\ \A j \in 1 .. Len(sccs) : \A s \in Members(sccs[j]) : \A p \in graph[s] :
                p \in Members(sccs[j]) \/ \E i \in NeedsOf[j] : p \in Members(sccs[i])
<1> DEFINE m == Len(sccs)
<1>1. m \in Nat /\ DOMAIN sccs = 1 .. m /\ \A k \in 1 .. m : sccs[k] \in Seq(1 .. SkillCount)
  <2>1. sccs \in Seq(Seq(1 .. SkillCount))
    BY DEF SearchOver, TarjanInv, TarjanTyped
  <2> QED BY <2>1, LenProperties
<1>2. \A k \in 1 .. m : /\ Members(sccs[k]) # {} /\ Path!Range(sccs[k]) = Members(sccs[k])
                        /\ Members(sccs[k]) \subseteq 1 .. SkillCount
  <2>1. \A k \in 1 .. m : sccs[k] # <<>>
    BY DEF SearchOver, TarjanInv, ComponentsSound
  <2>2. \A q \in Seq(1 .. SkillCount) : q # <<>> =>
           /\ Members(q) # {} /\ Path!Range(q) = Members(q)
           /\ Members(q) \subseteq 1 .. SkillCount
    BY MembersOf
  <2> HIDE DEF m
  <2> QED BY <1>1, <2>1, <2>2
<1>3. \A k, l \in 1 .. m : l # k => Members(sccs[k]) \cap Members(sccs[l]) = {}
  BY DEF SearchOver, TarjanInv, ComponentsSound
<1>4. ASSUME NEW j \in 1 .. m, NEW s \in Members(sccs[j]), NEW p \in graph[s]
      PROVE  \E l \in 1 .. j : l \in 1 .. m /\ p \in Members(sccs[l])
  <2>1. Found(p, j)
    BY DEF SearchOver, TarjanInv, ComponentsSound
  <2>2. \A l \in 1 .. j : l \in 1 .. m
    BY <1>1
  <2> QED BY <2>1, <2>2 DEF Found
<1>5. NeedsOf = [j \in 1 .. m |-> {i \in 1 .. m : j \in Path!Above(i)}]
  BY DEF NeedsOf
<1>6. \A i, j \in 1 .. m : i \in NeedsOf[j] <=>
         i # j /\ \E s \in Members(sccs[j]) : graph[s] \cap Members(sccs[i]) # {}
  BY <1>1, <1>2, <1>5 DEF Path!Above
<1>7. \A i \in 1 .. m : Path!Above(i) = {j \in 1 .. m : i \in NeedsOf[j]}
  <2>1. \A i : Path!Above(i) \subseteq 1 .. m
    BY <1>1 DEF Path!Above
  <2> QED BY <1>5, <2>1
<1> HIDE DEF m
<1>8. ASSUME NEW j \in 1 .. m, NEW i \in NeedsOf[j] PROVE i \in 1 .. m /\ i < j
  <2>1. i \in 1 .. m
    BY <1>5
  <2>2. PICK s \in Members(sccs[j]) : graph[s] \cap Members(sccs[i]) # {}
    BY <1>6, <2>1
  <2>3. PICK p \in graph[s] : p \in Members(sccs[i])
    BY <2>2
  <2>4. PICK l \in 1 .. j : l \in 1 .. m /\ p \in Members(sccs[l])
    BY <1>4
  <2>5. l = i
    BY <1>3, <2>1, <2>3, <2>4
  <2>6. i # j
    BY <1>6, <2>1
  <2> QED BY <1>1, <2>1, <2>4, <2>5, <2>6
<1>9. ASSUME NEW j \in 1 .. m, NEW s \in Members(sccs[j]), NEW p \in graph[s]
      PROVE  p \in Members(sccs[j]) \/ \E i \in NeedsOf[j] : p \in Members(sccs[i])
  <2>1. PICK l \in 1 .. j : l \in 1 .. m /\ p \in Members(sccs[l])
    BY <1>4
  <2> QED BY <1>6, <2>1
<1>10. NeedsOf \in [1 .. m -> SUBSET (1 .. m)]
  BY <1>5
<1> QED BY <1>1, <1>2, <1>3, <1>7, <1>8, <1>9, <1>10 DEF m

\* Tarjan's search is over, the sort of its components starts.
LEMMA ComponentsStart ==
    ASSUME GraphTyped, TarjanInv, order = <<>>, Path!Compress
    PROVE  ComponentsInv'
<1> DEFINE m == Len(sccs)
<1>1. /\ calls = <<>> /\ Path!Unseen = {} /\ UNCHANGED <<graph, order, Path!tarjanVars>>
      /\ waits' = [j \in DOMAIN sccs |->
                     Path!Cardinality({i \in DOMAIN sccs : j \in Path!Above(i)})]
      /\ queue' = Path!Ascending({j \in DOMAIN sccs :
                     \A i \in DOMAIN sccs : j \notin Path!Above(i)})
  BY DEF Path!Compress
<1>2. SearchOver
  <2>1. Running = {}
    BY <1>1 DEF Running
  <2>2. Members(stack) = {}
    BY <2>1 DEF TarjanInv, StackConnected
  <2>3. \A s \in 1 .. SkillCount : index[s] > 0
    <3>1. \A s \in 1 .. SkillCount : index[s] \in Nat /\ index[s] # 0
      BY <1>1, StackNumbers DEF Path!Unseen, Path!Skills
    <3> QED BY <3>1
  <2> QED BY <2>2, <2>3 DEF SearchOver, TarjanInv, SeenOnce
<1>3. /\ m \in Nat /\ DOMAIN sccs = 1 .. m
      /\ NeedsOf \in [1 .. m -> SUBSET (1 .. m)] /\ \A k \in 1 .. m : Members(sccs[k]) # {}
  BY <1>2, ComponentFacts
<1>4. waits' = [j \in 1 .. m |-> Cardinality(NeedsOf[j])]
  <2>1. \A S : Path!Cardinality(S) = Cardinality(S)
    BY DEF Path!Cardinality, Cardinality, Path!IsFiniteSet, IsFiniteSet
  <2> QED BY <1>1, <1>3, <2>1 DEF NeedsOf
<1>5. queue' = Path!Ascending({j \in 1 .. m : NeedsOf[j] = {}})
  <2>1. {j \in 1 .. m : NeedsOf[j] = {}}
          = {j \in DOMAIN sccs : \A i \in DOMAIN sccs : j \notin Path!Above(i)}
    BY <1>3 DEF NeedsOf
  <2> QED BY <1>1, <2>1
<1>6. KahnState(m, NeedsOf, {}, waits', queue')
  BY <1>3, <1>4, <1>5, KahnBegins
<1>7. Members(order) = {} /\ Distinct(order) /\ PrerequisitesFirst(order)
  BY DEF Members, Distinct, PrerequisitesFirst
<1>8. PartialOrder(order)
  BY <1>7 DEF PartialOrder
<1>9. Done = {}
  BY <1>3, <1>7 DEF Done
<1>10. /\ order' = order /\ graph' = graph /\ sccs' = sccs /\ calls' = calls /\ stack' = stack
       /\ index' = index /\ lowlink' = lowlink
  BY <1>1 DEF Path!tarjanVars
<1>11. NeedsOf' = NeedsOf /\ Done' = Done /\ Members(order)' = Members(order)
  BY <1>10 DEF NeedsOf, Done, Path!Above
<1>12. SearchOver' /\ PartialOrder(order)'
  <2>1. TarjanInv' <=> TarjanInv
    BY <1>10
    DEF TarjanInv, TarjanTyped, NumbersRise, SeenOnce, ComponentsSound, StackConnected,
        LowlinksReach, LowlinksReachAll, PassedSeen, Running, Found, Passed, Owns,
        Path!Needs, Path!Unseen
  <2>2. PartialOrder(order)' <=> PartialOrder(order)
    BY <1>10 DEF PartialOrder, PrerequisitesFirst, Path!Needs
  <2>3. \A s : Found(s, Len(sccs))' <=> Found(s, Len(sccs))
    BY <1>10 DEF Found
  <2> QED BY <1>2, <1>8, <2>1, <2>2, <2>3 DEF SearchOver
<1>13. KahnState(Len(sccs), NeedsOf, Done, waits, queue)'
  BY <1>6, <1>9, <1>10, <1>11 DEF KahnState
<1> QED BY <1>7, <1>10, <1>12, <1>13 DEF ComponentsInv

LEMMA ComponentTaken ==
    ASSUME GraphTyped, ComponentsInv, Path!TakeComponent
    PROVE  ComponentsInv'
<1> DEFINE h == Head(queue)  m == Len(sccs)  r == sccs[h]
<1>1. /\ queue # <<>> /\ UNCHANGED <<graph, Path!tarjanVars>> /\ order' = order \o r
      /\ waits' = [n \in DOMAIN waits |->
                      IF n \in Path!Above(h) THEN waits[n] - 1 ELSE waits[n]]
      /\ queue' = Tail(queue) \o Path!Ascending({n \in Path!Above(h) : waits[n] = 1})
  BY DEF Path!TakeComponent, Path!TakeHead
<1>2. /\ order' = order \o r /\ graph' = graph /\ sccs' = sccs /\ calls' = calls
      /\ stack' = stack /\ index' = index /\ lowlink' = lowlink
  BY <1>1 DEF Path!tarjanVars
<1>3. /\ m \in Nat /\ NeedsOf \in [1 .. m -> SUBSET (1 .. m)]
      /\ \A k \in 1 .. m :
           /\ sccs[k] \in Seq(1 .. SkillCount) /\ Members(sccs[k]) # {}
           /\ \A l \in 1 .. m : l # k => Members(sccs[k]) \cap Members(sccs[l]) = {}
      /\ \A i \in 1 .. m : Path!Above(i) = {j \in 1 .. m : i \in NeedsOf[j]}
      /\ \A j \in 1 .. m : \A s \in Members(sccs[j]) : \A p \in graph[s] :
           p \in Members(sccs[j]) \/ \E i \in NeedsOf[j] : p \in Members(sccs[i])
  BY ComponentFacts DEF ComponentsInv
<1>4. /\ h \in (1 .. m) \ Done /\ NeedsOf[h] \subseteq Done
      /\ KahnState(m, NeedsOf, Done \cup {h}, CountsAfter(m, NeedsOf, waits, queue),
                   QueueAfter(m, NeedsOf, waits, queue))
  <2>1. KahnState(m, NeedsOf, Done, waits, queue)
    BY DEF ComponentsInv
  <2> HIDE DEF m
  <2> QED BY <1>1, <1>3, <2>1, KahnGoesOn
<1>5. waits' = CountsAfter(m, NeedsOf, waits, queue) /\ queue' = QueueAfter(m, NeedsOf, waits, queue)
  <2>1. Path!Above(h) = Freeing(m, NeedsOf, queue)
    <3>1. Path!Above(h) = {j \in 1 .. m : h \in NeedsOf[j]}
      BY <1>3, <1>4
    <3> QED BY <3>1 DEF Freeing
  <2> QED BY <1>1, <2>1 DEF CountsAfter, QueueAfter
<1> HIDE DEF h, m
<1>6. r \in Seq(1 .. SkillCount) /\ Distinct(r)
  <2>1. Distinct(sccs[h])
    BY <1>4 DEF ComponentsInv, SearchOver, TarjanInv, ComponentsSound, m
  <2> QED BY <1>3, <1>4, <2>1
<1>7. \A k \in Done : k \in 1 .. m /\ k # h /\ Members(sccs[k]) \subseteq Members(order)
  BY <1>4 DEF Done, m
<1>8. Members(order) \cap Members(r) = {}
  <2> SUFFICES ASSUME NEW s \in Members(order), s \in Members(r) PROVE FALSE
    OBVIOUS
  <2>1. PICK k \in Done : s \in Members(sccs[k])
    BY DEF ComponentsInv
  <2> QED BY <1>3, <1>4, <1>7, <2>1
<1>9. ASSUME NEW s \in Members(r), NEW p \in graph[s]
      PROVE  Path!Needs(p, s) \/ p \in Members(order)
  <2>1. CASE p \in Members(r)
    BY <1>4, <2>1 DEF ComponentsInv, SearchOver, TarjanInv, ComponentsSound, m
  <2>2. CASE \E i \in NeedsOf[h] : p \in Members(sccs[i])
    BY <1>4, <1>7, <2>2
  <2> QED BY <1>3, <1>4, <2>1, <2>2
<1>10. PartialOrder(order \o r) /\ Members(order \o r) = Members(order) \cup Members(r)
  <2>1. PartialOrder(order)
    BY DEF ComponentsInv
  <2> HIDE DEF r
  <2> QED BY <1>6, <1>8, <1>9, <2>1, OrderGrows
<1> HIDE DEF r
<1>11. Members(order)' = Members(order) \cup Members(r)
  <2>1. Members(order)' = Members(order')
    OBVIOUS
  <2> QED BY <1>2, <1>10, <2>1
<1>12. Done' = Done \cup {h}
  <2>1. Done' = {k \in 1 .. m : Members(sccs[k]) \subseteq Members(order) \cup Members(r)}
    BY <1>2, <1>11 DEF Done, m
  <2>2. Members(sccs[h]) = Members(r) /\ h \in 1 .. m
    BY <1>4 DEF r
  <2>3. ASSUME NEW k \in 1 .. m, k # h, Members(sccs[k]) \subseteq Members(order) \cup Members(r)
        PROVE  Members(sccs[k]) \subseteq Members(order)
    BY <1>3, <2>2, <2>3
  <2>4. Done = {k \in 1 .. m : Members(sccs[k]) \subseteq Members(order)}
    BY DEF Done, m
  <2> QED BY <2>1, <2>2, <2>3, <2>4
<1>13. \A s \in Members(order)' : \E k \in Done' : s \in Members(sccs'[k])
  <2>1. \A s \in Members(order) : \E k \in Done : s \in Members(sccs[k])
    BY DEF ComponentsInv
  <2> QED BY <1>2, <1>11, <1>12, <2>1 DEF r
<1>14. SearchOver' /\ PartialOrder(order)'
  <2>1. TarjanInv' <=> TarjanInv
    BY <1>2
    DEF TarjanInv, TarjanTyped, NumbersRise, SeenOnce, ComponentsSound, StackConnected,
        LowlinksReach, LowlinksReachAll, PassedSeen, Running, Found, Passed, Owns,
        Path!Needs, Path!Unseen
  <2>2. PartialOrder(order)' <=> PartialOrder(order \o r)
    BY <1>2 DEF PartialOrder, PrerequisitesFirst, Path!Needs
  <2>3. \A s : Found(s, Len(sccs))' <=> Found(s, Len(sccs))
    BY <1>2 DEF Found
  <2> QED BY <1>10, <2>1, <2>2, <2>3 DEF SearchOver, ComponentsInv
<1>15. NeedsOf' = NeedsOf
  BY <1>2 DEF NeedsOf, Path!Above
<1>16. KahnState(Len(sccs), NeedsOf, Done, waits, queue)'
  <2>1. KahnState(m, NeedsOf, Done \cup {h}, waits', queue')
    BY <1>4, <1>5
  <2> QED BY <1>2, <1>12, <1>15, <2>1 DEF KahnState, m
<1> QED BY <1>13, <1>14, <1>16 DEF ComponentsInv

LEMMA ComponentsOrder ==
    ASSUME GraphTyped, ComponentsInv, queue = <<>>
    PROVE  OrderInv
<1> DEFINE m == Len(sccs)  left == (1 .. m) \ Done
<1>1. /\ m \in Nat
      /\ \A j \in 1 .. m : \A i \in NeedsOf[j] : i \in 1 .. m /\ i < j
      /\ \A k \in 1 .. m : Members(sccs[k]) \subseteq 1 .. SkillCount
  BY ComponentFacts DEF ComponentsInv
<1>2. {k \in (1 .. m) \ Done : NeedsOf[k] \subseteq Done} = {}
  <2>1. Members(queue) = {}
    BY DEF Members
  <2> QED BY <2>1 DEF ComponentsInv, KahnState
<1>3. left = {}
  <2> SUFFICES ASSUME left # {} PROVE FALSE
    OBVIOUS
  <2>1. left \in SUBSET Nat
    BY <1>1
  <2>2. PICK k \in left : \A l \in left : k <= l
    BY <2>1, LeastNumber
  <2>3. NeedsOf[k] \subseteq Done
    <3> SUFFICES ASSUME NEW i \in NeedsOf[k], i \notin Done PROVE FALSE
      OBVIOUS
    <3>1. i \in 1 .. m /\ i < k
      BY <1>1, <2>2
    <3>2. k <= i
      BY <2>2, <3>1
    <3> QED BY <1>1, <2>2, <3>1, <3>2
  <2> QED BY <1>2, <2>2, <2>3
<1>4. \A s \in 1 .. SkillCount : s \in Members(order)
  <2>1. \A s \in 1 .. SkillCount : \E k \in 1 .. m : s \in Members(sccs[k])
    BY DEF ComponentsInv, SearchOver, Found
  <2> QED BY <1>3, <2>1 DEF Done
<1>5. PartialOrder(order)
  BY DEF ComponentsInv
<1>6. Members(order) \subseteq 1 .. SkillCount
  BY <1>5, MembersOf DEF PartialOrder
<1> QED BY <1>4, <1>5, <1>6 DEF OrderInv

-----------------------------------------------------------------------------
(* A complete order.                                                       *)

LEMMA PlacesOfOrder ==
    ASSUME OrderInv
    PROVE  /\ Len(order) = SkillCount /\ Path!Range(order) = 1 .. SkillCount
           /\ order \in Seq(1 .. SkillCount)
           /\ \A i \in 1 .. Len(order) : Path!Position(order[i]) = i
<1>1. order \in Seq(1 .. SkillCount) /\ Distinct(order) /\ Members(order) = 1 .. SkillCount
  BY DEF OrderInv, PartialOrder
<1>2. Len(order) = SkillCount
  BY <1>1, SkillsFinite, DistinctCounts
<1>3. Path!Range(order) = 1 .. SkillCount
  BY <1>1, MembersOf
<1>4. \A i \in 1 .. Len(order) : Path!Position(order[i]) = i
  BY <1>1 DEF Path!Position, Distinct
<1> QED BY <1>1, <1>2, <1>3, <1>4

LEMMA OrderSound == ASSUME GraphTyped, OrderInv PROVE Path!OrderIsSound
<1>1. /\ Len(order) = SkillCount /\ Path!Range(order) = 1 .. SkillCount
      /\ order \in Seq(1 .. SkillCount)
      /\ \A i \in 1 .. Len(order) : Path!Position(order[i]) = i
  BY PlacesOfOrder
<1>2. ASSUME NEW s \in 1 .. SkillCount, NEW p \in graph[s], ~ Path!Needs(p, s)
      PROVE  Path!Position(p) < Path!Position(s)
  <2>1. PICK i \in 1 .. Len(order) : order[i] = s
    BY DEF OrderInv, Members
  <2>2. PICK k \in 1 .. i - 1 : order[k] = p
    BY <1>2, <2>1 DEF OrderInv, PartialOrder, PrerequisitesFirst
  <2>3. Len(order) \in Nat
    BY <1>1, LenProperties
  <2>4. k \in 1 .. Len(order) /\ k < i
    BY <2>3
  <2>5. Path!Position(s) = i /\ Path!Position(p) = k
    BY <1>1, <2>1, <2>2, <2>4
  <2> QED BY <2>4, <2>5
<1> QED BY <1>1, <1>2 DEF Path!OrderIsSound, Path!Skills

-----------------------------------------------------------------------------
(* The hours of a phase, and the phases in a row.                          *)

LEMMA GreatestOf ==
    ASSUME NEW n \in Nat, NEW s \in SUBSET (1 .. n + 1), n + 1 \in s
    PROVE  Path!Max(s) = n + 1
<1>1. \A y \in s : n + 1 >= y
  OBVIOUS
<1>2. \A x \in s : (\A y \in s : x >= y) => x = n + 1
  OBVIOUS
<1> QED BY <1>1, <1>2 DEF Path!Max

\* What f makes of a set of places of q: the hours of the items there.
SumOf(q, f, s) == IF s = {} THEN 0 ELSE f[s \ {Path!Max(s)}] + q[Path!Max(s)][2]

Sums(q, f) == f = [s \in SUBSET DOMAIN q |-> SumOf(q, f, s)]

LEMMA SumsExist == ASSUME NEW S, NEW q \in Seq(S) PROVE \E f : Sums(q, f)
<1> DEFINE n == Len(q)
           UpTo(f, k) == \A s \in SUBSET (1 .. k) : f[s] = SumOf(q, f, s)
           Bad == {k \in 0 .. n : \A f : ~ UpTo(f, k)}
<1>1. n \in Nat /\ DOMAIN q = 1 .. n
  BY LenProperties
<1> HIDE DEF n
<1>2. Bad = {}
  <2> SUFFICES ASSUME Bad # {} PROVE FALSE
    OBVIOUS
  <2>1. Bad \in SUBSET Nat
    BY <1>1
  <2> HIDE DEF Bad
  <2>2. PICK k \in Bad : \A j \in Bad : k <= j
    BY <2>1, LeastNumber
  <2>3. k \in 0 .. n /\ \A f : ~ UpTo(f, k)
    BY DEF Bad
  <2>4. k # 0
    <3> DEFINE f == [s \in {{}} |-> 0]
    <3>1. \A s \in SUBSET (1 .. 0) : s = {}
      OBVIOUS
    <3>2. f[{}] = 0 /\ SumOf(q, f, {}) = 0
      BY DEF SumOf
    <3> HIDE DEF f
    <3>3. UpTo(f, 0)
      BY <3>1, <3>2
    <3> QED BY <2>3, <3>3
  <2> DEFINE j == k - 1
  <2>5. j \in 0 .. n /\ j \in Nat /\ k = j + 1 /\ j < k
    BY <1>1, <2>3, <2>4
  <2>6. j \notin Bad
    BY <2>2, <2>5
  <2>7. PICK f : UpTo(f, j)
    BY <2>5, <2>6 DEF Bad
  <2> DEFINE g == [s \in SUBSET (1 .. n) |-> IF k \in s THEN f[s \ {k}] + q[k][2] ELSE f[s]]
  <2> HIDE DEF j
  <2>8. ASSUME NEW s \in SUBSET (1 .. k) PROVE g[s] = SumOf(q, g, s)
    <3>1. s \in SUBSET (1 .. n) /\ \A x : s \ {x} \in SUBSET (1 .. n)
      <4>1. \A i \in 1 .. k : i \in 1 .. n
        BY <1>1, <2>3
      <4> QED BY <4>1
    <3>2. CASE k \in s
      <4>1. Path!Max(s) = k
        BY <2>5, <3>2, GreatestOf
      <4>2. k \notin s \ {k} /\ s # {}
        BY <3>2
      <4>3. g[s] = f[s \ {k}] + q[k][2]
        BY <3>1, <3>2
      <4>4. g[s \ {k}] = f[s \ {k}]
        BY <3>1, <4>2
      <4> HIDE DEF g
      <4> QED BY <4>1, <4>2, <4>3, <4>4 DEF SumOf
    <3>3. CASE k \notin s
      <4>1. s \in SUBSET (1 .. j)
        BY <2>5, <3>3
      <4>2. f[s] = SumOf(q, f, s)
        BY <2>7, <4>1
      <4>3. g[s] = f[s]
        BY <3>1, <3>3
      <4>4. \A x : g[s \ {x}] = f[s \ {x}]
        BY <3>1, <3>3
      <4> HIDE DEF g
      <4> QED BY <4>2, <4>3, <4>4 DEF SumOf
    <3> QED BY <3>2, <3>3
  <2> HIDE DEF g
  <2>9. UpTo(g, k)
    BY <2>8
  <2> QED BY <2>3, <2>9
<1>3. PICK f : UpTo(f, n)
  <2> HIDE DEF UpTo
  <2>1. n \in 0 .. n
    BY <1>1
  <2> QED BY <1>2, <2>1
<1> DEFINE h == [s \in SUBSET (1 .. n) |-> f[s]]
<1>4. \A s \in SUBSET (1 .. n) : SumOf(q, h, s) = SumOf(q, f, s)
  <2> SUFFICES ASSUME NEW s \in SUBSET (1 .. n) PROVE SumOf(q, h, s) = SumOf(q, f, s)
    OBVIOUS
  <2>1. \A x : s \ {x} \in SUBSET (1 .. n)
    OBVIOUS
  <2>2. \A x : h[s \ {x}] = f[s \ {x}]
    BY <2>1
  <2> HIDE DEF h
  <2> QED BY <2>2 DEF SumOf
<1>5. h = [s \in SUBSET (1 .. n) |-> SumOf(q, h, s)]
  <2>1. h = [s \in SUBSET (1 .. n) |-> SumOf(q, f, s)]
    BY <1>3
  <2> HIDE DEF h
  <2> QED BY <1>4, <2>1
<1> HIDE DEF h
<1> QED BY <1>1, <1>5 DEF Sums

LEMMA HoursOfPhase ==
    ASSUME NEW S, NEW q \in Seq(S)
    PROVE  \E f : Sums(q, f) /\ Path!Hours(q) = f[DOMAIN q]
<1> DEFINE F == CHOOSE f : Sums(q, f)
<1>1. F = CHOOSE f : f = [s \in SUBSET DOMAIN q |->
                IF s = {} THEN 0 ELSE f[s \ {Path!Max(s)}] + q[Path!Max(s)][2]]
  BY DEF Sums, SumOf
<1>2. Path!Hours(q) = F[DOMAIN q]
  <2>1. Path!Hours(q) = (CHOOSE f : f = [s \in SUBSET DOMAIN q |->
                IF s = {} THEN 0 ELSE f[s \ {Path!Max(s)}] + q[Path!Max(s)][2]])[DOMAIN q]
    BY DEF Path!Hours, Path!FoldLeft, Path!MapThenFoldSet
  <2> QED BY <1>1, <2>1
<1>3. Sums(q, F)
  BY SumsExist
<1> HIDE DEF F
<1> QED BY <1>2, <1>3

LEMMA HoursGrow ==
    ASSUME NEW S, NEW q \in Seq(S), NEW x \in S
    PROVE  Path!Hours(Append(q, x)) = Path!Hours(q) + x[2]
<1> DEFINE n == Len(q)  r == Append(q, x)
<1>1. /\ n \in Nat /\ DOMAIN q = 1 .. n /\ r \in Seq(S) /\ DOMAIN r = 1 .. n + 1
      /\ \A i \in 1 .. n : r[i] = q[i]
      /\ r[n + 1] = x
  <2>1. n \in Nat /\ DOMAIN q = 1 .. n
    BY LenProperties
  <2>2. /\ Append(q, x) \in Seq(S) /\ Len(Append(q, x)) = Len(q) + 1
        /\ \A i \in 1 .. Len(q) : Append(q, x)[i] = q[i]
        /\ Append(q, x)[Len(q) + 1] = x
    BY AppendProperties
  <2>3. DOMAIN r = 1 .. Len(r)
    BY <2>2, LenProperties
  <2> QED BY <2>1, <2>2, <2>3
<1>2. PICK f : Sums(q, f) /\ Path!Hours(q) = f[DOMAIN q]
  BY HoursOfPhase
<1> HIDE DEF r
<1>3. PICK g : Sums(r, g) /\ Path!Hours(r) = g[DOMAIN r]
  BY <1>1, HoursOfPhase
<1> HIDE DEF n
<1>4. ASSUME NEW k \in Nat, k + 1 \in 1 .. n + 1
      PROVE  /\ g[1 .. k + 1] = g[1 .. k] + r[k + 1][2]
             /\ k + 1 \in 1 .. n => f[1 .. k + 1] = f[1 .. k] + q[k + 1][2]
  <2>1. (1 .. k + 1) \in SUBSET (1 .. n + 1) /\ k + 1 \in 1 .. k + 1
    BY <1>1, <1>4
  <2>2. (1 .. k + 1) \ {k + 1} = 1 .. k
    OBVIOUS
  <2>3. Path!Max(1 .. k + 1) = k + 1
    BY <2>1, GreatestOf
  <2>4. (1 .. k + 1) # {}
    BY <2>1
  <2>5. g[1 .. k + 1] = SumOf(r, g, 1 .. k + 1)
    BY <1>1, <1>3, <2>1 DEF Sums
  <2>6. k + 1 \in 1 .. n => f[1 .. k + 1] = SumOf(q, f, 1 .. k + 1)
    <3> SUFFICES ASSUME k + 1 \in 1 .. n PROVE f[1 .. k + 1] = SumOf(q, f, 1 .. k + 1)
      OBVIOUS
    <3>1. (1 .. k + 1) \in SUBSET (1 .. n)
      BY <1>1
    <3> QED BY <1>1, <1>2, <3>1 DEF Sums
  <2> QED BY <2>2, <2>3, <2>4, <2>5, <2>6 DEF SumOf
<1> DEFINE Bad == {k \in 0 .. n : f[1 .. k] # g[1 .. k]}
<1>5. Bad = {}
  <2> SUFFICES ASSUME Bad # {} PROVE FALSE
    OBVIOUS
  <2>1. Bad \in SUBSET Nat
    BY <1>1
  <2>2. PICK k \in Bad : \A j \in Bad : k <= j
    BY <2>1, LeastNumber
  <2>3. k # 0
    <3>1. 1 .. 0 = {} /\ {} \in SUBSET (1 .. n) /\ {} \in SUBSET (1 .. n + 1)
      OBVIOUS
    <3>2. f[{}] = 0 /\ g[{}] = 0
      BY <1>1, <1>2, <1>3, <3>1 DEF Sums, SumOf
    <3> QED BY <3>1, <3>2
  <2> DEFINE j == k - 1
  <2>4. j \in Nat /\ j \in 0 .. n /\ k = j + 1 /\ j + 1 \in 1 .. n /\ j + 1 \in 1 .. n + 1 /\ j < k
    BY <1>1, <2>3
  <2>5. f[1 .. j] = g[1 .. j]
    BY <2>2, <2>4
  <2> HIDE DEF j
  <2>6. f[1 .. j + 1] = g[1 .. j + 1]
    BY <1>1, <1>4, <2>4, <2>5
  <2> QED BY <2>4, <2>6
<1>6. f[1 .. n] = g[1 .. n]
  BY <1>1, <1>5
<1>7. g[1 .. n + 1] = g[1 .. n] + r[n + 1][2]
  BY <1>1, <1>4
<1> QED BY <1>1, <1>2, <1>3, <1>6, <1>7 DEF r

\* f[i] is the first i phases in a row.
Joins(list, f) ==
    f = [i \in 1 .. Len(list) |-> IF i = 1 THEN list[i] ELSE f[i - 1] \o list[i]]

LEMMA JoinsExist == ASSUME NEW S, NEW list \in Seq(S) PROVE \E f : Joins(list, f)
<1> DEFINE n == Len(list)
           Link(f, i) == IF i = 1 THEN list[i] ELSE f[i - 1] \o list[i]
           UpTo(f, k) == \A i \in 1 .. k : f[i] = Link(f, i)
           Bad == {k \in 0 .. n : \A f : ~ UpTo(f, k)}
<1>1. n \in Nat
  BY LenProperties
<1> HIDE DEF n
<1>2. Bad = {}
  <2> SUFFICES ASSUME Bad # {} PROVE FALSE
    OBVIOUS
  <2>1. Bad \in SUBSET Nat
    BY <1>1
  <2> HIDE DEF Bad
  <2>2. PICK k \in Bad : \A j \in Bad : k <= j
    BY <2>1, LeastNumber
  <2>3. k \in 0 .. n /\ \A f : ~ UpTo(f, k)
    BY DEF Bad
  <2>4. k # 0
    <3>1. \A f : UpTo(f, 0)
      OBVIOUS
    <3> HIDE DEF UpTo
    <3> QED BY <2>3, <3>1
  <2> DEFINE j == k - 1
  <2>5. j \in 0 .. n /\ j \in Nat /\ k = j + 1 /\ j < k /\ k \in Nat /\ k <= n
    BY <1>1, <2>3, <2>4
  <2>6. j \notin Bad
    BY <2>2, <2>5
  <2> HIDE DEF j
  <2>7. PICK f : UpTo(f, j)
    <3> HIDE DEF UpTo
    <3> QED BY <2>5, <2>6 DEF Bad
  <2> DEFINE g == [i \in 1 .. n |-> IF i = k THEN Link(f, k) ELSE f[i]]
  <2>8. ASSUME NEW i \in 1 .. k PROVE g[i] = Link(g, i)
    <3>1. i \in 1 .. n /\ (i # 1 => i - 1 \in 1 .. n /\ i - 1 # k)
      BY <1>1, <2>5
    <3>2. i # 1 => g[i - 1] = f[i - 1]
      BY <3>1
    <3>3. CASE i = k
      <4>1. g[i] = Link(f, i)
        BY <3>1, <3>3
      <4> HIDE DEF g
      <4> QED BY <3>2, <4>1
    <3>4. CASE i # k
      <4>1. i \in 1 .. j
        BY <2>5, <3>4
      <4>2. f[i] = Link(f, i)
        BY <2>7, <4>1
      <4>3. g[i] = f[i]
        BY <3>1, <3>4
      <4> HIDE DEF g
      <4> QED BY <3>2, <4>2, <4>3
    <3> QED BY <3>3, <3>4
  <2> HIDE DEF g
  <2>9. UpTo(g, k)
    BY <2>8
  <2> HIDE DEF UpTo
  <2> QED BY <2>3, <2>9
<1>3. PICK f : UpTo(f, n)
  <2> HIDE DEF UpTo
  <2>1. n \in 0 .. n
    BY <1>1
  <2> QED BY <1>2, <2>1
<1> DEFINE h == [i \in 1 .. n |-> f[i]]
<1>4. ASSUME NEW i \in 1 .. n PROVE h[i] = Link(h, i)
  <2>1. i # 1 => i - 1 \in 1 .. n
    BY <1>1
  <2>2. i # 1 => h[i - 1] = f[i - 1]
    BY <2>1
  <2>3. h[i] = f[i] /\ f[i] = Link(f, i)
    BY <1>3
  <2> HIDE DEF h
  <2> QED BY <2>2, <2>3
<1>5. h = [i \in 1 .. n |-> h[i]]
  OBVIOUS
<1> HIDE DEF h
<1>6. h = [i \in 1 .. n |-> IF i = 1 THEN list[i] ELSE h[i - 1] \o list[i]]
  BY <1>4, <1>5
<1> QED BY <1>6 DEF Joins, n

LEMMA FlatOfPhases ==
    ASSUME NEW S, NEW list \in Seq(S), Len(list) # 0
    PROVE  \E f : Joins(list, f) /\ Path!FlattenSeq(list) = f[Len(list)]
<1> DEFINE F == CHOOSE f : Joins(list, f)
<1>1. Path!FlattenSeq(list) = F[Len(list)]
  <2>1. Path!FlattenSeq(list) = (CHOOSE f : f = [i \in 1 .. Len(list) |->
                IF i = 1 THEN list[i] ELSE f[i - 1] \o list[i]])[Len(list)]
    BY DEF Path!FlattenSeq
  <2> QED BY <2>1 DEF Joins
<1>2. Joins(list, F)
  BY JoinsExist
<1> HIDE DEF F
<1> QED BY <1>1, <1>2

LEMMA FlatGrows ==
    ASSUME NEW S, NEW list \in Seq(Seq(S)), NEW x \in Seq(S)
    PROVE  Path!FlattenSeq(Append(list, x)) = Path!FlattenSeq(list) \o x
<1> DEFINE n == Len(list)  r == Append(list, x)
<1>1. /\ n \in Nat /\ r \in Seq(Seq(S)) /\ Len(r) = n + 1
      /\ \A i \in 1 .. n : r[i] = list[i]
      /\ r[n + 1] = x
  BY AppendProperties, LenProperties
<1> HIDE DEF r
<1>2. PICK g : Joins(r, g) /\ Path!FlattenSeq(r) = g[Len(r)]
  <2>1. Len(r) # 0
    BY <1>1
  <2> QED BY <1>1, <2>1, FlatOfPhases
<1>3. CASE n = 0
  <2>1. Path!FlattenSeq(list) = <<>>
    <3>1. list = <<>>
      BY <1>3, EmptySeq
    <3> QED BY <1>3, <3>1 DEF Path!FlattenSeq
  <2>2. g[1] = r[1] /\ Len(r) = 1 /\ r[1] = x
    BY <1>1, <1>2, <1>3 DEF Joins
  <2>3. <<>> \o x = x
    BY ConcatEmptySeq
  <2> QED BY <1>2, <2>1, <2>2, <2>3 DEF r
<1>4. CASE n # 0
  <2>1. PICK f : Joins(list, f) /\ Path!FlattenSeq(list) = f[n]
    BY <1>4, FlatOfPhases
  <2> HIDE DEF n
  <2> DEFINE Bad == {k \in 1 .. n : f[k] # g[k]}
  <2>2. /\ \A i \in 1 .. n : f[i] = IF i = 1 THEN list[i] ELSE f[i - 1] \o list[i]
        /\ \A i \in 1 .. n + 1 : g[i] = IF i = 1 THEN r[i] ELSE g[i - 1] \o r[i]
        /\ \A i \in 1 .. n : i \in 1 .. n + 1
    <3>1. f = [i \in 1 .. n |-> IF i = 1 THEN list[i] ELSE f[i - 1] \o list[i]]
      BY <2>1 DEF Joins, n
    <3>2. g = [i \in 1 .. n + 1 |-> IF i = 1 THEN r[i] ELSE g[i - 1] \o r[i]]
      BY <1>1, <1>2 DEF Joins
    <3>3. \A i \in 1 .. n : i \in 1 .. n + 1
      BY <1>1
    <3> QED BY <3>1, <3>2, <3>3
  <2>3. Bad = {}
    <3> SUFFICES ASSUME Bad # {} PROVE FALSE
      OBVIOUS
    <3>1. Bad \in SUBSET Nat
      BY <1>1
    <3>2. PICK k \in Bad : \A j \in Bad : k <= j
      BY <3>1, LeastNumber
    <3>3. k # 1
      BY <1>1, <2>2, <3>2
    <3>4. k - 1 \in 1 .. n /\ k - 1 < k
      BY <1>1, <3>2, <3>3
    <3>5. f[k - 1] = g[k - 1]
      BY <3>2, <3>4
    <3>6. f[k] = g[k]
      BY <1>1, <2>2, <3>2, <3>3, <3>5
    <3> QED BY <3>2, <3>6
  <2>4. g[n + 1] = g[n] \o x
    <3>1. n + 1 \in 1 .. n + 1 /\ n + 1 # 1 /\ (n + 1) - 1 = n
      BY <1>1, <1>4
    <3>2. g[n + 1] = g[(n + 1) - 1] \o r[n + 1]
      BY <2>2, <3>1
    <3> QED BY <1>1, <3>1, <3>2
  <2>5. f[n] = g[n]
    BY <1>1, <1>4, <2>3
  <2> QED BY <1>1, <1>2, <2>1, <2>4, <2>5 DEF r
<1> QED BY <1>3, <1>4

-----------------------------------------------------------------------------
(* The phases.                                                             *)

Items == (1 .. SkillCount) \X Nat

\* The items of row are skills of the first k places of the order, in its order.
Rising(list, k) ==
    /\ \A i \in 1 .. Len(list) : Path!Position(list[i][1]) \in 1 .. k
    /\ \A i, j \in 1 .. Len(list) :
          i < j => Path!Position(list[i][1]) < Path!Position(list[j][1])

\* Only a phase of a single skill is beyond the budget.
Fits(phase) == Path!Hours(phase) > Budget => Len(phase) = 1

PhasesInv ==
    /\ placed \in 0 .. SkillCount /\ phases \in Seq(Seq(Items)) /\ current \in Seq(Items)
    /\ Fits(current) /\ \A i \in 1 .. Len(phases) : Fits(phases[i])
    /\ Path!FlattenSeq(phases) \in Seq(Items)
    /\ Rising(Path!FlattenSeq(phases) \o current, placed)

PhasesOver ==
    /\ \A i \in 1 .. Len(phases) : Fits(phases[i])
    /\ phases \in Seq(Seq(Items)) /\ Path!FlattenSeq(phases) \in Seq(Items)
    /\ Rising(Path!FlattenSeq(phases), SkillCount)

LEMMA RisingGrows ==
    ASSUME NEW l \in Seq(Items), NEW k \in Nat, Rising(l, k), NEW x \in Items,
           Path!Position(x[1]) = k + 1
    PROVE  Rising(Append(l, x), k + 1)
<1> DEFINE n == Len(l)  r == Append(l, x)  P(s) == Path!Position(s)
<1>1. /\ n \in Nat /\ Len(r) = n + 1 /\ r[n + 1] = x
      /\ \A i \in 1 .. n : r[i] = l[i]
  BY AppendProperties, LenProperties
<1>2. \A i \in 1 .. n + 1 : i \in 1 .. n \/ i = n + 1
  BY <1>1
<1>3. /\ \A i \in 1 .. n : P(l[i][1]) \in 1 .. k
      /\ \A i, j \in 1 .. n : i < j => P(l[i][1]) < P(l[j][1])
      /\ P(x[1]) = k + 1
  BY DEF Rising
<1> HIDE DEF r, n, P
<1>4. \A i \in 1 .. n + 1 : P(r[i][1]) \in 1 .. k + 1
  <2> SUFFICES ASSUME NEW i \in 1 .. n + 1 PROVE P(r[i][1]) \in 1 .. k + 1
    OBVIOUS
  <2>1. i \in 1 .. n => P(r[i][1]) \in 1 .. k
    BY <1>1, <1>3
  <2>2. i = n + 1 => P(r[i][1]) = k + 1
    BY <1>1, <1>3
  <2> QED BY <1>2, <2>1, <2>2
<1>5. ASSUME NEW i \in 1 .. n + 1, NEW j \in 1 .. n + 1, i < j
      PROVE  P(r[i][1]) < P(r[j][1])
  <2>1. i \in 1 .. n
    BY <1>1, <1>5
  <2>2. P(r[i][1]) = P(l[i][1]) /\ P(l[i][1]) \in 1 .. k
    BY <1>1, <1>3, <2>1
  <2>3. CASE j = n + 1
    <3>1. P(r[j][1]) = k + 1
      BY <1>1, <1>3, <2>3
    <3> QED BY <2>2, <3>1
  <2>4. CASE j \in 1 .. n
    BY <1>1, <1>3, <1>5, <2>1, <2>4
  <2> QED BY <1>2, <2>3, <2>4
<1> QED BY <1>1, <1>4, <1>5 DEF Rising, r, P

LEMMA RisingWider ==
    ASSUME NEW l \in Seq(Items), NEW k \in Nat, NEW m \in Nat, k <= m, Rising(l, k)
    PROVE  Rising(l, m)
<1>1. \A x \in 1 .. k : x \in 1 .. m
  OBVIOUS
<1> QED BY <1>1 DEF Rising

LEMMA PhasesStart ==
    ASSUME placed = 0, phases = <<>>, current = <<>>
    PROVE  PhasesInv
<1>1. Path!FlattenSeq(phases) = <<>> /\ Path!FlattenSeq(phases) \o current = <<>>
  BY DEF Path!FlattenSeq
<1>2. Rising(<<>>, 0)
  BY DEF Rising
<1>3. Fits(current)
  <2>1. Path!Hours(<<>>) = 0
    <3>1. <<>> \in Seq(Items) /\ DOMAIN <<>> = {}
      OBVIOUS
    <3>2. PICK f : Sums(<<>>, f) /\ Path!Hours(<<>>) = f[DOMAIN <<>>]
      BY <3>1, HoursOfPhase
    <3>3. f = [s \in SUBSET {} |-> SumOf(<<>>, f, s)]
      BY <3>1, <3>2 DEF Sums
    <3>4. f[{}] = SumOf(<<>>, f, {})
      BY <3>3
    <3> QED BY <3>1, <3>2, <3>4 DEF SumOf
  <2> QED BY <2>1, PathConstants DEF Fits
<1>4. <<>> \in Seq(Items) /\ <<>> \in Seq(Seq(Items)) /\ Len(phases) = 0 /\ 1 .. 0 = {}
  OBVIOUS
<1>5. placed \in 0 .. SkillCount
  BY PathConstants
<1>6. Path!FlattenSeq(phases) \in Seq(Items) /\ Rising(Path!FlattenSeq(phases) \o current, placed)
  BY <1>1, <1>2, <1>4
<1>7. \A i \in 1 .. Len(phases) : Fits(phases[i])
  BY <1>4
<1> QED BY <1>3, <1>4, <1>5, <1>6, <1>7 DEF PhasesInv

LEMMA SkillSkipped ==
    ASSUME OrderInv, PhasesInv, Path!Skip
    PROVE  PhasesInv'
<1>1. /\ placed < SkillCount /\ placed' = placed + 1 /\ order' = order
      /\ phases' = phases /\ current' = current
  BY PlacesOfOrder DEF Path!Skip, Path!sortVars
<1>2. placed' \in 0 .. SkillCount /\ placed \in Nat /\ placed' \in Nat /\ placed <= placed'
  BY <1>1, PathConstants DEF PhasesInv
<1> DEFINE l == Path!FlattenSeq(phases) \o current
<1>3. l \in Seq(Items) /\ Rising(l, placed)
  BY ConcatProperties DEF PhasesInv
<1> HIDE DEF l
<1>4. Rising(l, placed')
  BY <1>2, <1>3, RisingWider
<1>5. Path!FlattenSeq(phases)' = Path!FlattenSeq(phases)
  BY <1>1 DEF Path!FlattenSeq
<1>6. \A q : Fits(q)' <=> Fits(q)
  BY DEF Fits, Path!Hours, Path!FoldLeft, Path!MapThenFoldSet
<1>7. Rising(Path!FlattenSeq(phases) \o current, placed)'
  <2>1. (Path!FlattenSeq(phases) \o current)' = l
    BY <1>1, <1>5 DEF l
  <2> QED BY <1>1, <1>4, <2>1 DEF Rising, Path!Position
<1> QED BY <1>1, <1>2, <1>5, <1>6, <1>7 DEF PhasesInv

LEMMA SkillPlaced ==
    ASSUME OrderInv, PhasesInv, Path!Place
    PROVE  PhasesInv'
<1>1. PICK hours \in HourChoices :
        LET item == <<order[placed + 1], hours>>
            full == Path!Hours(current) + hours > Budget /\ current # <<>>
        IN /\ phases' = IF full THEN Append(phases, current) ELSE phases
           /\ current' = IF full THEN <<item>> ELSE Append(current, item)
  BY DEF Path!Place
<1> DEFINE item == <<order[placed + 1], hours>>
           full == Path!Hours(current) + hours > Budget /\ current # <<>>
           flat == Path!FlattenSeq(phases)
           l == flat \o current
<1>2. /\ placed < SkillCount /\ placed' = placed + 1 /\ order' = order
      /\ placed' \in 0 .. SkillCount /\ placed \in Nat
  BY PlacesOfOrder, PathConstants DEF Path!Place, Path!sortVars, PhasesInv
<1>3. item \in Items /\ item[1] = order[placed + 1] /\ item[2] = hours
      /\ hours \in Nat /\ Path!Position(item[1]) = placed + 1
  <2>1. placed + 1 \in 1 .. Len(order)
    BY <1>2, PlacesOfOrder, PathConstants
  <2>2. order[placed + 1] \in 1 .. SkillCount /\ Path!Position(order[placed + 1]) = placed + 1
    BY <2>1, PlacesOfOrder
  <2>3. hours \in Nat
    BY PathConstants
  <2> QED BY <2>2, <2>3 DEF Items
<1>4. /\ phases' = IF full THEN Append(phases, current) ELSE phases
      /\ current' = IF full THEN <<item>> ELSE Append(current, item)
  BY <1>1
<1>5. /\ phases \in Seq(Seq(Items)) /\ current \in Seq(Items) /\ flat \in Seq(Items)
      /\ l \in Seq(Items) /\ Rising(l, placed)
      /\ Fits(current) /\ \A i \in 1 .. Len(phases) : Fits(phases[i])
  BY ConcatProperties DEF PhasesInv
<1> HIDE DEF item, full, flat, l
<1>6. Rising(Append(l, item), placed + 1)
  BY <1>2, <1>3, <1>5, RisingGrows
<1>7. <<item>> \in Seq(Items) /\ Append(current, item) \in Seq(Items) /\ Len(<<item>>) = 1
  BY <1>3, <1>5, AppendProperties
<1>8. Path!FlattenSeq(phases)' = Path!FlattenSeq(phases')
  BY DEF Path!FlattenSeq
<1>9. CASE full
  <2>1. phases' = Append(phases, current) /\ current' = <<item>>
    BY <1>4, <1>9
  <2>2. Path!FlattenSeq(phases') = l
    BY <1>5, <2>1, FlatGrows DEF flat, l
  <2>3. Path!FlattenSeq(phases)' = l
    BY <1>8, <2>2
  <2>4. l \o <<item>> = Append(l, item)
    BY <1>3, <1>5, AppendIsConcat
  <2>5. /\ phases' \in Seq(Seq(Items)) /\ Len(phases') = Len(phases) + 1
        /\ \A i \in 1 .. Len(phases) : phases'[i] = phases[i]
        /\ phases'[Len(phases) + 1] = current /\ Len(phases) \in Nat
    BY <1>5, <2>1, AppendProperties, LenProperties
  <2>6. \A i \in 1 .. Len(phases') : Fits(phases'[i])
    <3>1. \A i \in 1 .. Len(phases) + 1 : i \in 1 .. Len(phases) \/ i = Len(phases) + 1
      BY <2>5
    <3> QED BY <1>5, <2>5, <3>1
  <2>7. Fits(<<item>>)
    BY <1>7 DEF Fits
  <2>8. Rising(Path!FlattenSeq(phases) \o current, placed)'
    <3>1. (Path!FlattenSeq(phases) \o current)' = Append(l, item)
      BY <2>1, <2>3, <2>4
    <3> QED BY <1>2, <1>6, <3>1 DEF Rising, Path!Position
  <2>9. (Fits(current))' /\ (\A i \in 1 .. Len(phases) : Fits(phases[i]))'
    BY <2>1, <2>6, <2>7 DEF Fits, Path!Hours, Path!FoldLeft, Path!MapThenFoldSet
  <2> QED BY <1>2, <1>5, <1>7, <2>1, <2>3, <2>5, <2>8, <2>9 DEF PhasesInv
<1>10. CASE ~ full
  <2>1. phases' = phases /\ current' = Append(current, item)
    BY <1>4, <1>10
  <2>2. Path!FlattenSeq(phases)' = flat
    BY <2>1 DEF Path!FlattenSeq, flat
  <2>3. flat \o Append(current, item) = Append(l, item)
    <3>1. Append(current, item) = current \o <<item>> /\ Append(l, item) = l \o <<item>>
      BY <1>3, <1>5, AppendIsConcat
    <3>2. flat \o (current \o <<item>>) = (flat \o current) \o <<item>>
      BY <1>5, <1>7, ConcatAssociative
    <3> QED BY <3>1, <3>2 DEF l
  <2>4. Rising(Path!FlattenSeq(phases) \o current, placed)'
    <3>1. (Path!FlattenSeq(phases) \o current)' = Append(l, item)
      BY <2>1, <2>2, <2>3
    <3> QED BY <1>2, <1>6, <3>1 DEF Rising, Path!Position
  <2>5. Fits(Append(current, item))
    <3>1. Path!Hours(Append(current, item)) = Path!Hours(current) + hours
      BY <1>3, <1>5, HoursGrow
    <3>2. CASE current = <<>>
      <4>1. Len(Append(current, item)) = 1
        BY <3>2
      <4> QED BY <4>1 DEF Fits
    <3>3. CASE current # <<>>
      BY <1>10, <3>1, <3>3 DEF Fits, full
    <3> QED BY <3>2, <3>3
  <2>6. Fits(current)'
    <3> HIDE DEF item
    <3> QED BY <2>1, <2>5 DEF Fits, Path!Hours, Path!FoldLeft, Path!MapThenFoldSet
  <2>7. (\A i \in 1 .. Len(phases) : Fits(phases[i]))'
    <3>1. \A q : Fits(q)' <=> Fits(q)
      BY DEF Fits, Path!Hours, Path!FoldLeft, Path!MapThenFoldSet
    <3> QED BY <1>5, <2>1, <3>1
  <2> QED BY <1>2, <1>5, <1>7, <2>1, <2>2, <2>4, <2>6, <2>7 DEF PhasesInv
<1> QED BY <1>9, <1>10

LEMMA PhasesEnd ==
    ASSUME OrderInv, PhasesInv, Path!FinishPhases
    PROVE  PhasesOver'
<1> DEFINE flat == Path!FlattenSeq(phases)  l == flat \o current
<1>1. /\ phases' = IF current # <<>> THEN Append(phases, current) ELSE phases
      /\ order' = order
  BY DEF Path!FinishPhases, Path!sortVars
<1>2. /\ phases \in Seq(Seq(Items)) /\ current \in Seq(Items) /\ flat \in Seq(Items)
      /\ l \in Seq(Items) /\ Rising(l, placed)
      /\ Fits(current) /\ \A i \in 1 .. Len(phases) : Fits(phases[i])
      /\ placed \in Nat /\ placed <= SkillCount
  BY ConcatProperties, PathConstants DEF PhasesInv
<1> HIDE DEF flat, l
<1>3. Rising(l, SkillCount)
  BY <1>2, RisingWider, PathConstants
<1>4. /\ Path!FlattenSeq(phases') = l /\ phases' \in Seq(Seq(Items))
      /\ \A i \in 1 .. Len(phases') : Fits(phases'[i])
  <2>1. CASE current = <<>>
    <3>1. l = flat
      BY <1>2, <2>1, ConcatEmptySeq DEF l
    <3> QED BY <1>1, <1>2, <2>1, <3>1 DEF flat
  <2>2. CASE current # <<>>
    <3>1. Path!FlattenSeq(phases') = l
      BY <1>1, <1>2, <2>2, FlatGrows DEF flat, l
    <3>2. /\ phases' \in Seq(Seq(Items)) /\ Len(phases') = Len(phases) + 1
          /\ \A i \in 1 .. Len(phases) : phases'[i] = phases[i]
          /\ phases'[Len(phases) + 1] = current /\ Len(phases) \in Nat
      BY <1>1, <1>2, <2>2, AppendProperties, LenProperties
    <3>3. \A i \in 1 .. Len(phases) + 1 : i \in 1 .. Len(phases) \/ i = Len(phases) + 1
      BY <3>2
    <3> QED BY <1>2, <3>1, <3>2, <3>3
  <2> QED BY <2>1, <2>2
<1>5. (Path!FlattenSeq(phases))' = l
  BY <1>4 DEF Path!FlattenSeq
<1>6. (\A i \in 1 .. Len(phases) : Fits(phases[i]))'
  BY <1>4 DEF Fits, Path!Hours, Path!FoldLeft, Path!MapThenFoldSet
<1>7. Rising(Path!FlattenSeq(phases), SkillCount)'
  BY <1>1, <1>3, <1>5 DEF Rising, Path!Position
<1> QED BY <1>2, <1>4, <1>5, <1>6, <1>7 DEF PhasesOver

LEMMA PhasesSound == ASSUME PhasesOver PROVE Path!PhasesAreSound
<1>1. DOMAIN phases = 1 .. Len(phases)
  BY LenProperties DEF PhasesOver
<1>2. DOMAIN Path!FlattenSeq(phases) = 1 .. Len(Path!FlattenSeq(phases))
  BY LenProperties DEF PhasesOver
<1> QED BY <1>1, <1>2 DEF PhasesOver, Fits, Rising, Path!PhasesAreSound

-----------------------------------------------------------------------------
(* The path, from its first step to its last.                              *)

PathInv ==
    /\ GraphTyped
    /\ step \in {"kahn", "tarjan", "components", "phases", "done"}
    /\ step \in {"kahn", "tarjan", "components"} =>
          placed = 0 /\ phases = <<>> /\ current = <<>>
    /\ step = "kahn" => KahnInv /\ Unsearched
    /\ step = "tarjan" => TarjanInv /\ FramesLoop /\ order = <<>>
    /\ step = "components" => ComponentsInv
    /\ step = "phases" => OrderInv /\ PhasesInv
    /\ step = "done" => PhasesOver

LEMMA PathStarts == Path!Init => PathInv
<1> SUFFICES ASSUME Path!Init PROVE PathInv
  OBVIOUS
<1>1. GraphTyped /\ Unsearched /\ step = "kahn" /\ placed = 0 /\ phases = <<>> /\ current = <<>>
  BY DEF Path!Init, Path!Skills, GraphTyped, Unsearched
<1>2. KahnInv
  BY <1>1, SortStarts
<1> QED BY <1>1, <1>2 DEF PathInv

\* What starts a part of the computation, after a step.
LEMMA SearchStartsNext == Unsearched' /\ GraphTyped' => TarjanInv' /\ FramesLoop'
<1>1. Unsearched /\ GraphTyped => TarjanInv /\ FramesLoop
  BY SearchStarts
<1> QED BY <1>1, PTL

LEMMA PhasesStartNext == placed' = 0 /\ phases' = <<>> /\ current' = <<>> => PhasesInv'
<1>1. (placed = 0 /\ phases = <<>> /\ current = <<>>) => PhasesInv
  BY PhasesStart
<1>2. (placed = 0 /\ phases = <<>> /\ current = <<>>)' => PhasesInv'
  BY <1>1, PTL
<1> QED BY <1>2

\* A step that leaves the graph and the order alone keeps the order.
LEMMA OrderKept == ASSUME graph' = graph, order' = order, OrderInv PROVE OrderInv'
<1>1. Members(order)' = Members(order)
  BY DEF Members
<1> QED BY <1>1 DEF OrderInv, PartialOrder, PrerequisitesFirst, Path!Needs

LEMMA PathUnchanged == ASSUME PathInv, UNCHANGED pathVars PROVE PathInv'
<1>1. /\ graph' = graph /\ step' = step /\ waits' = waits /\ queue' = queue /\ order' = order
      /\ calls' = calls /\ stack' = stack /\ index' = index /\ lowlink' = lowlink
      /\ sccs' = sccs /\ placed' = placed /\ phases' = phases /\ current' = current
  BY DEF pathVars
<1>2. GraphTyped' <=> GraphTyped
  BY <1>1 DEF GraphTyped
<1>3. PartialOrder(order)' <=> PartialOrder(order)
  BY <1>1 DEF PartialOrder, PrerequisitesFirst, Path!Needs
<1>4. TarjanInv' <=> TarjanInv
  BY <1>1
  DEF TarjanInv, TarjanTyped, NumbersRise, SeenOnce, ComponentsSound, StackConnected,
      LowlinksReach, LowlinksReachAll, PassedSeen, Running, Found, Passed, Owns,
      Path!Needs, Path!Unseen
<1>5. (FramesLoop' <=> FramesLoop) /\ (Unsearched' <=> Unsearched)
  BY <1>1 DEF FramesLoop, Unsearched
<1>6. KahnInv' <=> KahnInv
  BY <1>1, <1>3 DEF KahnInv, KahnState
<1>7. SearchOver' <=> SearchOver
  BY <1>1, <1>4 DEF SearchOver, Found
<1>8. NeedsOf' = NeedsOf /\ Done' = Done
  BY <1>1 DEF NeedsOf, Done, Path!Above
<1>9. ComponentsInv' <=> ComponentsInv
  BY <1>1, <1>3, <1>7, <1>8 DEF ComponentsInv, KahnState
<1>10. OrderInv' <=> OrderInv
  BY <1>1, <1>3 DEF OrderInv
<1>11. Path!FlattenSeq(phases)' = Path!FlattenSeq(phases) /\ \A q : Fits(q)' <=> Fits(q)
  BY <1>1 DEF Path!FlattenSeq, Fits, Path!Hours, Path!FoldLeft, Path!MapThenFoldSet
<1>12. (PhasesInv' <=> PhasesInv) /\ (PhasesOver' <=> PhasesOver)
  BY <1>1, <1>11 DEF PhasesInv, PhasesOver, Rising, Path!Position
<1> QED BY <1>1, <1>2, <1>4, <1>5, <1>6, <1>9, <1>10, <1>12 DEF PathInv

LEMMA PathStays == PathInv /\ [Path!Next]_pathVars => PathInv'
<1> SUFFICES ASSUME PathInv, [Path!Next]_pathVars PROVE PathInv'
  OBVIOUS
<1>0. GraphTyped
  BY DEF PathInv
<1>1. CASE Path!TakeSkill
  <2>1. KahnInv /\ step = "kahn" /\ Unsearched
    BY <1>1 DEF PathInv, Path!TakeSkill
  <2>2. KahnInv'
    BY <1>0, <1>1, <2>1, SkillTaken
  <2>3. UNCHANGED <<graph, step, calls, stack, sccs, index, lowlink, placed, phases, current>>
    BY <1>1 DEF Path!TakeSkill, Path!tarjanVars, Path!phaseVars
  <2> QED BY <2>1, <2>2, <2>3 DEF PathInv, GraphTyped, Unsearched
<1>2. CASE Path!FinishKahn
  <2>1. KahnInv /\ Unsearched /\ placed = 0 /\ phases = <<>> /\ current = <<>>
    BY <1>2 DEF PathInv, Path!FinishKahn
  <2>2. UNCHANGED <<graph, calls, stack, sccs, index, lowlink, placed, phases, current>>
    BY <1>2 DEF Path!FinishKahn, Path!tarjanVars, Path!phaseVars
  <2>3. GraphTyped' /\ Unsearched'
    BY <1>0, <2>1, <2>2 DEF GraphTyped, Unsearched
  <2>4. CASE Len(order) = SkillCount
    <3>1. step' = "phases" /\ order' = order
      BY <1>2, <2>4 DEF Path!FinishKahn
    <3>2. OrderInv'
      BY <2>1, <2>2, <2>4, <3>1, KahnOrders, OrderKept
    <3>3. PhasesInv'
      BY <2>1, <2>2, PhasesStartNext
    <3> QED BY <2>3, <3>1, <3>2, <3>3 DEF PathInv
  <2>5. CASE Len(order) # SkillCount
    <3>1. step' = "tarjan" /\ order' = <<>>
      BY <1>2, <2>5 DEF Path!FinishKahn
    <3>2. TarjanInv' /\ FramesLoop'
      BY <2>3, SearchStartsNext
    <3> QED BY <2>1, <2>2, <2>3, <3>1, <3>2 DEF PathInv
  <2> QED BY <2>4, <2>5
<1>3. CASE Path!EnterRoot \/ Path!Look \/ Path!Leave
  <2>1. step = "tarjan" /\ UNCHANGED <<graph, step, order, placed, phases, current>>
    BY <1>3 DEF Path!EnterRoot, Path!Look, Path!Leave, Path!sortVars, Path!phaseVars
  <2>2. TarjanInv /\ FramesLoop
    BY <2>1 DEF PathInv
  <2>3. TarjanInv' /\ FramesLoop'
    BY <1>0, <1>3, <2>2, SearchGoesOn
  <2> QED BY <2>1, <2>3 DEF PathInv, GraphTyped
<1>4. CASE Path!Compress
  <2>1. step = "tarjan" /\ step' = "components" /\ UNCHANGED <<graph, order, placed, phases, current>>
    BY <1>4 DEF Path!Compress, Path!phaseVars
  <2>2. TarjanInv /\ order = <<>>
    BY <2>1 DEF PathInv
  <2>3. ComponentsInv'
    BY <1>0, <1>4, <2>2, ComponentsStart
  <2> QED BY <2>1, <2>3 DEF PathInv, GraphTyped
<1>5. CASE Path!TakeComponent
  <2>1. step = "components" /\ UNCHANGED <<graph, step, placed, phases, current>>
    BY <1>5 DEF Path!TakeComponent, Path!phaseVars
  <2>2. ComponentsInv
    BY <2>1 DEF PathInv
  <2>3. ComponentsInv'
    BY <1>0, <1>5, <2>2, ComponentTaken
  <2> QED BY <2>1, <2>3 DEF PathInv, GraphTyped
<1>6. CASE Path!FinishComponents
  <2>1. /\ step = "components" /\ step' = "phases" /\ queue = <<>>
        /\ UNCHANGED <<graph, order, placed, phases, current>>
    BY <1>6 DEF Path!FinishComponents, Path!sortVars, Path!phaseVars
  <2>2. ComponentsInv /\ placed = 0 /\ phases = <<>> /\ current = <<>>
    BY <2>1 DEF PathInv
  <2>3. OrderInv'
    BY <1>0, <2>1, <2>2, ComponentsOrder, OrderKept
  <2>4. PhasesInv'
    BY <2>1, <2>2, PhasesStartNext
  <2> QED BY <2>1, <2>3, <2>4 DEF PathInv, GraphTyped
<1>7. CASE Path!Skip \/ Path!Place
  <2>1. step = "phases" /\ UNCHANGED <<graph, step, order>>
    BY <1>7 DEF Path!Skip, Path!Place, Path!sortVars
  <2>2. OrderInv /\ PhasesInv
    BY <2>1 DEF PathInv
  <2>3. OrderInv' /\ PhasesInv'
    BY <1>7, <2>1, <2>2, OrderKept, SkillSkipped, SkillPlaced
  <2> QED BY <2>1, <2>3 DEF PathInv, GraphTyped
<1>8. CASE Path!FinishPhases
  <2>1. step = "phases" /\ step' = "done" /\ graph' = graph
    BY <1>8 DEF Path!FinishPhases
  <2>2. OrderInv /\ PhasesInv
    BY <2>1 DEF PathInv
  <2>3. PhasesOver'
    BY <1>8, <2>2, PhasesEnd
  <2> QED BY <2>1, <2>3 DEF PathInv, GraphTyped
<1>9. CASE UNCHANGED pathVars
  BY <1>9, PathUnchanged
<1> QED BY <1>1, <1>2, <1>3, <1>4, <1>5, <1>6, <1>7, <1>8, <1>9 DEF Path!Next

LEMMA PathInSum ==
    /\ focus = "path" /\ SumInit => Path!Init
    /\ [SumNext]_allVars => (focus' = focus /\ (focus = "path" => [Path!Next]_pathVars))
  BY DEF SumInit, SumNext, allVars

LEMMA PathHolds == SumSpec => [](focus = "path" => PathInv)
<1>1. SumInit => (focus = "path" => PathInv)
  BY PathInSum, PathStarts
<1>2. (focus = "path" => PathInv) /\ [SumNext]_allVars => (focus = "path" => PathInv)'
  BY PathInSum, PathStays
<1> QED BY <1>1, <1>2, PTL DEF SumSpec

LEMMA PathComputed == ASSUME PathInv PROVE Path!OrderIsSound /\ Path!PhasesAreSound
<1>1. GraphTyped
  BY DEF PathInv
<1>2. Path!OrderIsSound
  <2>1. CASE step = "phases"
    BY <1>1, <2>1, OrderSound DEF PathInv
  <2>2. CASE step # "phases"
    BY <2>2 DEF Path!OrderIsSound
  <2> QED BY <2>1, <2>2
<1>3. Path!PhasesAreSound
  <2>1. CASE step = "done"
    BY <2>1, PhasesSound DEF PathInv
  <2>2. CASE step # "done"
    BY <2>2 DEF Path!PhasesAreSound
  <2> QED BY <2>1, <2>2
<1> QED BY <1>2, <1>3

\* The cascade computes its closed form, and a learning path has each gap once,
\* prerequisites first but for those that need each other, in phases that follow
\* the order and stay within the budget (advance_pipeline, _topological_sort,
\* _tarjan_scc, _build_phases).
THEOREM AlgorithmsAreCorrect == SumSpec => []AlgorithmsCorrect
<1>1. (focus = "stages" => CascadeInv) /\ (focus = "path" => PathInv) => AlgorithmsCorrect
  BY CascadeComputed, PathComputed DEF AlgorithmsCorrect
<1> QED BY <1>1, CascadeHolds, PathHolds, PTL
===============================================================================
