------------------------------- MODULE PlannerProofs -------------------------------
(***************************************************************************)
(* For every plan and every pair of capabilities: the planner's state      *)
(* keeps its type, its completeness assertion never fires, its             *)
(* explanations say what will run, and it refuses only what no split could *)
(* place.  The columns to which a placement prunes its scan are columns of *)
(* the source, and none that the engine's part reads is lost.              *)
(***************************************************************************)
EXTENDS Planner, FiniteSetTheorems, FunctionTheorems,
        WellFoundedInduction, SequenceTheorems, TLAPS

-----------------------------------------------------------------------------
(* Columns: what referenced_columns returns for every list of expressions, *)
(* a sequence that names exactly the columns the list mentions.            *)

(* In every lemma, list is a list of trees: a function on 1..n whose       *)
(* values have a sequence of columns.                                      *)
ColumnList(list, n) ==
  /\ n \in Nat
  /\ DOMAIN list = 1..n
  /\ \A i \in 1..n : list[i].columns \in Seq(Columns)

(* An occurrence is a pair of positions, and a column stands there.        *)
LEMMA OccurrenceType ==
  ASSUME NEW list, NEW n, ColumnList(list, n), NEW p \in Occurrences(list)
  PROVE  /\ p = <<p[1], p[2]>>
         /\ p[1] \in 1..n /\ p[1] \in Nat
         /\ p[2] \in DOMAIN list[p[1]].columns /\ p[2] \in Nat
         /\ ColumnAt(list, p) \in Columns
<1>1. PICK i \in 1..n : p \in {i} \X DOMAIN list[i].columns
  BY DEF Occurrences, ColumnList
<1>2. p[1] = i /\ p[2] \in DOMAIN list[i].columns /\ p = <<p[1], p[2]>>
  BY <1>1
<1>3. list[i].columns \in Seq(Columns) /\ n \in Nat
  BY DEF ColumnList
<1> QED BY <1>1, <1>2, <1>3 DEF ColumnAt

(* The walk of a list of finite trees is finite.                           *)
LEMMA OccurrencesFinite ==
  ASSUME NEW list, NEW n, ColumnList(list, n)
  PROVE  IsFiniteSet(Occurrences(list))
<1> DEFINE At(i) == {i} \X DOMAIN list[i].columns
           Steps == {At(i) : i \in 1..n}
           Step == [i \in 1..n |-> At(i)]
<1> USE DEF ColumnList
<1>1. \A i \in 1..n : IsFiniteSet(At(i))
  <2> SUFFICES ASSUME NEW i \in 1..n PROVE IsFiniteSet(At(i))
    OBVIOUS
  <2>1. DOMAIN list[i].columns = 1..Len(list[i].columns) /\ Len(list[i].columns) \in Nat
    OBVIOUS
  <2>2. IsFiniteSet(DOMAIN list[i].columns)
    BY <2>1, FS_Interval
  <2> QED BY <2>2, FS_Singleton, FS_Product
<1>2. IsFiniteSet(1..n)
  BY FS_Interval
<1>3. Step \in Surjection(1..n, Steps)
  <2> HIDE DEF At
  <2>1. Step \in [1..n -> Steps] /\ \A t \in Steps : \E i \in 1..n : Step[i] = t
    OBVIOUS
  <2> HIDE DEF Step, Steps
  <2> QED BY <2>1, Fun_IsSurj
<1>4. IsFiniteSet(Steps)
  <2> HIDE DEF Step, Steps
  <2> QED BY <1>2, <1>3, FS_Surjection
<1>5. IsFiniteSet(UNION Steps)
  BY <1>1, <1>4, FS_UNION
<1> QED BY <1>5 DEF Occurrences

(* Precedes is a strict total order on the occurrences.                    *)
LEMMA PrecedesIsStrictOrder ==
  ASSUME NEW list, NEW n, ColumnList(list, n)
  PROVE  /\ \A p \in Occurrences(list) : ~ Precedes(p, p)
         /\ \A p, q, r \in Occurrences(list) :
              Precedes(p, q) /\ Precedes(q, r) => Precedes(p, r)
         /\ \A p, q \in Occurrences(list) : p # q => Precedes(p, q) \/ Precedes(q, p)
<1>1. \A p \in Occurrences(list) :
        p = <<p[1], p[2]>> /\ p[1] \in Nat /\ p[2] \in Nat
  BY OccurrenceType
<1> QED BY <1>1 DEF Precedes

(* Ranks number the first occurrences 1, 2, ... without gaps.              *)
LEMMA RanksNumberTheColumns ==
  ASSUME NEW list, NEW n, ColumnList(list, n)
  PROVE  LET F == FirstOccurrences(list)
         IN  /\ Cardinality(F) \in Nat
             /\ \A p \in F : WalkRank(list, p) \in 1..Cardinality(F)
             /\ \A k \in 1..Cardinality(F) : \E p \in F : WalkRank(list, p) = k
             /\ \A p, q \in F : WalkRank(list, p) = WalkRank(list, q) => p = q
<1> DEFINE F == FirstOccurrences(list)
           m == Cardinality(F)
           UpTo(p) == {q \in F : ~ Precedes(p, q)}
           Rank == [p \in F |-> WalkRank(list, p)]
<1>1. F \subseteq Occurrences(list)
  BY DEF FirstOccurrences
<1>2. IsFiniteSet(F) /\ m \in Nat
  BY <1>1, OccurrencesFinite, FS_Subset, FS_CardinalityType
<1>3. \A p \in F : /\ IsFiniteSet(UpTo(p)) /\ p \in UpTo(p)
                   /\ WalkRank(list, p) = Cardinality(UpTo(p))
                   /\ WalkRank(list, p) \in 1..m
  <2> SUFFICES ASSUME NEW p \in F
               PROVE  /\ IsFiniteSet(UpTo(p)) /\ p \in UpTo(p)
                      /\ WalkRank(list, p) = Cardinality(UpTo(p))
                      /\ WalkRank(list, p) \in 1..m
    OBVIOUS
  <2>1. p \in UpTo(p)
    BY <1>1, PrecedesIsStrictOrder
  <2>2. UpTo(p) \in SUBSET F
    OBVIOUS
  <2>3. IsFiniteSet(UpTo(p)) /\ Cardinality(UpTo(p)) <= m
    BY <1>2, <2>2, FS_Subset
  <2>4. Cardinality(UpTo(p)) \in Nat /\ Cardinality(UpTo(p)) # 0
    BY <2>1, <2>3, FS_CardinalityType, FS_EmptySet
  <2>5. WalkRank(list, p) = Cardinality(UpTo(p))
    BY DEF WalkRank
  <2> HIDE DEF m, UpTo
  <2> QED BY <1>2, <2>1, <2>3, <2>4, <2>5
<1>4. \A p, q \in F : Precedes(p, q) => WalkRank(list, p) < WalkRank(list, q)
  <2> SUFFICES ASSUME NEW p \in F, NEW q \in F, Precedes(p, q)
               PROVE  WalkRank(list, p) < WalkRank(list, q)
    OBVIOUS
  <2>1. UpTo(p) \in SUBSET UpTo(q) /\ q \notin UpTo(p) /\ q \in UpTo(q)
    BY <1>1, <1>3, PrecedesIsStrictOrder
  <2>2. Cardinality(UpTo(p)) <= Cardinality(UpTo(q)) /\ Cardinality(UpTo(p)) # Cardinality(UpTo(q))
    BY <1>3, <2>1, FS_Subset
  <2> HIDE DEF m, UpTo
  <2> QED BY <1>2, <1>3, <2>2
<1>5. \A p, q \in F : Rank[p] = Rank[q] => p = q
  <2> HIDE DEF m, F, UpTo
  <2> QED BY <1>1, <1>2, <1>3, <1>4, PrecedesIsStrictOrder
<1>6. Rank \in [F -> 1..m]
  <2> HIDE DEF m, F, UpTo
  <2> QED BY <1>3
<1>7. Rank \in Injection(F, 1..m)
  <2> HIDE DEF m, F, Rank
  <2> QED BY <1>5, <1>6, Fun_IsInj
<1>8. IsFiniteSet(1..m) /\ Cardinality(1..m) = m
  <2> HIDE DEF m
  <2> QED BY <1>2, FS_Interval
<1>9. Rank \in Surjection(F, 1..m)
  <2> HIDE DEF F, Rank
  <2> QED BY <1>7, <1>8, FS_Injection
<1>10. \A k \in 1..m : \E p \in F : Rank[p] = k
  <2> HIDE DEF F, Rank, m
  <2> QED BY <1>9, Fun_SurjectionProperties
<1> QED BY <1>2, <1>3, <1>5, <1>10

LEMMA LeastNatural ==
  ASSUME NEW S \in SUBSET Nat, S # {}
  PROVE  \E least \in S : \A k \in S : least <= k
<1>1. PICK least \in S : \A k \in S : <<k, least>> \notin OpToRel(<, Nat)
  BY NatLessThanWellFounded, WFMin
<1>2. \A k \in S : ~ (k < least)
  BY <1>1 DEF OpToRel
<1> QED BY <1>2

(* Each column that occurs has a first occurrence.                         *)
LEMMA FirstOccurrenceExists ==
  ASSUME NEW list, NEW n, ColumnList(list, n), NEW p \in Occurrences(list)
  PROVE  \E f \in FirstOccurrences(list) : ColumnAt(list, f) = ColumnAt(list, p)
<1> DEFINE Same == {q \in Occurrences(list) : ColumnAt(list, q) = ColumnAt(list, p)}
           Trees == {q[1] : q \in Same}
<1>1. \A q \in Occurrences(list) : q[1] \in Nat /\ q[2] \in Nat
  BY OccurrenceType
<1>2. p \in Same
  OBVIOUS
<1>3. PICK i \in Trees : \A k \in Trees : i <= k
  <2>1. Trees \in SUBSET Nat /\ Trees # {}
    BY <1>1, <1>2
  <2> HIDE DEF Trees
  <2> QED BY <2>1, LeastNatural
<1> DEFINE Places == {q[2] : q \in {r \in Same : r[1] = i}}
<1>4. PICK j \in Places : \A k \in Places : j <= k
  <2>1. Places \in SUBSET Nat
    BY <1>1
  <2>2. Places # {}
    BY <1>3
  <2> HIDE DEF Places
  <2> QED BY <2>1, <2>2, LeastNatural
<1>5. PICK f \in Same : f[1] = i /\ f[2] = j
  BY <1>4
<1>6. \A q \in Same : ~ Precedes(q, f)
  <2> SUFFICES ASSUME NEW q \in Same, Precedes(q, f) PROVE FALSE
    OBVIOUS
  <2>1. q[1] \in Nat /\ q[2] \in Nat /\ i \in Nat /\ j \in Nat
    BY <1>1, <1>5
  <2>2. i <= q[1]
    BY <1>3
  <2>3. q[1] = i => j <= q[2]
    BY <1>4
  <2> QED BY <1>5, <2>1, <2>2, <2>3 DEF Precedes
<1>7. f \in FirstOccurrences(list)
  BY <1>5, <1>6 DEF FirstOccurrences
<1> QED BY <1>5, <1>7

(* referenced_columns returns a sequence of columns.                       *)
THEOREM ReferencedColumnsType ==
  ASSUME NEW list, NEW n, ColumnList(list, n)
  PROVE  referenced_columns(list) \in Seq(Columns)
<1> DEFINE F == FirstOccurrences(list)
           m == Cardinality(F)
           Nth(k) == CHOOSE p \in F : WalkRank(list, p) = k
<1>1. m \in Nat /\ \A k \in 1..m : \E p \in F : WalkRank(list, p) = k
  BY RanksNumberTheColumns
<1>2. \A k \in 1..m : Nth(k) \in F
  BY <1>1
<1>3. F \subseteq Occurrences(list)
  BY DEF FirstOccurrences
<1>4. \A k \in 1..m : ColumnAt(list, Nth(k)) \in Columns
  <2> HIDE DEF m, F, Nth
  <2> QED BY <1>2, <1>3, OccurrenceType
<1>5. referenced_columns(list) = [k \in 1..m |-> ColumnAt(list, Nth(k))]
  BY DEF referenced_columns
<1> HIDE DEF m, Nth
<1> QED BY <1>1, <1>4, <1>5

(* referenced_columns loses no column: each one that a tree of the list    *)
(* mentions is in the sequence.                                            *)
THEOREM ReferencedColumnsComplete ==
  ASSUME NEW list, NEW n, ColumnList(list, n),
         NEW i \in 1..n, NEW j \in DOMAIN list[i].columns
  PROVE  \E k \in DOMAIN referenced_columns(list) :
           referenced_columns(list)[k] = list[i].columns[j]
<1> DEFINE F == FirstOccurrences(list)
           m == Cardinality(F)
           Nth(k) == CHOOSE p \in F : WalkRank(list, p) = k
<1>1. <<i, j>> \in Occurrences(list) /\ ColumnAt(list, <<i, j>>) = list[i].columns[j]
  BY DEF Occurrences, ColumnAt, ColumnList
<1>2. PICK f \in F : ColumnAt(list, f) = list[i].columns[j]
  BY <1>1, FirstOccurrenceExists
<1> DEFINE k == WalkRank(list, f)
<1>3. m \in Nat /\ k \in 1..m
  BY RanksNumberTheColumns
<1>4. Nth(k) = f
  <2>1. Nth(k) \in F /\ WalkRank(list, Nth(k)) = WalkRank(list, f)
    OBVIOUS
  <2> QED BY <2>1, RanksNumberTheColumns
<1>5. referenced_columns(list) = [l \in 1..m |-> ColumnAt(list, Nth(l))]
  BY DEF referenced_columns
<1>6. k \in DOMAIN referenced_columns(list) /\ referenced_columns(list)[k] = ColumnAt(list, Nth(k))
  <2> HIDE DEF m, Nth, k
  <2> QED BY <1>3, <1>5
<1> QED BY <1>2, <1>4, <1>6

(* referenced_columns adds and repeats nothing: each of its entries stands *)
(* somewhere in the list, and no two entries are the same column.          *)
THEOREM ReferencedColumnsExact ==
  ASSUME NEW list, NEW n, ColumnList(list, n)
  PROVE  LET columns == referenced_columns(list)
         IN  /\ \A k \in DOMAIN columns :
                  \E i \in 1..n : \E j \in DOMAIN list[i].columns :
                    columns[k] = list[i].columns[j]
             /\ \A k, l \in DOMAIN columns : columns[k] = columns[l] => k = l
<1> DEFINE F == FirstOccurrences(list)
           m == Cardinality(F)
           Nth(k) == CHOOSE p \in F : WalkRank(list, p) = k
<1>1. m \in Nat /\ \A k \in 1..m : \E p \in F : WalkRank(list, p) = k
  BY RanksNumberTheColumns
<1>2. \A k \in 1..m : Nth(k) \in F /\ WalkRank(list, Nth(k)) = k
  BY <1>1
<1>3. referenced_columns(list) = [k \in 1..m |-> ColumnAt(list, Nth(k))]
  BY DEF referenced_columns
<1>4. \A p \in F : \E i \in 1..n : \E j \in DOMAIN list[i].columns :
                     ColumnAt(list, p) = list[i].columns[j]
  BY OccurrenceType DEF FirstOccurrences, ColumnAt
<1>5. \A p, q \in F : ColumnAt(list, p) = ColumnAt(list, q) => p = q
  BY PrecedesIsStrictOrder DEF FirstOccurrences
<1> HIDE DEF F, m, Nth
<1>6. \A k \in 1..m :
        /\ referenced_columns(list)[k] = ColumnAt(list, Nth(k))
        /\ \E i \in 1..n : \E j \in DOMAIN list[i].columns :
             referenced_columns(list)[k] = list[i].columns[j]
  BY <1>2, <1>3, <1>4
<1>7. ASSUME NEW k \in 1..m, NEW l \in 1..m,
             referenced_columns(list)[k] = referenced_columns(list)[l]
      PROVE  k = l
  <2>1. Nth(k) = Nth(l)
    BY <1>2, <1>5, <1>6, <1>7
  <2> QED BY <1>2, <2>1
<1>8. DOMAIN referenced_columns(list) = 1..m
  BY <1>3
<1> QED BY <1>6, <1>7, <1>8

-----------------------------------------------------------------------------
(* The part of that walk that visits the conjuncts.                        *)
ClauseTrees(clauses, positions) ==
  [i \in DOMAIN clauses |->
     [columns |-> IF i \in positions THEN clauses[i].columns ELSE <<>>]]

LEMMA ClauseTreesType ==
  ASSUME NEW clauses \in Seq(Clauses), NEW positions
  PROVE  /\ ClauseTrees(clauses, positions) \in Seq([columns : Seq(Columns)])
         /\ Len(ClauseTrees(clauses, positions)) = Len(clauses)
         /\ \A i \in 1..Len(clauses) :
              i \in positions => ClauseTrees(clauses, positions)[i].columns = clauses[i].columns
<1>1. Len(clauses) \in Nat /\ DOMAIN clauses = 1..Len(clauses)
  BY LenProperties
<1>2. \A i \in 1..Len(clauses) : clauses[i].columns \in Seq(Columns)
  <2>1. \A i \in 1..Len(clauses) : clauses[i] \in Clauses
    BY ElementOfSeq
  <2> QED BY <2>1 DEF Clauses
<1>3. <<>> \in Seq(Columns)
  BY EmptySeq
<1> DEFINE tree(i) == [columns |-> IF i \in positions THEN clauses[i].columns ELSE <<>>]
<1>4. \A i \in 1..Len(clauses) : tree(i) \in [columns : Seq(Columns)]
  BY <1>2, <1>3
<1>5. ClauseTrees(clauses, positions) = [i \in 1..Len(clauses) |-> tree(i)]
  BY <1>1 DEF ClauseTrees
<1>6. \A i \in 1..Len(clauses) : i \in positions => tree(i).columns = clauses[i].columns
  OBVIOUS
<1> HIDE DEF tree
<1> QED BY <1>1, <1>4, <1>5, <1>6

(* A list of output expressions followed by a list of bare trees is a list *)
(* of trees.                                                               *)
LEMMA JoinedColumnList ==
  ASSUME NEW exprs \in Seq(OutputExpressions), NEW trees \in Seq([columns : Seq(Columns)])
  PROVE  LET list == exprs \o trees
         IN  /\ ColumnList(list, Len(exprs) + Len(trees))
             /\ \A i \in 1..Len(exprs) :
                  i \in 1..(Len(exprs) + Len(trees)) /\ list[i] = exprs[i]
             /\ \A i \in 1..Len(trees) :
                  Len(exprs) + i \in 1..(Len(exprs) + Len(trees)) /\ list[Len(exprs) + i] = trees[i]
<1> DEFINE Trees == OutputExpressions \cup [columns : Seq(Columns)]
           list == exprs \o trees
           p == Len(exprs)
           w == Len(trees)
<1>1. p \in Nat /\ w \in Nat
  BY LenProperties
<1>2. exprs \in Seq(Trees) /\ trees \in Seq(Trees)
  BY SeqMonotonic
<1>3. /\ list \in Seq(Trees) /\ Len(list) = p + w
      /\ \A i \in 1..p + w : list[i] = IF i <= p THEN exprs[i] ELSE trees[i - p]
  <2> HIDE DEF Trees
  <2> QED BY <1>2, ConcatProperties
<1>4. \A i \in 1..p + w : list[i] \in Trees
  <2> HIDE DEF Trees, list, p, w
  <2> QED BY <1>3, ElementOfSeq
<1>5. \A t \in Trees : t.columns \in Seq(Columns)
  BY DEF OutputExpressions
<1>6. ColumnList(list, p + w)
  <2> HIDE DEF Trees, list, p, w
  <2>1. DOMAIN list = 1..(p + w) /\ p + w \in Nat
    BY <1>1, <1>3, LenProperties
  <2> QED BY <1>4, <1>5, <2>1 DEF ColumnList
<1>7. \A i \in 1..p : i \in 1..(p + w) /\ list[i] = exprs[i]
  <2> HIDE DEF Trees, list, p, w
  <2> QED BY <1>1, <1>3
<1>8. \A i \in 1..w : p + i \in 1..(p + w) /\ list[p + i] = trees[i]
  <2> HIDE DEF Trees, list, p, w
  <2> SUFFICES ASSUME NEW i \in 1..w PROVE p + i \in 1..(p + w) /\ list[p + i] = trees[i]
    OBVIOUS
  <2>1. p + i \in 1..(p + w) /\ ~ (p + i <= p) /\ (p + i) - p = i
    BY <1>1
  <2> QED BY <1>3, <2>1
<1> QED BY <1>6, <1>7, <1>8

LEMMA NeededColumnsType ==
  ASSUME NEW aPlan \in QueryPlans, NEW positions
  PROVE  NeededColumns(aPlan, positions) \in Seq(Columns)
<1>1. aPlan.projection \in Seq(OutputExpressions) /\ aPlan.predicate \in Seq(Clauses)
  BY DEF QueryPlans, Projections
<1> DEFINE trees == ClauseTrees(aPlan.predicate, positions)
           list == aPlan.projection \o trees
<1>2. trees \in Seq([columns : Seq(Columns)])
  BY <1>1, ClauseTreesType
<1>3. ColumnList(list, Len(aPlan.projection) + Len(trees))
  <2> HIDE DEF trees
  <2> QED BY <1>1, <1>2, JoinedColumnList
<1>4. NeededColumns(aPlan, positions) = referenced_columns(list)
  BY DEF NeededColumns, ClauseTrees
<1> HIDE DEF list
<1> QED BY <1>3, <1>4, ReferencedColumnsType

(* The scan is asked for every column that the engine's part reads.        *)
LEMMA NeededColumnsComplete ==
  ASSUME NEW aPlan \in QueryPlans, NEW positions, NEW c,
         \/ \E i \in DOMAIN aPlan.projection :
              \E j \in DOMAIN aPlan.projection[i].columns : aPlan.projection[i].columns[j] = c
         \/ \E i \in positions \cap DOMAIN aPlan.predicate :
              \E j \in DOMAIN aPlan.predicate[i].columns : aPlan.predicate[i].columns[j] = c
  PROVE  LET needed == NeededColumns(aPlan, positions)
         IN  \E k \in DOMAIN needed : needed[k] = c
<1>1. aPlan.projection \in Seq(OutputExpressions) /\ aPlan.predicate \in Seq(Clauses)
  BY DEF QueryPlans, Projections
<1> DEFINE trees == ClauseTrees(aPlan.predicate, positions)
           list == aPlan.projection \o trees
           n == Len(aPlan.projection) + Len(trees)
<1>2. trees \in Seq([columns : Seq(Columns)]) /\ Len(trees) = Len(aPlan.predicate)
  BY <1>1, ClauseTreesType
<1>3. /\ ColumnList(list, n)
      /\ \A i \in 1..Len(aPlan.projection) : i \in 1..n /\ list[i] = aPlan.projection[i]
      /\ \A i \in 1..Len(trees) :
           Len(aPlan.projection) + i \in 1..n /\ list[Len(aPlan.projection) + i] = trees[i]
  <2> HIDE DEF trees
  <2> QED BY <1>1, <1>2, JoinedColumnList
<1>4. NeededColumns(aPlan, positions) = referenced_columns(list)
  BY DEF NeededColumns, ClauseTrees
<1>5. \E i \in 1..n : \E j \in DOMAIN list[i].columns : list[i].columns[j] = c
  <2>1. CASE \E i \in DOMAIN aPlan.projection :
               \E j \in DOMAIN aPlan.projection[i].columns : aPlan.projection[i].columns[j] = c
    <3>1. PICK i \in 1..Len(aPlan.projection) :
                 \E j \in DOMAIN aPlan.projection[i].columns : aPlan.projection[i].columns[j] = c
      BY <1>1, <2>1, LenProperties
    <3> HIDE DEF list, n
    <3> QED BY <1>3, <3>1
  <2>2. CASE \E i \in positions \cap DOMAIN aPlan.predicate :
               \E j \in DOMAIN aPlan.predicate[i].columns : aPlan.predicate[i].columns[j] = c
    <3>1. PICK i \in 1..Len(aPlan.predicate) :
                 /\ i \in positions
                 /\ \E j \in DOMAIN aPlan.predicate[i].columns : aPlan.predicate[i].columns[j] = c
      BY <1>1, <2>2, LenProperties
    <3>2. trees[i].columns = aPlan.predicate[i].columns
      BY <1>1, <3>1, ClauseTreesType
    <3>3. Len(aPlan.projection) + i \in 1..n /\ list[Len(aPlan.projection) + i] = trees[i]
      <4> HIDE DEF list, n, trees
      <4> QED BY <1>2, <1>3
    <3> HIDE DEF list, n, trees
    <3> QED BY <3>1, <3>2, <3>3
  <2> QED BY <2>1, <2>2
<1> HIDE DEF list, n
<1> QED BY <1>3, <1>4, <1>5, ReferencedColumnsComplete

-----------------------------------------------------------------------------
(* A projection of columns alone needs nothing beyond them as long as the  *)
(* engine's predicate reads none but them, whatever that predicate is.     *)

(* Where every column of a list stands among its first p trees, each of    *)
(* one column of its own, these are the first occurrences.                 *)
LEMMA FirstOfColumns ==
  ASSUME NEW list, NEW n, ColumnList(list, n), NEW p \in 0..n,
         \A i \in 1..p : DOMAIN list[i].columns = {1},
         \A i, j \in 1..p : list[i].columns[1] = list[j].columns[1] => i = j,
         \A i \in 1..n : \A j \in DOMAIN list[i].columns :
           \E k \in 1..p : list[i].columns[j] = list[k].columns[1]
  PROVE  FirstOccurrences(list) = (1..p) \X {1}
<1>1. n \in Nat /\ p \in Nat /\ p <= n /\ DOMAIN list = 1..n
  BY DEF ColumnList
<1>2. \A k \in 1..p : <<k, 1>> \in Occurrences(list) /\ ColumnAt(list, <<k, 1>>) = list[k].columns[1]
  <2> SUFFICES ASSUME NEW k \in 1..p
               PROVE  <<k, 1>> \in Occurrences(list) /\ ColumnAt(list, <<k, 1>>) = list[k].columns[1]
    OBVIOUS
  <2>1. k \in DOMAIN list /\ <<k, 1>> \in {k} \X DOMAIN list[k].columns
    BY <1>1
  <2> QED BY <2>1 DEF Occurrences, ColumnAt
<1>3. ASSUME NEW q \in Occurrences(list)
      PROVE  /\ q = <<q[1], q[2]>> /\ q[1] \in 1..n /\ q[1] \in Nat /\ q[2] \in Nat
             /\ q[2] \in DOMAIN list[q[1]].columns
             /\ \E k \in 1..p : ColumnAt(list, q) = ColumnAt(list, <<k, 1>>)
             /\ q[1] \in 1..p => q = <<q[1], 1>>
  <2>1. /\ q = <<q[1], q[2]>> /\ q[1] \in 1..n /\ q[1] \in Nat /\ q[2] \in Nat
        /\ q[2] \in DOMAIN list[q[1]].columns
    BY OccurrenceType
  <2>2. \E k \in 1..p : list[q[1]].columns[q[2]] = list[k].columns[1]
    BY <2>1
  <2>3. ColumnAt(list, q) = list[q[1]].columns[q[2]]
    BY DEF ColumnAt
  <2>4. q[1] \in 1..p => q = <<q[1], 1>>
    BY <2>1
  <2> QED BY <1>2, <2>1, <2>2, <2>3, <2>4
<1>4. ASSUME NEW q \in FirstOccurrences(list) PROVE q \in (1..p) \X {1}
  <2>1. q \in Occurrences(list)
    BY DEF FirstOccurrences
  <2>2. PICK k \in 1..p : ColumnAt(list, q) = ColumnAt(list, <<k, 1>>)
    BY <1>3, <2>1
  <2>3. ~ Precedes(<<k, 1>>, q)
    BY <1>2, <2>2 DEF FirstOccurrences
  <2>4. q[1] <= k /\ q[1] \in 1..p
    BY <1>1, <1>3, <2>1, <2>3 DEF Precedes
  <2> QED BY <1>3, <2>1, <2>4
<1>5. ASSUME NEW k \in 1..p PROVE <<k, 1>> \in FirstOccurrences(list)
  <2> SUFFICES ASSUME NEW q \in Occurrences(list), Precedes(q, <<k, 1>>),
                      ColumnAt(list, q) = ColumnAt(list, <<k, 1>>)
               PROVE  FALSE
    BY <1>2 DEF FirstOccurrences
  <2>1. q[1] \in 1..p /\ q = <<q[1], 1>>
    <3>1. q[1] <= k
      BY <1>1, <1>3 DEF Precedes
    <3> QED BY <1>1, <1>3, <3>1
  <2>2. list[q[1]].columns[1] = list[k].columns[1]
    BY <1>2, <2>1
  <2>3. q[1] = k
    BY <2>1, <2>2
  <2> QED BY <1>3, <2>1, <2>3 DEF Precedes
<1> QED BY <1>4, <1>5

LEMMA FirstOfPureProjection ==
  ASSUME NEW aPlan \in QueryPlans, NEW positions, PureColumns(aPlan),
         \A i \in positions \cap DOMAIN aPlan.predicate : \A j \in DOMAIN aPlan.predicate[i].columns :
           \E k \in DOMAIN aPlan.projection : aPlan.predicate[i].columns[j] = aPlan.projection[k].name
  PROVE  LET list == aPlan.projection \o ClauseTrees(aPlan.predicate, positions)
         IN  /\ ColumnList(list, Len(aPlan.projection) + Len(aPlan.predicate))
             /\ FirstOccurrences(list) = (1..Len(aPlan.projection)) \X {1}
             /\ \A k \in 1..Len(aPlan.projection) : ColumnAt(list, <<k, 1>>) = aPlan.projection[k].name
             /\ NeededColumns(aPlan, positions) = referenced_columns(list)
<1> DEFINE trees == ClauseTrees(aPlan.predicate, positions)
           list == aPlan.projection \o trees
           p == Len(aPlan.projection)
           n == p + Len(trees)
<1>1. /\ aPlan.projection \in Seq(OutputExpressions) /\ aPlan.predicate \in Seq(Clauses)
      /\ \A i, j \in DOMAIN aPlan.projection : aPlan.projection[i].name = aPlan.projection[j].name => i = j
  BY DEF QueryPlans, Projections
<1>2. trees \in Seq([columns : Seq(Columns)]) /\ Len(trees) = Len(aPlan.predicate)
  BY <1>1, ClauseTreesType
<1>3. /\ ColumnList(list, n)
      /\ \A i \in 1..p : i \in 1..n /\ list[i] = aPlan.projection[i]
      /\ \A i \in 1..Len(trees) : p + i \in 1..n /\ list[p + i] = trees[i]
  <2> HIDE DEF trees
  <2> QED BY <1>1, <1>2, JoinedColumnList
<1>4. /\ p \in Nat /\ Len(trees) \in Nat /\ DOMAIN aPlan.projection = 1..p
      /\ DOMAIN aPlan.predicate = 1..Len(trees)
  BY <1>1, <1>2, LenProperties
<1>5. \A i \in 1..p : aPlan.projection[i].columns = <<aPlan.projection[i].name>>
  <2> SUFFICES ASSUME NEW i \in 1..p PROVE aPlan.projection[i].columns = <<aPlan.projection[i].name>>
    OBVIOUS
  <2>1. aPlan.projection[i] \in OutputExpressions
    BY <1>1, ElementOfSeq
  <2>2. aPlan.projection[i].kinds = {"column"}
    BY <1>4 DEF PureColumns, IsColumn
  <2> QED BY <2>1, <2>2 DEF OutputExpressions, IsColumn
<1> HIDE DEF list, n
<1>6. \A i \in 1..p : DOMAIN list[i].columns = {1} /\ list[i].columns[1] = aPlan.projection[i].name
  <2>1. \A x : DOMAIN <<x>> = {1} /\ <<x>>[1] = x
    OBVIOUS
  <2> QED BY <1>3, <1>5, <2>1
<1>7. ASSUME NEW i \in 1..n, NEW j \in DOMAIN list[i].columns
      PROVE  \E k \in 1..p : list[i].columns[j] = list[k].columns[1]
  <2>1. CASE i \in 1..p
    BY <1>6, <2>1
  <2>2. CASE i \notin 1..p
    <3>1. i - p \in 1..Len(trees) /\ i = p + (i - p)
      <4>1. i \in 1..(p + Len(trees))
        BY DEF n
      <4> HIDE DEF p, trees
      <4> QED BY <1>4, <2>2, <4>1
    <3> DEFINE m == i - p
    <3>2. list[i] = trees[m] /\ m \in 1..Len(trees) /\ m \in DOMAIN aPlan.predicate
      BY <1>3, <1>4, <3>1
    <3> HIDE DEF m
    <3>3. trees[m].columns = IF m \in positions THEN aPlan.predicate[m].columns ELSE <<>>
      BY <3>2 DEF ClauseTrees
    <3>4. m \in positions
      <4>1. DOMAIN <<>> = {}
        OBVIOUS
      <4> QED BY <3>2, <3>3, <4>1
    <3>5. \E k \in DOMAIN aPlan.projection : list[i].columns[j] = aPlan.projection[k].name
      BY <3>2, <3>3, <3>4
    <3> QED BY <1>4, <1>6, <3>5
  <2> QED BY <2>1, <2>2
<1>8. p \in 0..n
  <2>1. n = p + Len(trees)
    BY DEF n
  <2> HIDE DEF p, trees
  <2> QED BY <1>4, <2>1
<1>9. \A i, j \in 1..p : list[i].columns[1] = list[j].columns[1] => i = j
  BY <1>1, <1>4, <1>6
<1>10. FirstOccurrences(list) = (1..p) \X {1}
  <2> HIDE DEF p
  <2> QED BY <1>3, <1>6, <1>7, <1>8, <1>9, FirstOfColumns
<1>11. \A k \in 1..p : ColumnAt(list, <<k, 1>>) = aPlan.projection[k].name
  BY <1>6 DEF ColumnAt
<1>12. NeededColumns(aPlan, positions) = referenced_columns(list)
  BY DEF NeededColumns, ClauseTrees, list
<1>13. ColumnList(list, Len(aPlan.projection) + Len(aPlan.predicate))
  BY <1>2, <1>3 DEF n
<1> QED BY <1>10, <1>11, <1>12, <1>13 DEF list

LEMMA PureProjectionNeedsItself ==
  ASSUME NEW aPlan \in QueryPlans, PureColumns(aPlan), NEW A, NEW B,
         \A i \in (A \cup B) \cap DOMAIN aPlan.predicate : \A j \in DOMAIN aPlan.predicate[i].columns :
           \E k \in DOMAIN aPlan.projection : aPlan.predicate[i].columns[j] = aPlan.projection[k].name
  PROVE  NeededColumns(aPlan, A) = NeededColumns(aPlan, B)
<1> DEFINE p == Len(aPlan.projection)
           n == p + Len(aPlan.predicate)
           listA == aPlan.projection \o ClauseTrees(aPlan.predicate, A)
           listB == aPlan.projection \o ClauseTrees(aPlan.predicate, B)
           F == (1..p) \X {1}
<1>1. /\ ColumnList(listA, n)
      /\ FirstOccurrences(listA) = F /\ NeededColumns(aPlan, A) = referenced_columns(listA)
      /\ \A k \in 1..p : ColumnAt(listA, <<k, 1>>) = aPlan.projection[k].name
  <2>1. \A i \in A \cap DOMAIN aPlan.predicate : \A j \in DOMAIN aPlan.predicate[i].columns :
          \E k \in DOMAIN aPlan.projection : aPlan.predicate[i].columns[j] = aPlan.projection[k].name
    OBVIOUS
  <2> QED BY <2>1, FirstOfPureProjection
<1>2. /\ ColumnList(listB, n)
      /\ FirstOccurrences(listB) = F /\ NeededColumns(aPlan, B) = referenced_columns(listB)
      /\ \A k \in 1..p : ColumnAt(listB, <<k, 1>>) = aPlan.projection[k].name
  <2>1. \A i \in B \cap DOMAIN aPlan.predicate : \A j \in DOMAIN aPlan.predicate[i].columns :
          \E k \in DOMAIN aPlan.projection : aPlan.predicate[i].columns[j] = aPlan.projection[k].name
    OBVIOUS
  <2> QED BY <2>1, FirstOfPureProjection
<1> HIDE DEF listA, listB, n
<1>3. \A q \in F : WalkRank(listA, q) = WalkRank(listB, q)
  BY <1>1, <1>2 DEF WalkRank
<1>4. \A q \in F : ColumnAt(listA, q) = ColumnAt(listB, q)
  BY <1>1, <1>2
<1> DEFINE m == Cardinality(F)
           NthA(k) == CHOOSE q \in F : WalkRank(listA, q) = k
           NthB(k) == CHOOSE q \in F : WalkRank(listB, q) = k
<1>5. \A k : NthA(k) = NthB(k)
  BY <1>3
<1>6. /\ referenced_columns(listA) = [k \in 1..m |-> ColumnAt(listA, NthA(k))]
      /\ referenced_columns(listB) = [k \in 1..m |-> ColumnAt(listB, NthB(k))]
  BY <1>1, <1>2 DEF referenced_columns
<1>7. \A k \in 1..m : NthA(k) \in F
  <2>1. \A k \in 1..m : \E q \in F : WalkRank(listA, q) = k
    BY <1>1, RanksNumberTheColumns
  <2> HIDE DEF m, F
  <2> QED BY <2>1
<1> HIDE DEF m, F, NthA, NthB
<1>8. \A k \in 1..m : ColumnAt(listA, NthA(k)) = ColumnAt(listB, NthB(k))
  BY <1>4, <1>5, <1>7
<1> QED BY <1>1, <1>2, <1>6, <1>8

-----------------------------------------------------------------------------
(* Type correctness.                                                       *)

LEMMA WhereType ==
  ASSUME NEW aPlan \in QueryPlans, NEW clauses \in Predicates
  PROVE  where(aPlan, clauses) \in QueryPlans
<1>1. aPlan.predicate \in Seq(Clauses) /\ clauses \in Seq(Clauses)
  BY PlannerInputs DEF QueryPlans
<1>2. aPlan.predicate \o clauses \in Seq(Clauses)
  BY <1>1, ConcatProperties
<1> QED BY <1>2 DEF where, QueryPlans

LEMMA LimitType ==
  ASSUME NEW aPlan \in QueryPlans, NEW count \in LimitChoices
  PROVE  limit(aPlan, count) \in QueryPlans
<1>1. count \in Nat /\ aPlan.limit \in LimitCount
  BY PlannerInputs DEF QueryPlans
<1> DEFINE bound == IF aPlan.limit = NoLimit THEN count ELSE Lesser(aPlan.limit, count)
<1>2. bound \in LimitCount
  BY <1>1 DEF Lesser, LimitCount, NoLimit
<1>3. limit(aPlan, count) = [aPlan EXCEPT !.limit = bound]
  BY DEF limit
<1> HIDE DEF bound
<1> QED BY <1>2, <1>3 DEF QueryPlans

LEMMA SelectType ==
  ASSUME NEW aPlan \in QueryPlans, NEW expressions \in ProjectionChoices
  PROVE  select(aPlan, expressions) \in QueryPlans
BY PlannerInputs DEF select, QueryPlans

(* The parts of the type invariant that a visit to a node may change.      *)
LEMMA ExplainType ==
  ASSUME PlannerTypeOK, NEW op \in Operations, NEW disposition \in Dispositions,
         NEW code \in RejectionCodes \cup {"pushdown_full", "residual_computed_projection",
                                           "residual_limit"},
         disposition = "rejected" => code \in RejectionCodes,
         Explain(op, disposition, code)
  PROVE  /\ nodes' \in [Operations -> Dispositions \cup {Unplanned}]
         /\ diagnostics' \in Seq([node : Operations, code : RejectionCodes])
<1>1. nodes' \in [Operations -> Dispositions \cup {Unplanned}]
  BY DEF Explain, PlannerTypeOK
<1>2. diagnostics' \in Seq([node : Operations, code : RejectionCodes])
  <2>1. diagnostics \in Seq([node : Operations, code : RejectionCodes])
    BY DEF PlannerTypeOK
  <2>2. CASE disposition = "rejected"
    <3>1. [node |-> op, code |-> code] \in [node : Operations, code : RejectionCodes]
      BY <2>2
    <3> QED BY <2>1, <2>2, <3>1, AppendProperties DEF Explain
  <2>3. CASE disposition # "rejected"
    BY <2>1, <2>3 DEF Explain
  <2> QED BY <2>2, <2>3
<1> QED BY <1>1, <1>2

LEMMA VisitType ==
  ASSUME PlannerTypeOK, NEW op, Visit(op)
  PROVE  /\ phase' = phase /\ plan' = plan /\ target' = target
         /\ phase = "planning" /\ target \in Targets /\ plan \in QueryPlans
         /\ pending' \subseteq Operations
BY DEF PlannerTypeOK, Visit

LEMMA PlannerTypeInit == PlannerInit => PlannerTypeOK
<1> SUFFICES ASSUME PlannerInit PROVE PlannerTypeOK
  OBVIOUS
<1>1. /\ <<>> \in Seq(Clauses) /\ <<>> \in Seq(OutputExpressions)
      /\ <<>> \in Seq([node : Operations, code : RejectionCodes]) /\ <<>> \in Seq(Columns)
  BY EmptySeq
<1>2. <<>> \in Projections
  BY <1>1 DEF Projections
<1>3. ScanPlan \in QueryPlans
  BY <1>1, <1>2 DEF ScanPlan, QueryPlans, LimitCount
<1>4. NoOperations \in PushedOperations /\ NoOperations \in ResidualOperations
  BY <1>1, <1>2 DEF NoOperations, PushedOperations, ResidualOperations, LimitCount
<1> QED BY <1>1, <1>3, <1>4 DEF PlannerInit, PlannerTypeOK

LEMMA PlaceTypes ==
  ASSUME PlannerTypeOK
  PROVE  /\ pushed \in PushedOperations /\ residual \in ResidualOperations
         /\ \A p \in Seq(Columns) : [pushed EXCEPT !.projection = p] \in PushedOperations
         /\ \A s \in SUBSET Nat : /\ [pushed EXCEPT !.predicate = s] \in PushedOperations
                                  /\ [residual EXCEPT !.predicate = s] \in ResidualOperations
         /\ \A n \in LimitCount : /\ [pushed EXCEPT !.limit = n] \in PushedOperations
                                  /\ [residual EXCEPT !.limit = n] \in ResidualOperations
         /\ \A e \in Projections : [residual EXCEPT !.projection = e] \in ResidualOperations
BY DEF PlannerTypeOK, PushedOperations, ResidualOperations

LEMMA PlanScanType ==
  ASSUME PlannerTypeOK, PlanScan PROVE PlannerTypeOK'
<1>1. Visit("scan") /\ "scan" \in Operations
  BY DEF PlanScan, Operations
<1>2. /\ nodes' \in [Operations -> Dispositions \cup {Unplanned}]
      /\ diagnostics' \in Seq([node : Operations, code : RejectionCodes])
  <2>1. CASE Explain("scan", "pushed", "pushdown_full")
    BY <1>1, <2>1, ExplainType DEF Dispositions
  <2>2. CASE Explain("scan", "rejected", "staging_required")
    BY <1>1, <2>2, ExplainType DEF Dispositions, RejectionCodes
  <2> QED BY <2>1, <2>2 DEF PlanScan
<1>3. staging_required' \in BOOLEAN /\ UNCHANGED <<pushed, residual>>
  BY DEF PlanScan, PlannerTypeOK
<1> QED BY <1>1, <1>2, <1>3, VisitType DEF PlannerTypeOK

LEMMA PlanFilterType ==
  ASSUME PlannerTypeOK, PlanFilter PROVE PlannerTypeOK'
<1>1. Visit("filter") /\ "filter" \in Operations /\ UNCHANGED staging_required
  BY DEF PlanFilter, Operations
<1>2. /\ nodes' \in [Operations -> Dispositions \cup {Unplanned}]
      /\ diagnostics' \in Seq([node : Operations, code : RejectionCodes])
  <2>1. PICK disposition \in Dispositions :
          Explain("filter", disposition, "rejected_engine_unsupported_expression")
    BY DEF PlanFilter, Dispositions
  <2> QED BY <1>1, <2>1, ExplainType DEF RejectionCodes
<1>3. DOMAIN plan.predicate \in SUBSET Nat
  <2>1. plan.predicate \in Seq(Clauses)
    BY DEF PlannerTypeOK, QueryPlans
  <2> QED BY <2>1, LenProperties
<1>4. pushed' \in PushedOperations /\ residual' \in ResidualOperations
  <2>1. \E s, r \in SUBSET Nat :
          pushed' = [pushed EXCEPT !.predicate = s] /\ residual' = [residual EXCEPT !.predicate = r]
    BY <1>3 DEF PlanFilter
  <2> QED BY <2>1, PlaceTypes
<1> QED BY <1>1, <1>2, <1>4, VisitType DEF PlannerTypeOK

LEMMA PlanProjectType ==
  ASSUME PlannerTypeOK, PlanProject PROVE PlannerTypeOK'
<1>1. Visit("project") /\ "project" \in Operations /\ UNCHANGED staging_required
  BY DEF PlanProject, Operations
<1>2. NeededColumns(plan, residual.predicate) \in Seq(Columns) /\ plan.projection \in Projections
  BY NeededColumnsType DEF PlannerTypeOK, QueryPlans
<1>3. CASE PushesWholeProjection(plan, target.scan, residual.predicate)
  <2>1. PushWholeProjection
    BY <1>3 DEF PlanProject
  <2>2. output_names(plan.projection) \in Seq(Columns)
    BY <1>2, <1>3 DEF PushesWholeProjection
  <2>3. pushed' \in PushedOperations /\ residual' \in ResidualOperations
    BY <2>1, <2>2, PlaceTypes DEF PushWholeProjection
  <2>4. Explain("project", "pushed", "pushdown_full")
    BY <2>1 DEF PushWholeProjection
  <2>5. /\ nodes' \in [Operations -> Dispositions \cup {Unplanned}]
        /\ diagnostics' \in Seq([node : Operations, code : RejectionCodes])
    BY <1>1, <2>4, ExplainType DEF Dispositions
  <2> QED BY <1>1, <2>3, <2>5, VisitType DEF PlannerTypeOK
<1>4. CASE ~ PushesWholeProjection(plan, target.scan, residual.predicate)
  <2>1. PruneAndProject
    BY <1>4 DEF PlanProject
  <2>2. PICK p \in Seq(Columns) :
          /\ pushed' = [pushed EXCEPT !.projection = p]
          /\ residual' = [residual EXCEPT !.projection = plan.projection]
    BY <1>2, <2>1, EmptySeq DEF PruneAndProject
  <2>3. pushed' \in PushedOperations /\ residual' \in ResidualOperations
    BY <1>2, <2>2, PlaceTypes
  <2>4. \/ Explain("project", "rejected", "rejected_engine_unsupported_operation")
        \/ Explain("project", "rejected", "rejected_engine_unsupported_expression")
        \/ Explain("project", "residual", "residual_computed_projection")
        \/ Explain("project", "partial", "residual_computed_projection")
    BY <2>1 DEF PruneAndProject
  <2>5. /\ nodes' \in [Operations -> Dispositions \cup {Unplanned}]
        /\ diagnostics' \in Seq([node : Operations, code : RejectionCodes])
    BY <1>1, <2>4, ExplainType DEF Dispositions, RejectionCodes
  <2> QED BY <1>1, <2>3, <2>5, VisitType DEF PlannerTypeOK
<1> QED BY <1>3, <1>4

LEMMA PlanLimitType ==
  ASSUME PlannerTypeOK, PlanLimit PROVE PlannerTypeOK'
<1>1. Visit("limit") /\ "limit" \in Operations /\ UNCHANGED staging_required
  BY DEF PlanLimit, Operations
<1>2. plan.limit \in LimitCount
  BY DEF PlannerTypeOK, QueryPlans
<1>3. pushed' \in PushedOperations /\ residual' \in ResidualOperations
  BY <1>2, PlaceTypes DEF PlanLimit, LimitInEngine
<1>4. \/ Explain("limit", "pushed", "pushdown_full")
      \/ Explain("limit", "partial", "residual_limit")
      \/ Explain("limit", "residual", "residual_limit")
      \/ Explain("limit", "rejected", "rejected_engine_unsupported_operation")
  BY DEF PlanLimit, LimitInEngine
<1>5. /\ nodes' \in [Operations -> Dispositions \cup {Unplanned}]
      /\ diagnostics' \in Seq([node : Operations, code : RejectionCodes])
  BY <1>1, <1>4, ExplainType DEF Dispositions, RejectionCodes
<1> QED BY <1>1, <1>3, <1>5, VisitType DEF PlannerTypeOK

LEMMA PlannerTypeStep ==
  PlannerTypeOK /\ [PlannerNext]_plannerVars => PlannerTypeOK'
<1> SUFFICES ASSUME PlannerTypeOK, [PlannerNext]_plannerVars PROVE PlannerTypeOK'
  OBVIOUS
<1>1. ASSUME NEW newPlan \in QueryPlans, Build(newPlan) PROVE PlannerTypeOK'
  BY <1>1 DEF Build, PlannerTypeOK
<1>2. ASSUME NEW clauses \in Predicates, Where(clauses) PROVE PlannerTypeOK'
  BY <1>1, <1>2, WhereType DEF Where, PlannerTypeOK
<1>3. ASSUME NEW expressions \in ProjectionChoices, Select(expressions) PROVE PlannerTypeOK'
  BY <1>1, <1>3, SelectType DEF Select, PlannerTypeOK
<1>4. ASSUME NEW count \in LimitChoices, Limit(count) PROVE PlannerTypeOK'
  BY <1>1, <1>4, LimitType DEF Limit, PlannerTypeOK
<1>5. ASSUME NEW t \in Targets, StartPlanning(t) PROVE PlannerTypeOK'
  <2>1. NodesOf(plan) \subseteq Operations
    BY DEF NodesOf
  <2> QED BY <1>5, <2>1 DEF StartPlanning, PlannerTypeOK
<1>6. CASE PlanNode
  BY <1>6, PlanScanType, PlanFilterType, PlanProjectType, PlanLimitType DEF PlanNode
<1>7. CASE Finish
  BY <1>7 DEF Finish, PlannerTypeOK
<1>8. CASE UNCHANGED plannerVars
  BY <1>8 DEF plannerVars, PlannerTypeOK
<1> QED BY <1>2, <1>3, <1>4, <1>5, <1>6, <1>7, <1>8 DEF PlannerNext

(* The planner's state keeps the shape of the dataclasses it is built of;  *)
(* in particular the scan is only ever asked for columns of the source.    *)
THEOREM PlannerTypeCorrect == PlannerSpec => []PlannerTypeOK
<1>1. PlannerInit => PlannerTypeOK
  BY PlannerTypeInit
<1>2. PlannerTypeOK /\ [PlannerNext]_plannerVars => PlannerTypeOK'
  BY PlannerTypeStep
<1> QED BY <1>1, <1>2, PTL DEF PlannerSpec

-----------------------------------------------------------------------------
(* The completeness assertion.  The invariant says where the loop stands:  *)
(* a visited node that was not rejected is placed as the check expects,    *)
(* and a node that is not visited, or not in the plan, is not placed.      *)

Visited(op) == phase # "building" /\ op \in NodesOf(plan) \ pending

PendingInPlan == phase # "building" => pending \subseteq NodesOf(plan)

VisitsInOrder ==
  \A op, other \in NodesOf(plan) : Visited(other) /\ Order[op] < Order[other] => Visited(op)

FilterPlaced ==
  IF Visited("filter")
  THEN /\ pushed.predicate =
            {i \in DOMAIN plan.predicate : PushesClause(target, plan.predicate[i])}
       /\ residual.predicate =
            {i \in DOMAIN plan.predicate : ResidualClause(target, plan.predicate[i])}
       /\ nodes["filter"] # "rejected" =>
            DOMAIN plan.predicate = pushed.predicate \cup residual.predicate
  ELSE pushed.predicate = {} /\ residual.predicate = {}

ProjectPlaced ==
  IF Visited("project")
  THEN nodes["project"] # "rejected" =>
         ProjectionProblems(plan, target.scan, target.engine, pushed, residual) = {}
  ELSE pushed.projection = <<>> /\ residual.projection = <<>>

LimitPlaced ==
  IF Visited("limit")
  THEN nodes["limit"] # "rejected" =>
         LimitProblems(plan, target.scan, target.engine, pushed, residual) = {}
  ELSE pushed.limit = NoLimit /\ residual.limit = NoLimit

PlacementInv ==
  PlannerTypeOK /\ PendingInPlan /\ VisitsInOrder /\ FilterPlaced /\ ProjectPlaced /\ LimitPlaced
     /\ CompletenessHolds

(* Each conjunct is counted once: what the filter's placement puts in the  *)
(* scan and in the engine satisfies the check's multiset equations.        *)
LEMMA CountOfSubset ==
  ASSUME NEW aPlan \in QueryPlans, NEW A \in SUBSET DOMAIN aPlan.predicate, NEW c
  PROVE  /\ Count(aPlan, A, c) \in Nat
         /\ Count(aPlan, A, c) <= Count(aPlan, DOMAIN aPlan.predicate, c)
         /\ Count(aPlan, A, c) = 0 <=> \A i \in A : aPlan.predicate[i] # c
         /\ IsFiniteSet({i \in A : aPlan.predicate[i] = c})
<1>1. aPlan.predicate \in Seq(Clauses)
  BY DEF QueryPlans
<1>2. IsFiniteSet(DOMAIN aPlan.predicate)
  BY <1>1, LenProperties, FS_Interval
<1> DEFINE At(S) == {i \in S : aPlan.predicate[i] = c}
<1>3. At(A) \in SUBSET At(DOMAIN aPlan.predicate) /\ IsFiniteSet(At(DOMAIN aPlan.predicate))
  BY <1>2, FS_Subset
<1>4. IsFiniteSet(At(A)) /\ Cardinality(At(A)) <= Cardinality(At(DOMAIN aPlan.predicate))
  <2> HIDE DEF At
  <2> QED BY <1>3, FS_Subset
<1>5. Cardinality(At(A)) \in Nat /\ (Cardinality(At(A)) = 0 <=> At(A) = {})
  <2> HIDE DEF At
  <2> QED BY <1>4, FS_CardinalityType, FS_EmptySet
<1> QED BY <1>4, <1>5 DEF Count

LEMMA CountOfPartition ==
  ASSUME NEW aPlan \in QueryPlans, NEW c,
         NEW A \in SUBSET DOMAIN aPlan.predicate, NEW B \in SUBSET DOMAIN aPlan.predicate,
         A \cup B = DOMAIN aPlan.predicate, A \cap B = {}
  PROVE  Count(aPlan, A, c) + Count(aPlan, B, c) = Count(aPlan, DOMAIN aPlan.predicate, c)
<1> DEFINE At(S) == {i \in S : aPlan.predicate[i] = c}
<1>1. IsFiniteSet(At(A)) /\ IsFiniteSet(At(B))
  BY CountOfSubset
<1>2. At(A) \cup At(B) = At(DOMAIN aPlan.predicate) /\ At(A) \cap At(B) = {}
  OBVIOUS
<1>3. Cardinality(At(A)) \in Nat /\ Cardinality(At(B)) \in Nat /\ Cardinality({}) = 0
  BY <1>1, FS_CardinalityType, FS_EmptySet
<1>4. Cardinality(At(A) \cup At(B)) = Cardinality(At(A)) + Cardinality(At(B))
  <2> DEFINE X == At(A)
             Y == At(B)
  <2>1. IsFiniteSet(X) /\ IsFiniteSet(Y) /\ X \cap Y = {}
    BY <1>1, <1>2
  <2>2. Cardinality(X) \in Nat /\ Cardinality(Y) \in Nat
    BY <1>3
  <2> HIDE DEF X, Y
  <2>3. Cardinality(X \cup Y) = Cardinality(X) + Cardinality(Y) - Cardinality(X \cap Y)
    BY <2>1, FS_Union
  <2>4. Cardinality(X \cap Y) = 0
    BY <2>1, FS_EmptySet
  <2>5. Cardinality(X \cup Y) = Cardinality(X) + Cardinality(Y)
    BY <2>2, <2>3, <2>4
  <2> QED BY <2>5 DEF X, Y
<1> QED BY <1>2, <1>4 DEF Count

LEMMA FilterPlacementIsComplete ==
  ASSUME NEW aPlan \in QueryPlans, NEW t \in Targets, NEW inScan, NEW inEngine,
         inScan.predicate = {i \in DOMAIN aPlan.predicate : PushesClause(t, aPlan.predicate[i])},
         inEngine.predicate = {i \in DOMAIN aPlan.predicate : ResidualClause(t, aPlan.predicate[i])},
         DOMAIN aPlan.predicate = inScan.predicate \cup inEngine.predicate
  PROVE  PredicateProblems(aPlan, t.scan, t.engine, inScan, inEngine) = {}
<1> DEFINE all == DOMAIN aPlan.predicate
           P == inScan.predicate
           R == inEngine.predicate
<1>1. t.scan.predicate \in Support
  BY PlannerInputs DEF PlanningTargets, PushdownCapabilities
<1>2. \A c \in ClausesAt(aPlan, P) : t.scan.predicate # "none" /\ ScanSupports(t.scan, c)
  BY DEF ClausesAt, PushesClause
<1>3. \A c \in ClausesAt(aPlan, R) : EngineSupports(t.engine, c)
  BY DEF ClausesAt, ResidualClause
<1>4. ASSUME t.scan.predicate = "partial", NEW c
      PROVE  /\ Count(aPlan, R, c) = Count(aPlan, all, c)
             /\ ~ (Count(aPlan, P, c) > Count(aPlan, all, c))
  <2>1. R = all
    BY <1>4 DEF PushesClause, ResidualClause
  <2>2. P \in SUBSET all /\ all \in SUBSET all
    OBVIOUS
  <2>3. /\ Count(aPlan, P, c) \in Nat /\ Count(aPlan, all, c) \in Nat
        /\ Count(aPlan, P, c) <= Count(aPlan, all, c)
    BY <2>2, CountOfSubset
  <2> HIDE DEF all, P
  <2> QED BY <2>1, <2>3
<1>5. ASSUME t.scan.predicate # "partial", NEW c
      PROVE  /\ ~ (Count(aPlan, P, c) > 0 /\ Count(aPlan, R, c) > 0)
             /\ Count(aPlan, P, c) + Count(aPlan, R, c) = Count(aPlan, all, c)
  <2>1. \A i \in P, j \in R : aPlan.predicate[i] # aPlan.predicate[j]
    BY <1>1, <1>5 DEF PushesClause, ResidualClause, Support
  <2>2. P \in SUBSET all /\ R \in SUBSET all
    OBVIOUS
  <2>3. P \cap R = {} /\ P \cup R = all
    BY <2>1
  <2>4. Count(aPlan, P, c) + Count(aPlan, R, c) = Count(aPlan, all, c)
    BY <2>2, <2>3, CountOfPartition
  <2>5. Count(aPlan, P, c) = 0 \/ Count(aPlan, R, c) = 0
    BY <2>1, <2>2, CountOfSubset
  <2>6. Count(aPlan, P, c) \in Nat /\ Count(aPlan, R, c) \in Nat
    BY <2>2, CountOfSubset
  <2> HIDE DEF all, P, R
  <2> QED BY <2>4, <2>5, <2>6
<1> QED BY <1>2, <1>3, <1>4, <1>5 DEF PredicateProblems

(* A visit makes progress in the order of the chain.                       *)
LEMMA VisitOrder ==
  ASSUME PendingInPlan, VisitsInOrder, NEW op \in Operations, Visit(op)
  PROVE  /\ PendingInPlan' /\ VisitsInOrder'
         /\ op \in NodesOf(plan) /\ ~ Visited(op) /\ Visited(op)'
         /\ \A other \in Operations \ {op} : Visited(other)' <=> Visited(other)
         /\ \A other \in Operations : Order[op] < Order[other] => ~ Visited(other)
<1>1. phase = "planning" /\ UNCHANGED <<phase, plan>> /\ op \in pending /\ pending' = pending \ {op}
  BY DEF Visit
<1>2. NodesOf(plan) \subseteq Operations /\ NodesOf(plan)' = NodesOf(plan)
  BY <1>1 DEF NodesOf
<1>3. op \in NodesOf(plan) /\ ~ Visited(op) /\ Visited(op)'
  BY <1>1, <1>2 DEF PendingInPlan, Visited
<1>4. \A other \in Operations \ {op} : Visited(other)' <=> Visited(other)
  BY <1>1, <1>2 DEF Visited
<1>5. \A other \in NodesOf(plan) : Visited(other)' <=> Visited(other) \/ other = op
  BY <1>2, <1>3, <1>4
<1>6. \A o \in Operations : Order[o] \in Nat
  BY DEF Operations, Order
<1>7. \A o \in NodesOf(plan) : ~ Visited(o) => o \in pending /\ Order[op] <= Order[o]
  BY <1>1 DEF Visited, Visit
<1>8. VisitsInOrder'
  <2> SUFFICES ASSUME NEW o \in NodesOf(plan), NEW other \in NodesOf(plan),
                      Visited(other)', Order[o] < Order[other]
               PROVE  Visited(o)'
    BY <1>2 DEF VisitsInOrder
  <2>1. CASE Visited(other)
    BY <1>5, <2>1 DEF VisitsInOrder
  <2>2. CASE other = op
    BY <1>2, <1>5, <1>6, <1>7, <2>2
  <2> QED BY <1>5, <2>1, <2>2
<1>9. PendingInPlan'
  BY <1>1, <1>2 DEF PendingInPlan
<1>10. \A other \in Operations : Order[op] < Order[other] => ~ Visited(other)
  BY <1>3 DEF VisitsInOrder, Visited
<1> QED BY <1>3, <1>4, <1>8, <1>9, <1>10

(* What a visit leaves alone: the other nodes' explanations.               *)
LEMMA ExplainOthers ==
  ASSUME PlannerTypeOK, NEW op \in Operations, NEW disposition, NEW code,
         Explain(op, disposition, code)
  PROVE  /\ nodes'[op] = disposition
         /\ \A other \in Operations \ {op} : nodes'[other] = nodes[other]
BY DEF Explain, PlannerTypeOK

LEMMA ScanKeepsPlacement ==
  ASSUME PlacementInv, PlanScan PROVE PlacementInv'
<1>1. PlannerTypeOK'
  BY PlanScanType DEF PlacementInv
<1>2. Visit("scan") /\ UNCHANGED <<pushed, residual>> /\ "scan" \in Operations
  BY DEF PlanScan, Operations
<1>3. \A op \in {"filter", "project", "limit"} : op \in Operations \ {"scan"}
  BY DEF Operations
<1>4. \A op \in {"filter", "project", "limit"} : nodes'[op] = nodes[op]
  BY <1>2, <1>3, ExplainOthers DEF PlanScan, PlacementInv
<1>5. /\ PendingInPlan' /\ VisitsInOrder'
      /\ \A op \in {"filter", "project", "limit"} : Visited(op)' <=> Visited(op)
  BY <1>2, <1>3, VisitOrder DEF PlacementInv
<1>6. UNCHANGED <<plan, target, phase>>
  BY <1>2 DEF Visit
<1>7. FilterPlaced'
  BY <1>2, <1>4, <1>5, <1>6 DEF PlacementInv, FilterPlaced
<1>8. ProjectPlaced'
  BY <1>2, <1>4, <1>5, <1>6 DEF PlacementInv, ProjectPlaced
<1>9. LimitPlaced'
  BY <1>2, <1>4, <1>5, <1>6 DEF PlacementInv, LimitPlaced
<1> QED BY <1>1, <1>5, <1>6, <1>7, <1>8, <1>9 DEF PlacementInv, CompletenessHolds

LEMMA FilterKeepsPlacement ==
  ASSUME PlacementInv, PlanFilter PROVE PlacementInv'
<1> DEFINE all == DOMAIN plan.predicate
           pushed_parts == {i \in all : PushesClause(target, plan.predicate[i])}
           residual_parts == {i \in all : ResidualClause(target, plan.predicate[i])}
<1>1. PlannerTypeOK'
  BY PlanFilterType DEF PlacementInv
<1>2. Visit("filter") /\ "filter" \in Operations /\ Order["filter"] < Order["project"]
      /\ Order["filter"] < Order["limit"] /\ "project" \in Operations /\ "limit" \in Operations
  BY DEF PlanFilter, Operations, Order
<1>3. /\ PendingInPlan' /\ VisitsInOrder' /\ Visited("filter")'
      /\ ~ Visited("project")' /\ ~ Visited("limit")' /\ ~ Visited("project") /\ ~ Visited("limit")
  BY <1>2, VisitOrder DEF PlacementInv
<1>4. UNCHANGED <<plan, target, phase>>
  BY <1>2 DEF Visit
<1>5. /\ pushed' = [pushed EXCEPT !.predicate = pushed_parts]
      /\ residual' = [residual EXCEPT !.predicate = residual_parts]
  BY DEF PlanFilter
<1>6. pushed \in PushedOperations /\ residual \in ResidualOperations
  BY DEF PlacementInv, PlannerTypeOK
<1>7. /\ pushed'.predicate = pushed_parts /\ residual'.predicate = residual_parts
      /\ pushed'.projection = pushed.projection /\ residual'.projection = residual.projection
      /\ pushed'.limit = pushed.limit /\ residual'.limit = residual.limit
  <2> HIDE DEF pushed_parts, residual_parts
  <2> QED BY <1>5, <1>6 DEF PushedOperations, ResidualOperations
<1>8. nodes'["filter"] # "rejected" => all = pushed_parts \cup residual_parts
  <2>1. PICK disposition \in Dispositions :
          /\ Explain("filter", disposition, "rejected_engine_unsupported_expression")
          /\ all \ (pushed_parts \cup residual_parts) # {} => disposition = "rejected"
    BY DEF PlanFilter, Dispositions
  <2>2. nodes'["filter"] = disposition
    BY <1>2, <2>1, ExplainOthers DEF PlacementInv
  <2> QED BY <2>1, <2>2
<1>9. FilterPlaced'
  BY <1>3, <1>4, <1>7, <1>8 DEF FilterPlaced
<1>10. ProjectPlaced'
  BY <1>3, <1>7 DEF PlacementInv, ProjectPlaced
<1>11. LimitPlaced'
  BY <1>3, <1>7 DEF PlacementInv, LimitPlaced
<1> QED BY <1>1, <1>3, <1>4, <1>9, <1>10, <1>11 DEF PlacementInv, CompletenessHolds

LEMMA ProjectKeepsPlacement ==
  ASSUME PlacementInv, PlanProject PROVE PlacementInv'
<1>1. PlannerTypeOK'
  BY PlanProjectType DEF PlacementInv
<1>2. Visit("project") /\ "project" \in Operations /\ Order["project"] < Order["limit"]
      /\ "limit" \in Operations /\ "filter" \in Operations \ {"project"}
  BY DEF PlanProject, Operations, Order
<1>3. /\ PendingInPlan' /\ VisitsInOrder' /\ Visited("project")' /\ ~ Visited("project")
      /\ ~ Visited("limit")' /\ ~ Visited("limit") /\ (Visited("filter")' <=> Visited("filter"))
      /\ "project" \in NodesOf(plan)
  BY <1>2, VisitOrder DEF PlacementInv
<1>4. UNCHANGED <<plan, target, phase>>
  BY <1>2 DEF Visit
<1>5. /\ pushed \in PushedOperations /\ residual \in ResidualOperations
      /\ residual.projection = <<>> /\ plan.projection # <<>>
  BY <1>3 DEF PlacementInv, PlannerTypeOK, ProjectPlaced, NodesOf
<1>6. PICK p, r, disposition, code :
        /\ pushed' = [pushed EXCEPT !.projection = p]
        /\ residual' = [residual EXCEPT !.projection = r]
        /\ Explain("project", disposition, code)
        /\ disposition # "rejected" =>
             IF PushesWholeProjection(plan, target.scan, residual.predicate)
             THEN p = output_names(plan.projection) /\ r = <<>>
             ELSE /\ p = IF target.scan.projection # "none"
                         THEN NeededColumns(plan, residual.predicate) ELSE <<>>
                  /\ r = plan.projection
                  /\ target.engine.residual_projection
                  /\ \A i \in DOMAIN plan.projection :
                       EngineSupports(target.engine, plan.projection[i])
  <2>1. CASE PushesWholeProjection(plan, target.scan, residual.predicate)
    <3>1. residual' = [residual EXCEPT !.projection = <<>>]
      BY <1>5, <2>1 DEF PlanProject, PushWholeProjection, ResidualOperations
    <3> QED BY <2>1, <3>1 DEF PlanProject, PushWholeProjection
  <2>2. CASE ~ PushesWholeProjection(plan, target.scan, residual.predicate)
    <3>1. PruneAndProject
      BY <2>2 DEF PlanProject
    <3> DEFINE p == IF target.scan.projection # "none"
                    THEN NeededColumns(plan, residual.predicate) ELSE <<>>
    <3>2. /\ pushed' = [pushed EXCEPT !.projection = p]
          /\ residual' = [residual EXCEPT !.projection = plan.projection]
      BY <3>1 DEF PruneAndProject
    <3>3. \E disposition, code :
            /\ Explain("project", disposition, code)
            /\ disposition # "rejected" =>
                 /\ target.engine.residual_projection
                 /\ \A i \in DOMAIN plan.projection :
                      EngineSupports(target.engine, plan.projection[i])
      <4>1. CASE ~ target.engine.residual_projection
        BY <3>1, <4>1 DEF PruneAndProject
      <4>2. CASE \E i \in DOMAIN plan.projection :
                   ~ EngineSupports(target.engine, plan.projection[i])
        BY <3>1, <4>2 DEF PruneAndProject
      <4>3. CASE /\ target.engine.residual_projection
                 /\ \A i \in DOMAIN plan.projection :
                      EngineSupports(target.engine, plan.projection[i])
        BY <3>1, <4>3 DEF PruneAndProject
      <4> QED BY <4>1, <4>2, <4>3
    <3> HIDE DEF p
    <3> QED BY <2>2, <3>2, <3>3 DEF p
  <2> QED BY <2>1, <2>2
<1>7. /\ pushed'.projection = p /\ residual'.projection = r
      /\ pushed'.predicate = pushed.predicate /\ residual'.predicate = residual.predicate
      /\ pushed'.limit = pushed.limit /\ residual'.limit = residual.limit
  BY <1>5, <1>6 DEF PushedOperations, ResidualOperations
<1>8. nodes'["project"] = disposition /\ nodes'["filter"] = nodes["filter"]
  BY <1>2, <1>6, ExplainOthers DEF PlacementInv
<1>9. disposition # "rejected" =>
        ProjectionProblems(plan, target.scan, target.engine, pushed', residual') = {}
  BY <1>5, <1>6, <1>7 DEF ProjectionProblems
<1>10. ProjectPlaced'
  BY <1>3, <1>4, <1>8, <1>9 DEF ProjectPlaced
<1>11. FilterPlaced'
  BY <1>3, <1>4, <1>7, <1>8 DEF PlacementInv, FilterPlaced
<1>12. LimitPlaced'
  BY <1>3, <1>7 DEF PlacementInv, LimitPlaced
<1> QED BY <1>1, <1>3, <1>4, <1>10, <1>11, <1>12 DEF PlacementInv, CompletenessHolds

LEMMA LimitKeepsPlacement ==
  ASSUME PlacementInv, PlanLimit PROVE PlacementInv'
<1>1. PlannerTypeOK'
  BY PlanLimitType DEF PlacementInv
<1>2. /\ Visit("limit") /\ "limit" \in Operations
      /\ "filter" \in Operations \ {"limit"} /\ "project" \in Operations \ {"limit"}
  BY DEF PlanLimit, Operations
<1>3. /\ PendingInPlan' /\ VisitsInOrder' /\ Visited("limit")' /\ ~ Visited("limit")
      /\ (Visited("project")' <=> Visited("project")) /\ (Visited("filter")' <=> Visited("filter"))
      /\ "limit" \in NodesOf(plan)
  BY <1>2, VisitOrder DEF PlacementInv
<1>4. UNCHANGED <<plan, target, phase>>
  BY <1>2 DEF Visit
<1>5. /\ pushed \in PushedOperations /\ residual \in ResidualOperations /\ target \in Targets
      /\ pushed.limit = NoLimit /\ residual.limit = NoLimit /\ plan.limit # NoLimit
  <2>1. phase # "building"
    BY <1>2 DEF Visit
  <2> QED BY <1>3, <2>1 DEF PlacementInv, PlannerTypeOK, LimitPlaced, NodesOf
<1>6. target.scan.limit \in Support
  BY <1>5, PlannerInputs DEF PlanningTargets, PushdownCapabilities
<1>7. PICK p, r, disposition, code :
        /\ pushed' = [pushed EXCEPT !.limit = p]
        /\ residual' = [residual EXCEPT !.limit = r]
        /\ Explain("limit", disposition, code)
        /\ disposition # "rejected" =>
             /\ p = IF residual.predicate # {} \/ target.scan.limit = "none"
                    THEN NoLimit ELSE plan.limit
             /\ r = IF residual.predicate = {} /\ target.scan.limit = "full"
                    THEN NoLimit ELSE plan.limit
             /\ r # NoLimit => target.engine.residual_limit
  <2>1. pushed = [pushed EXCEPT !.limit = NoLimit] /\ residual = [residual EXCEPT !.limit = NoLimit]
    BY <1>5 DEF PushedOperations, ResidualOperations
  <2>2. CASE residual.predicate # {}
    BY <2>1, <2>2 DEF PlanLimit, LimitInEngine
  <2>3. CASE residual.predicate = {} /\ target.scan.limit = "full"
    BY <2>1, <2>3 DEF PlanLimit
  <2>4. CASE residual.predicate = {} /\ target.scan.limit = "partial"
    BY <2>1, <2>4 DEF PlanLimit, LimitInEngine
  <2>5. CASE residual.predicate = {} /\ target.scan.limit = "none"
    BY <2>1, <2>5 DEF PlanLimit, LimitInEngine
  <2> QED BY <1>6, <2>2, <2>3, <2>4, <2>5 DEF Support
<1>8. /\ pushed'.limit = p /\ residual'.limit = r
      /\ pushed'.predicate = pushed.predicate /\ residual'.predicate = residual.predicate
      /\ pushed'.projection = pushed.projection /\ residual'.projection = residual.projection
  BY <1>5, <1>7 DEF PushedOperations, ResidualOperations
<1>9. /\ nodes'["limit"] = disposition
      /\ nodes'["filter"] = nodes["filter"] /\ nodes'["project"] = nodes["project"]
  BY <1>2, <1>7, ExplainOthers DEF PlacementInv
<1>10. disposition # "rejected" =>
         LimitProblems(plan, target.scan, target.engine, pushed', residual') = {}
  BY <1>5, <1>7, <1>8 DEF LimitProblems
<1>11. LimitPlaced'
  BY <1>3, <1>4, <1>9, <1>10 DEF LimitPlaced
<1>12. FilterPlaced'
  BY <1>3, <1>4, <1>8, <1>9 DEF PlacementInv, FilterPlaced
<1>13. ProjectPlaced'
  <2>1. ProjectionProblems(plan, target.scan, target.engine, pushed', residual')
          = ProjectionProblems(plan, target.scan, target.engine, pushed, residual)
    BY <1>8 DEF ProjectionProblems
  <2> QED BY <1>3, <1>4, <1>8, <1>9, <2>1 DEF PlacementInv, ProjectPlaced
<1> QED BY <1>1, <1>3, <1>4, <1>11, <1>12, <1>13 DEF PlacementInv, CompletenessHolds

(* At the end of the loop nothing is pending, so every node of the plan is *)
(* placed and the three blocks of the check find nothing.                  *)
LEMMA FinishedPlanIsComplete ==
  ASSUME PlacementInv, phase # "building", pending = {}
  PROVE  check_completeness = {}
<1>1. \A op \in NodesOf(plan) : Visited(op)
  BY DEF Visited
<1>2. CASE ~ executable
  BY <1>2 DEF check_completeness, executable
<1>3. CASE executable
  <2>1. /\ nodes["filter"] # "rejected" /\ nodes["project"] # "rejected"
        /\ nodes["limit"] # "rejected"
    BY <1>3 DEF executable, Operations
  <2>2. plan \in QueryPlans /\ target \in Targets
    BY DEF PlacementInv, PlannerTypeOK
  <2>3. PredicateProblems(plan, target.scan, target.engine, pushed, residual) = {}
    <3>1. CASE "filter" \in NodesOf(plan)
      BY <1>1, <2>1, <2>2, <3>1, FilterPlacementIsComplete DEF PlacementInv, FilterPlaced
    <3>2. CASE "filter" \notin NodesOf(plan)
      <4>1. DOMAIN plan.predicate = {}
        BY <3>2 DEF NodesOf, Operations
      <4>2. pushed.predicate = {} /\ residual.predicate = {}
        BY <3>2 DEF PlacementInv, FilterPlaced, Visited
      <4> QED BY <2>2, <4>1, <4>2, FilterPlacementIsComplete
    <3> QED BY <3>1, <3>2
  <2>4. ProjectionProblems(plan, target.scan, target.engine, pushed, residual) = {}
    <3>1. CASE "project" \in NodesOf(plan)
      BY <1>1, <2>1, <3>1 DEF PlacementInv, ProjectPlaced
    <3>2. CASE "project" \notin NodesOf(plan)
      <4>1. plan.projection = <<>>
        BY <3>2 DEF NodesOf, Operations
      <4>2. pushed.projection = <<>> /\ residual.projection = <<>>
        BY <3>2 DEF PlacementInv, ProjectPlaced, Visited
      <4> QED BY <4>1, <4>2 DEF ProjectionProblems
    <3> QED BY <3>1, <3>2
  <2>5. LimitProblems(plan, target.scan, target.engine, pushed, residual) = {}
    <3>1. CASE "limit" \in NodesOf(plan)
      BY <1>1, <2>1, <3>1 DEF PlacementInv, LimitPlaced
    <3>2. CASE "limit" \notin NodesOf(plan)
      <4>1. plan.limit = NoLimit
        BY <3>2 DEF NodesOf, Operations
      <4>2. pushed.limit = NoLimit /\ residual.limit = NoLimit
        BY <3>2 DEF PlacementInv, LimitPlaced, Visited
      <4> QED BY <4>1, <4>2 DEF LimitProblems
    <3> QED BY <3>1, <3>2
  <2> QED BY <1>3, <2>3, <2>4, <2>5 DEF check_completeness, PlacementProblems
<1> QED BY <1>2, <1>3

LEMMA BuildKeepsPlacement ==
  ASSUME PlacementInv, NEW newPlan, Build(newPlan), PlannerTypeOK' PROVE PlacementInv'
<1>1. phase = "building" /\ phase' = "building" /\ UNCHANGED <<pushed, residual>>
  BY DEF Build
<1>2. \A op \in Operations : ~ Visited(op) /\ ~ Visited(op)'
  BY <1>1 DEF Visited
<1>3. {"filter", "project", "limit"} \subseteq Operations
  BY DEF Operations
<1>4. FilterPlaced' /\ ProjectPlaced' /\ LimitPlaced'
  BY <1>1, <1>2, <1>3 DEF PlacementInv, FilterPlaced, ProjectPlaced, LimitPlaced
<1>5. PendingInPlan' /\ VisitsInOrder' /\ CompletenessHolds'
  BY <1>1 DEF PendingInPlan, VisitsInOrder, Visited, CompletenessHolds
<1> QED BY <1>4, <1>5 DEF PlacementInv

LEMMA PlacementInit == PlannerInit => PlacementInv
<1> SUFFICES ASSUME PlannerInit PROVE PlacementInv
  OBVIOUS
<1>1. PlannerTypeOK
  BY PlannerTypeInit
<1>2. PendingInPlan /\ VisitsInOrder /\ CompletenessHolds
  BY DEF PlannerInit, PendingInPlan, VisitsInOrder, Visited, CompletenessHolds
<1>3. FilterPlaced /\ ProjectPlaced /\ LimitPlaced
  BY DEF PlannerInit, NoOperations, FilterPlaced, ProjectPlaced, LimitPlaced, Visited
<1> QED BY <1>1, <1>2, <1>3 DEF PlacementInv

LEMMA PlacementStep == PlacementInv /\ [PlannerNext]_plannerVars => PlacementInv'
<1> SUFFICES ASSUME PlacementInv, [PlannerNext]_plannerVars PROVE PlacementInv'
  OBVIOUS
<1>1. PlannerTypeOK'
  BY PlannerTypeStep DEF PlacementInv
<1>2. ASSUME NEW clauses \in Predicates, Where(clauses) PROVE PlacementInv'
  BY <1>1, <1>2, BuildKeepsPlacement DEF Where
<1>3. ASSUME NEW expressions \in ProjectionChoices, Select(expressions) PROVE PlacementInv'
  BY <1>1, <1>3, BuildKeepsPlacement DEF Select
<1>4. ASSUME NEW count \in LimitChoices, Limit(count) PROVE PlacementInv'
  BY <1>1, <1>4, BuildKeepsPlacement DEF Limit
<1>5. ASSUME NEW t \in Targets, StartPlanning(t) PROVE PlacementInv'
  <2>1. /\ phase = "building" /\ phase' = "planning" /\ pending' = NodesOf(plan)
        /\ UNCHANGED <<plan, nodes, pushed, residual>>
    BY <1>5 DEF StartPlanning
  <2>2. NodesOf(plan)' = NodesOf(plan)
    BY <2>1 DEF NodesOf
  <2>3. \A op \in Operations : ~ Visited(op) /\ ~ Visited(op)'
    BY <2>1, <2>2 DEF Visited
  <2>4. {"filter", "project", "limit"} \subseteq Operations
    BY DEF Operations
  <2>5. FilterPlaced' /\ ProjectPlaced' /\ LimitPlaced'
    BY <2>1, <2>3, <2>4 DEF PlacementInv, FilterPlaced, ProjectPlaced, LimitPlaced
  <2>6. PendingInPlan' /\ VisitsInOrder' /\ CompletenessHolds'
    BY <2>1, <2>2 DEF PendingInPlan, VisitsInOrder, Visited, CompletenessHolds
  <2> QED BY <1>1, <2>5, <2>6 DEF PlacementInv
<1>6. CASE PlanNode
  BY <1>6, ScanKeepsPlacement, FilterKeepsPlacement, ProjectKeepsPlacement, LimitKeepsPlacement
     DEF PlanNode
<1>7. CASE Finish
  <2>1. problems' = {} /\ phase' = "planned" /\ phase = "planning" /\ pending = {}
    BY <1>7, FinishedPlanIsComplete DEF Finish
  <2>2. UNCHANGED <<plan, target, pending, nodes, pushed, residual>>
    BY <1>7 DEF Finish
  <2>3. NodesOf(plan)' = NodesOf(plan)
    BY <2>2 DEF NodesOf
  <2>4. \A op : Visited(op)' <=> Visited(op)
    BY <2>1, <2>2, <2>3 DEF Visited
  <2>5. FilterPlaced' /\ ProjectPlaced' /\ LimitPlaced'
    BY <2>2, <2>4 DEF PlacementInv, FilterPlaced, ProjectPlaced, LimitPlaced
  <2>6. PendingInPlan' /\ VisitsInOrder' /\ CompletenessHolds'
    BY <2>1, <2>2, <2>3, <2>4 DEF PlacementInv, PendingInPlan, VisitsInOrder, CompletenessHolds
  <2> QED BY <1>1, <2>5, <2>6 DEF PlacementInv
<1>8. CASE UNCHANGED plannerVars
  <2>1. UNCHANGED <<phase, plan, target, pending, nodes, pushed, residual>>
    BY <1>8 DEF plannerVars
  <2>2. NodesOf(plan)' = NodesOf(plan)
    BY <2>1 DEF NodesOf
  <2>3. \A op : Visited(op)' <=> Visited(op)
    BY <2>1, <2>2 DEF Visited
  <2>4. FilterPlaced' /\ ProjectPlaced' /\ LimitPlaced'
    BY <2>1, <2>3 DEF PlacementInv, FilterPlaced, ProjectPlaced, LimitPlaced
  <2>5. PendingInPlan' /\ VisitsInOrder' /\ CompletenessHolds'
    BY <2>1, <2>2, <2>3 DEF PlacementInv, PendingInPlan, VisitsInOrder, CompletenessHolds
  <2> QED BY <1>1, <2>4, <2>5 DEF PlacementInv
<1> QED BY <1>2, <1>3, <1>4, <1>5, <1>6, <1>7, <1>8 DEF PlannerNext

(* FF-05 for every plan and every capabilities: the planner's completeness *)
(* assertion is dead code.                                                 *)
THEOREM PlannerIsComplete == PlannerSpec => []CompletenessHolds
<1>1. PlannerInit => PlacementInv
  BY PlacementInit
<1>2. PlacementInv /\ [PlannerNext]_plannerVars => PlacementInv'
  BY PlacementStep
<1>3. PlacementInv => CompletenessHolds
  BY DEF PlacementInv
<1> QED BY <1>1, <1>2, <1>3, PTL DEF PlannerSpec

-----------------------------------------------------------------------------
(* Explanations.  A node's explanation is settled when the loop visits it  *)
(* and no later visit disturbs what it speaks of; for a rejected node the  *)
(* invariant keeps the reason, which later refutes every other split.      *)

SaysWhatRuns(op) ==
  /\ nodes[op] \in {"pushed", "partial"} <=> RunsIn(op, pushed)
  /\ nodes[op] \in {"residual", "partial"} <=> RunsIn(op, residual)

Explained(op, reason) ==
  IF nodes[op] = "rejected" THEN Visited(op) /\ reason
  ELSE Visited(op) => SaysWhatRuns(op)

ScanExplained == nodes["scan"] = "rejected" => Visited("scan") /\ ~ target.reachable

FilterExplained ==
  Explained("filter", DOMAIN plan.predicate # pushed.predicate \cup residual.predicate)

ProjectExplained ==
  Explained("project",
    /\ ~ PushesWholeProjection(plan, target.scan, residual.predicate)
    /\ \/ ~ target.engine.residual_projection
       \/ \E i \in DOMAIN plan.projection : ~ EngineSupports(target.engine, plan.projection[i]))

LimitExplained ==
  Explained("limit",
    /\ ~ target.engine.residual_limit
    /\ residual.predicate # {} \/ target.scan.limit # "full")

LoopFinished == phase = "planned" => pending = {}

ExplainInv ==
  LoopFinished /\ ScanExplained /\ FilterExplained /\ ProjectExplained /\ LimitExplained

LEMMA RunsInPlaces ==
  ASSUME NEW place
  PROVE  /\ RunsIn("filter", place) <=> place.predicate # {}
         /\ RunsIn("project", place) <=> place.projection # <<>>
         /\ RunsIn("limit", place) <=> place.limit # NoLimit
BY DEF RunsIn

LEMMA NonEmptyDomain ==
  ASSUME NEW S, NEW seq \in Seq(S), seq # <<>> PROVE DOMAIN seq # {}
<1>1. Len(seq) \in Nat /\ DOMAIN seq = 1..Len(seq) /\ Len(seq) # 0
  BY EmptySeq, LenProperties
<1> QED BY <1>1

(* A step that leaves a node's visit, explanation, placement and reason    *)
(* alone leaves it explained.                                              *)
LEMMA FilterStaysExplained ==
  ASSUME FilterExplained, Visited("filter")' <=> Visited("filter"),
         nodes'["filter"] = nodes["filter"],
         Visited("filter") =>
           UNCHANGED <<plan.predicate, pushed.predicate, residual.predicate>>
  PROVE  FilterExplained'
BY RunsInPlaces DEF FilterExplained, Explained, SaysWhatRuns

LEMMA ProjectStaysExplained ==
  ASSUME ProjectExplained, Visited("project")' <=> Visited("project"),
         nodes'["project"] = nodes["project"],
         Visited("project") =>
           UNCHANGED <<plan, target, pushed.projection, residual.projection, residual.predicate>>
  PROVE  ProjectExplained'
BY RunsInPlaces DEF ProjectExplained, Explained, SaysWhatRuns

LEMMA LimitStaysExplained ==
  ASSUME LimitExplained, Visited("limit")' <=> Visited("limit"),
         nodes'["limit"] = nodes["limit"],
         Visited("limit") => UNCHANGED <<target, pushed.limit, residual.limit, residual.predicate>>
  PROVE  LimitExplained'
BY RunsInPlaces DEF LimitExplained, Explained, SaysWhatRuns

LEMMA ScanKeepsExplained ==
  ASSUME PlacementInv, ExplainInv, PlanScan PROVE ExplainInv'
<1>1. Visit("scan") /\ UNCHANGED <<pushed, residual>> /\ "scan" \in Operations
  BY DEF PlanScan, Operations
<1>2. \A op \in {"filter", "project", "limit"} : op \in Operations \ {"scan"}
  BY DEF Operations
<1>3. /\ nodes'["scan"] = "rejected" => ~ target.reachable
      /\ \A op \in {"filter", "project", "limit"} : nodes'[op] = nodes[op]
  BY <1>1, <1>2, ExplainOthers DEF PlanScan, PlacementInv
<1>4. Visited("scan")' /\ \A op \in {"filter", "project", "limit"} : Visited(op)' <=> Visited(op)
  BY <1>1, <1>2, VisitOrder DEF PlacementInv
<1>5. UNCHANGED <<plan, target, phase>> /\ phase # "planned"
  BY <1>1 DEF Visit
<1>6. FilterExplained'
  BY <1>1, <1>3, <1>4, <1>5, FilterStaysExplained DEF ExplainInv
<1>7. ProjectExplained'
  BY <1>1, <1>3, <1>4, <1>5, ProjectStaysExplained DEF ExplainInv
<1>8. LimitExplained'
  BY <1>1, <1>3, <1>4, <1>5, LimitStaysExplained DEF ExplainInv
<1> QED BY <1>3, <1>4, <1>5, <1>6, <1>7, <1>8 DEF ExplainInv, LoopFinished, ScanExplained

LEMMA FilterKeepsExplained ==
  ASSUME PlacementInv, ExplainInv, PlanFilter PROVE ExplainInv'
<1> DEFINE all == DOMAIN plan.predicate
           P == {i \in all : PushesClause(target, plan.predicate[i])}
           R == {i \in all : ResidualClause(target, plan.predicate[i])}
<1>1. /\ Visit("filter") /\ "filter" \in Operations /\ Order["filter"] < Order["project"]
      /\ Order["filter"] < Order["limit"]
      /\ {"scan", "project", "limit"} \subseteq Operations \ {"filter"}
  BY DEF PlanFilter, Operations, Order
<1>2. /\ Visited("filter")' /\ "filter" \in NodesOf(plan) /\ (Visited("scan")' <=> Visited("scan"))
      /\ ~ Visited("project")' /\ ~ Visited("limit")' /\ ~ Visited("project") /\ ~ Visited("limit")
  BY <1>1, VisitOrder DEF PlacementInv
<1>3. UNCHANGED <<plan, target, phase>> /\ phase # "planned"
  BY <1>1 DEF Visit
<1>4. pushed'.predicate = P /\ residual'.predicate = R
  <2>1. pushed' = [pushed EXCEPT !.predicate = P] /\ residual' = [residual EXCEPT !.predicate = R]
    BY DEF PlanFilter
  <2> HIDE DEF P, R
  <2> QED BY <2>1 DEF PlacementInv, PlannerTypeOK, PushedOperations, ResidualOperations
<1>5. PICK disposition :
        /\ Explain("filter", disposition, "rejected_engine_unsupported_expression")
        /\ disposition = IF all \ (P \cup R) # {} THEN "rejected"
                         ELSE IF R = {} THEN "pushed"
                         ELSE IF P = {} THEN "residual" ELSE "partial"
  BY DEF PlanFilter
<1>6. /\ nodes'["filter"] = disposition
      /\ \A op \in {"scan", "project", "limit"} : nodes'[op] = nodes[op]
  BY <1>1, <1>5, ExplainOthers DEF PlacementInv
<1>7. all # {}
  <2>1. plan.predicate \in Seq(Clauses) /\ plan.predicate # <<>>
    BY <1>2 DEF PlacementInv, PlannerTypeOK, QueryPlans, NodesOf
  <2> QED BY <2>1, NonEmptyDomain
<1>8. P \in SUBSET all /\ R \in SUBSET all
  OBVIOUS
<1>9. FilterExplained'
  <2> HIDE DEF P, R, all
  <2>1. CASE all \ (P \cup R) # {}
    <3>1. disposition = "rejected" /\ all # P \cup R
      BY <1>5, <2>1
    <3>2. (DOMAIN plan.predicate # pushed.predicate \cup residual.predicate)'
      BY <1>3, <1>4, <3>1 DEF all
    <3> QED BY <1>2, <1>6, <3>1, <3>2 DEF FilterExplained, Explained
  <2>2. CASE all \ (P \cup R) = {}
    <3>1. disposition # "rejected"
      BY <1>5, <2>2
    <3>2. /\ disposition \in {"pushed", "partial"} <=> P # {}
          /\ disposition \in {"residual", "partial"} <=> R # {}
      BY <1>5, <1>7, <1>8, <2>2
    <3>3. SaysWhatRuns("filter")'
      BY <1>4, <1>6, <3>2, RunsInPlaces DEF SaysWhatRuns
    <3> QED BY <1>6, <3>1, <3>3 DEF FilterExplained, Explained
  <2> QED BY <2>1, <2>2
<1>10. ProjectExplained'
  BY <1>2, <1>6, ProjectStaysExplained DEF ExplainInv
<1>11. LimitExplained'
  BY <1>2, <1>6, LimitStaysExplained DEF ExplainInv
<1> QED BY <1>2, <1>3, <1>6, <1>9, <1>10, <1>11 DEF ExplainInv, LoopFinished, ScanExplained

LEMMA ProjectKeepsExplained ==
  ASSUME PlacementInv, ExplainInv, PlanProject PROVE ExplainInv'
<1>1. /\ Visit("project") /\ "project" \in Operations /\ Order["project"] < Order["limit"]
      /\ {"scan", "filter", "limit"} \subseteq Operations \ {"project"}
  BY DEF PlanProject, Operations, Order
<1>2. /\ Visited("project")' /\ "project" \in NodesOf(plan) /\ ~ Visited("project")
      /\ ~ Visited("limit")' /\ ~ Visited("limit")
      /\ (Visited("scan")' <=> Visited("scan")) /\ (Visited("filter")' <=> Visited("filter"))
  BY <1>1, VisitOrder DEF PlacementInv
<1>3. UNCHANGED <<plan, target, phase>> /\ phase # "planned"
  BY <1>1 DEF Visit
<1>4. /\ pushed \in PushedOperations /\ residual \in ResidualOperations
      /\ residual.projection = <<>> /\ plan.projection # <<>> /\ plan.projection \in Projections
  BY <1>2 DEF PlacementInv, PlannerTypeOK, ProjectPlaced, NodesOf, QueryPlans
<1> DEFINE unsupported == \E i \in DOMAIN plan.projection :
                            ~ EngineSupports(target.engine, plan.projection[i])
           whole == PushesWholeProjection(plan, target.scan, residual.predicate)
<1>5. PICK p, r, disposition, code :
        /\ pushed' = [pushed EXCEPT !.projection = p]
        /\ residual' = [residual EXCEPT !.projection = r]
        /\ Explain("project", disposition, code)
        /\ disposition = "rejected" => ~ whole /\ (~ target.engine.residual_projection \/ unsupported)
        /\ disposition # "rejected" =>
             /\ disposition \in {"pushed", "partial"} <=> p # <<>>
             /\ disposition \in {"residual", "partial"} <=> r # <<>>
  <2>1. CASE whole
    <3>1. /\ pushed' = [pushed EXCEPT !.projection = output_names(plan.projection)]
          /\ Explain("project", "pushed", "pushdown_full")
          /\ residual' = [residual EXCEPT !.projection = <<>>]
      BY <1>4, <2>1 DEF PlanProject, PushWholeProjection, ResidualOperations
    <3>2. output_names(plan.projection) # <<>>
      <4>1. DOMAIN plan.projection # {}
        BY <1>4, NonEmptyDomain DEF Projections
      <4>2. DOMAIN output_names(plan.projection) = DOMAIN plan.projection /\ DOMAIN <<>> = {}
        BY DEF output_names
      <4> QED BY <4>1, <4>2
    <3> DEFINE names == output_names(plan.projection)
    <3> HIDE DEF unsupported, whole, names
    <3>3. pushed' = [pushed EXCEPT !.projection = names] /\ names # <<>>
      BY <3>1, <3>2 DEF names
    <3> WITNESS names, <<>>, "pushed", "pushdown_full"
    <3> QED BY <2>1, <3>1, <3>3
  <2>2. CASE ~ whole
    <3>1. PruneAndProject
      BY <2>2 DEF PlanProject
    <3> DEFINE p == IF target.scan.projection # "none"
                    THEN NeededColumns(plan, residual.predicate) ELSE <<>>
    <3>2. /\ pushed' = [pushed EXCEPT !.projection = p]
          /\ residual' = [residual EXCEPT !.projection = plan.projection]
      BY <3>1 DEF PruneAndProject
    <3>3. CASE ~ target.engine.residual_projection \/ unsupported
      <4>1. PICK code : Explain("project", "rejected", code)
        BY <3>1, <3>3 DEF PruneAndProject
      <4> HIDE DEF p, unsupported, whole
      <4> QED BY <2>2, <3>2, <3>3, <4>1
    <3>4. CASE target.engine.residual_projection /\ ~ unsupported
      <4>1. Explain("project", IF p = <<>> THEN "residual" ELSE "partial",
                    "residual_computed_projection")
        BY <3>1, <3>4 DEF PruneAndProject
      <4> HIDE DEF p, unsupported, whole
      <4> QED BY <1>4, <3>2, <4>1
    <3> QED BY <3>3, <3>4
  <2> QED BY <2>1, <2>2
<1>6. /\ pushed'.projection = p /\ residual'.projection = r
      /\ pushed'.predicate = pushed.predicate /\ residual'.predicate = residual.predicate
  BY <1>4, <1>5 DEF PushedOperations, ResidualOperations
<1>7. /\ nodes'["project"] = disposition
      /\ \A op \in {"scan", "filter", "limit"} : nodes'[op] = nodes[op]
  BY <1>1, <1>5, ExplainOthers DEF PlacementInv
<1>8. ProjectExplained'
  <2>1. CASE disposition = "rejected"
    <3>1. (/\ ~ PushesWholeProjection(plan, target.scan, residual.predicate)
           /\ \/ ~ target.engine.residual_projection
              \/ \E i \in DOMAIN plan.projection :
                   ~ EngineSupports(target.engine, plan.projection[i]))'
      BY <1>3, <1>5, <1>6, <2>1
    <3> QED BY <1>2, <1>7, <2>1, <3>1 DEF ProjectExplained, Explained
  <2>2. CASE disposition # "rejected"
    <3>1. SaysWhatRuns("project")'
      BY <1>5, <1>6, <1>7, <2>2, RunsInPlaces DEF SaysWhatRuns
    <3> QED BY <1>7, <2>2, <3>1 DEF ProjectExplained, Explained
  <2> QED BY <2>1, <2>2
<1>9. FilterExplained'
  BY <1>2, <1>3, <1>6, <1>7, FilterStaysExplained DEF ExplainInv
<1>10. LimitExplained'
  BY <1>2, <1>7, LimitStaysExplained DEF ExplainInv
<1> QED BY <1>2, <1>3, <1>7, <1>8, <1>9, <1>10 DEF ExplainInv, LoopFinished, ScanExplained

LEMMA LimitKeepsExplained ==
  ASSUME PlacementInv, ExplainInv, PlanLimit PROVE ExplainInv'
<1>1. /\ Visit("limit") /\ "limit" \in Operations
      /\ {"scan", "filter", "project"} \subseteq Operations \ {"limit"}
  BY DEF PlanLimit, Operations
<1>2. /\ Visited("limit")' /\ "limit" \in NodesOf(plan) /\ ~ Visited("limit")
      /\ (Visited("scan")' <=> Visited("scan")) /\ (Visited("filter")' <=> Visited("filter"))
      /\ (Visited("project")' <=> Visited("project"))
  BY <1>1, VisitOrder DEF PlacementInv
<1>3. UNCHANGED <<plan, target, phase>> /\ phase # "planned"
  BY <1>1 DEF Visit
<1>4. /\ pushed \in PushedOperations /\ residual \in ResidualOperations
      /\ pushed.limit = NoLimit /\ residual.limit = NoLimit /\ plan.limit # NoLimit
  BY <1>2 DEF PlacementInv, PlannerTypeOK, LimitPlaced, NodesOf
<1>5. PICK p, r, disposition, code :
        /\ pushed' = [pushed EXCEPT !.limit = p]
        /\ residual' = [residual EXCEPT !.limit = r]
        /\ Explain("limit", disposition, code)
        /\ disposition = "rejected" =>
             /\ ~ target.engine.residual_limit
             /\ residual.predicate # {} \/ target.scan.limit # "full"
        /\ disposition # "rejected" =>
             /\ disposition \in {"pushed", "partial"} <=> p # NoLimit
             /\ disposition \in {"residual", "partial"} <=> r # NoLimit
  <2>1. pushed = [pushed EXCEPT !.limit = NoLimit] /\ residual = [residual EXCEPT !.limit = NoLimit]
    BY <1>4 DEF PushedOperations, ResidualOperations
  <2>2. CASE residual.predicate = {} /\ target.scan.limit = "full"
    BY <1>4, <2>1, <2>2 DEF PlanLimit
  <2>3. CASE residual.predicate # {} \/ target.scan.limit # "full"
    <3>1. PICK alsoPushed : LimitInEngine(alsoPushed)
      BY <2>3 DEF PlanLimit
    <3>2. CASE target.engine.residual_limit
      BY <1>4, <2>1, <3>1, <3>2 DEF LimitInEngine
    <3>3. CASE ~ target.engine.residual_limit
      BY <2>1, <2>3, <3>1, <3>3 DEF LimitInEngine
    <3> QED BY <3>2, <3>3
  <2> QED BY <2>2, <2>3
<1>6. /\ pushed'.limit = p /\ residual'.limit = r
      /\ pushed'.predicate = pushed.predicate /\ residual'.predicate = residual.predicate
      /\ pushed'.projection = pushed.projection /\ residual'.projection = residual.projection
  BY <1>4, <1>5 DEF PushedOperations, ResidualOperations
<1>7. /\ nodes'["limit"] = disposition
      /\ \A op \in {"scan", "filter", "project"} : nodes'[op] = nodes[op]
  BY <1>1, <1>5, ExplainOthers DEF PlacementInv
<1>8. LimitExplained'
  <2>1. CASE disposition = "rejected"
    BY <1>2, <1>3, <1>5, <1>6, <1>7, <2>1 DEF LimitExplained, Explained
  <2>2. CASE disposition # "rejected"
    <3>1. SaysWhatRuns("limit")'
      BY <1>5, <1>6, <1>7, <2>2, RunsInPlaces DEF SaysWhatRuns
    <3> QED BY <1>7, <2>2, <3>1 DEF LimitExplained, Explained
  <2> QED BY <2>1, <2>2
<1>9. FilterExplained'
  BY <1>2, <1>3, <1>6, <1>7, FilterStaysExplained DEF ExplainInv
<1>10. ProjectExplained'
  BY <1>2, <1>3, <1>6, <1>7, ProjectStaysExplained DEF ExplainInv
<1> QED BY <1>2, <1>3, <1>7, <1>8, <1>9, <1>10 DEF ExplainInv, LoopFinished, ScanExplained

LEMMA ExplainInit == PlannerInit => ExplainInv
<1> SUFFICES ASSUME PlannerInit PROVE ExplainInv
  OBVIOUS
<1>1. \A op \in Operations : nodes[op] # "rejected" /\ ~ Visited(op)
  BY DEF PlannerInit, Unplanned, Visited
<1>2. {"scan", "filter", "project", "limit"} \subseteq Operations
  BY DEF Operations
<1>3. LoopFinished
  BY DEF PlannerInit, LoopFinished
<1> QED BY <1>1, <1>2, <1>3
        DEF ExplainInv, ScanExplained, FilterExplained, ProjectExplained, LimitExplained, Explained

(* While no node is visited there is nothing to explain.                   *)
LEMMA NothingVisited ==
  ASSUME ExplainInv, nodes' = nodes, phase' # "planned",
         \A op \in {"scan", "filter", "project", "limit"} : ~ Visited(op) /\ ~ Visited(op)'
  PROVE  ExplainInv'
BY DEF ExplainInv, LoopFinished, ScanExplained, FilterExplained, ProjectExplained, LimitExplained,
       Explained

LEMMA ExplainStep ==
  PlacementInv /\ ExplainInv /\ [PlannerNext]_plannerVars => ExplainInv'
<1> SUFFICES ASSUME PlacementInv, ExplainInv, [PlannerNext]_plannerVars PROVE ExplainInv'
  OBVIOUS
<1>1. {"scan", "filter", "project", "limit"} \subseteq Operations
  BY DEF Operations
<1>2. ASSUME nodes' = nodes, phase = "building", phase' # "planned",
             pending' = NodesOf(plan)' \/ phase' = "building"
      PROVE  ExplainInv'
  <2>1. \A op \in Operations : ~ Visited(op) /\ ~ Visited(op)'
    BY <1>2 DEF Visited
  <2> QED BY <1>1, <1>2, <2>1, NothingVisited
<1>3. ASSUME NEW newPlan, Build(newPlan) PROVE ExplainInv'
  BY <1>2, <1>3 DEF Build
<1>4. ASSUME \A op \in Operations : Visited(op)' <=> Visited(op),
             UNCHANGED <<plan, target, nodes, pushed, residual>>, LoopFinished'
      PROVE  ExplainInv'
  BY <1>1, <1>4, FilterStaysExplained, ProjectStaysExplained, LimitStaysExplained
     DEF ExplainInv, ScanExplained
<1>5. ASSUME NEW clauses \in Predicates, Where(clauses) PROVE ExplainInv'
  BY <1>3, <1>5 DEF Where
<1>6. ASSUME NEW expressions \in ProjectionChoices, Select(expressions) PROVE ExplainInv'
  BY <1>3, <1>6 DEF Select
<1>7. ASSUME NEW count \in LimitChoices, Limit(count) PROVE ExplainInv'
  BY <1>3, <1>7 DEF Limit
<1>8. ASSUME NEW t \in Targets, StartPlanning(t) PROVE ExplainInv'
  <2>1. NodesOf(plan)' = NodesOf(plan)
    BY <1>8 DEF StartPlanning, NodesOf
  <2> QED BY <1>2, <1>8, <2>1 DEF StartPlanning
<1>9. CASE PlanNode
  BY <1>9, ScanKeepsExplained, FilterKeepsExplained, ProjectKeepsExplained, LimitKeepsExplained
     DEF PlanNode
<1>10. CASE Finish
  <2>1. /\ phase = "planning" /\ phase' # "building" /\ pending = {}
        /\ UNCHANGED <<plan, target, pending, nodes, pushed, residual>>
    BY <1>10 DEF Finish
  <2>2. NodesOf(plan)' = NodesOf(plan)
    BY <2>1 DEF NodesOf
  <2>3. (\A op \in Operations : Visited(op)' <=> Visited(op)) /\ LoopFinished'
    BY <2>1, <2>2 DEF Visited, LoopFinished
  <2> QED BY <1>4, <2>1, <2>3
<1>11. CASE UNCHANGED plannerVars
  <2>1. UNCHANGED <<phase, plan, target, pending, nodes, pushed, residual>>
    BY <1>11 DEF plannerVars
  <2>2. NodesOf(plan)' = NodesOf(plan)
    BY <2>1 DEF NodesOf
  <2>3. (\A op \in Operations : Visited(op)' <=> Visited(op)) /\ LoopFinished'
    BY <2>1, <2>2 DEF Visited, LoopFinished, ExplainInv
  <2> QED BY <1>4, <2>1, <2>3
<1> QED BY <1>5, <1>6, <1>7, <1>8, <1>9, <1>10, <1>11 DEF PlannerNext

LEMMA AcceptedSplit ==
  ASSUME NEW aPlan \in QueryPlans, NEW t \in Targets,
         NEW inScan, NEW inEngine,
         inScan.predicate \in SUBSET DOMAIN aPlan.predicate,
         inEngine.predicate \in SUBSET DOMAIN aPlan.predicate,
         PredicateProblems(aPlan, t.scan, t.engine, inScan, inEngine) = {},
         NEW i \in DOMAIN aPlan.predicate
  PROVE  /\ PushesClause(t, aPlan.predicate[i]) \/ ResidualClause(t, aPlan.predicate[i])
         /\ ResidualClause(t, aPlan.predicate[i]) =>
              \E j \in inEngine.predicate : aPlan.predicate[j] = aPlan.predicate[i]
<1> DEFINE all == DOMAIN aPlan.predicate
           P == inScan.predicate
           R == inEngine.predicate
           c == aPlan.predicate[i]
<1>1. t.scan.predicate \in Support
  BY PlannerInputs DEF PlanningTargets, PushdownCapabilities
<1>2. /\ Count(aPlan, all, c) \in Nat /\ Count(aPlan, P, c) \in Nat /\ Count(aPlan, R, c) \in Nat
      /\ Count(aPlan, all, c) # 0
      /\ Count(aPlan, P, c) # 0 => \E j \in P : aPlan.predicate[j] = c
      /\ Count(aPlan, R, c) # 0 => \E j \in R : aPlan.predicate[j] = c
  <2>1. all \in SUBSET DOMAIN aPlan.predicate
    OBVIOUS
  <2> HIDE DEF P, R
  <2> QED BY <2>1, CountOfSubset DEF P, R
<1>3. (\E j \in P : aPlan.predicate[j] = c) => t.scan.predicate # "none" /\ ScanSupports(t.scan, c)
  BY DEF PredicateProblems, ClausesAt
<1>4. (\E j \in R : aPlan.predicate[j] = c) => EngineSupports(t.engine, c)
  BY DEF PredicateProblems, ClausesAt
<1>5. c \in ClausesAt(aPlan, all \cup P \cup R)
  BY DEF ClausesAt
<1>6. t.scan.predicate = "partial" => Count(aPlan, R, c) = Count(aPlan, all, c)
  BY <1>5 DEF PredicateProblems
<1>7. t.scan.predicate # "partial" =>
        Count(aPlan, P, c) + Count(aPlan, R, c) = Count(aPlan, all, c)
  BY <1>5 DEF PredicateProblems
<1> HIDE DEF P, R, c, all
<1>8. CASE t.scan.predicate = "partial"
  <2>1. \E j \in R : aPlan.predicate[j] = c
    BY <1>2, <1>6, <1>8
  <2>2. ResidualClause(t, c)
    BY <1>4, <1>8, <2>1 DEF ResidualClause
  <2> QED BY <2>1, <2>2 DEF R, c
<1>9. CASE t.scan.predicate # "partial" /\ Count(aPlan, R, c) # 0
  <2>1. \E j \in R : aPlan.predicate[j] = c
    BY <1>2, <1>9
  <2>2. PushesClause(t, c) \/ ResidualClause(t, c)
    BY <1>4, <1>9, <2>1 DEF PushesClause, ResidualClause
  <2> QED BY <2>1, <2>2 DEF R, c
<1>10. CASE t.scan.predicate # "partial" /\ Count(aPlan, R, c) = 0
  <2>1. \E j \in P : aPlan.predicate[j] = c
    BY <1>2, <1>7, <1>10
  <2>2. PushesClause(t, c) /\ ~ ResidualClause(t, c)
    BY <1>1, <1>3, <1>10, <2>1 DEF PushesClause, ResidualClause, Support
  <2> QED BY <2>2 DEF c
<1> QED BY <1>8, <1>9, <1>10

LEMMA EngineColumnIsNeeded ==
  ASSUME NEW aPlan \in QueryPlans, NEW A \in SUBSET DOMAIN aPlan.predicate,
         NEW i \in A, NEW j \in DOMAIN aPlan.predicate[i].columns
  PROVE  \E k \in DOMAIN NeededColumns(aPlan, A) :
           NeededColumns(aPlan, A)[k] = aPlan.predicate[i].columns[j]
<1> DEFINE c == aPlan.predicate[i].columns[j]
<1>1. \/ \E m \in DOMAIN aPlan.projection :
           \E n \in DOMAIN aPlan.projection[m].columns : aPlan.projection[m].columns[n] = c
      \/ \E m \in A \cap DOMAIN aPlan.predicate :
           \E n \in DOMAIN aPlan.predicate[m].columns : aPlan.predicate[m].columns[n] = c
  OBVIOUS
<1>2. aPlan.predicate[i].columns[j] = c
  OBVIOUS
<1> HIDE DEF c
<1>3. \E k \in DOMAIN NeededColumns(aPlan, A) : NeededColumns(aPlan, A)[k] = c
  BY <1>1, NeededColumnsComplete
<1> QED BY <1>2, <1>3

(* Whatever the engine is given of the predicate, a projection that some   *)
(* accepted split runs in the scan alone is one the loop runs there too.   *)
LEMMA WholeProjectionIsKept ==
  ASSUME NEW aPlan \in QueryPlans, NEW t, NEW A \in SUBSET DOMAIN aPlan.predicate,
         NEW B \in SUBSET DOMAIN aPlan.predicate,
         \A i \in B : \E j \in A : aPlan.predicate[j] = aPlan.predicate[i],
         PushesWholeProjection(aPlan, t.scan, A)
  PROVE  PushesWholeProjection(aPlan, t.scan, B)
<1>1. PureColumns(aPlan) /\ NeededColumns(aPlan, A) = output_names(aPlan.projection)
  BY DEF PushesWholeProjection
<1>2. ASSUME NEW i \in A, NEW j \in DOMAIN aPlan.predicate[i].columns
      PROVE  \E k \in DOMAIN aPlan.projection : aPlan.predicate[i].columns[j] = aPlan.projection[k].name
  <2>1. \E k \in DOMAIN NeededColumns(aPlan, A) :
          NeededColumns(aPlan, A)[k] = aPlan.predicate[i].columns[j]
    BY EngineColumnIsNeeded
  <2> QED BY <1>1, <2>1 DEF output_names
<1>3. \A i \in A \cup B : \A j \in DOMAIN aPlan.predicate[i].columns :
        \E k \in DOMAIN aPlan.projection : aPlan.predicate[i].columns[j] = aPlan.projection[k].name
  <2> SUFFICES ASSUME NEW i \in A \cup B, NEW j \in DOMAIN aPlan.predicate[i].columns
               PROVE  \E k \in DOMAIN aPlan.projection :
                        aPlan.predicate[i].columns[j] = aPlan.projection[k].name
    OBVIOUS
  <2>1. PICK m \in A : aPlan.predicate[m] = aPlan.predicate[i]
    OBVIOUS
  <2>2. j \in DOMAIN aPlan.predicate[m].columns
    BY <2>1
  <2> QED BY <1>2, <2>1, <2>2
<1>4. NeededColumns(aPlan, A) = NeededColumns(aPlan, B)
  BY <1>1, <1>3, PureProjectionNeedsItself
<1> QED BY <1>1, <1>4 DEF PushesWholeProjection

(* The reason kept for a rejected node refutes every split: none that the  *)
(* completeness check would accept exists.  A split is what the scan and   *)
(* the engine run of the predicate, of the projection and of the limit.    *)
LEMMA NoSplitRemains ==
  ASSUME PlacementInv, ExplainInv, phase # "building", ~ executable, nodes["scan"] # "rejected",
         NEW inScan, inScan.predicate \in SUBSET DOMAIN plan.predicate,
         NEW inEngine, inEngine.predicate \in SUBSET DOMAIN plan.predicate,
         PredicateProblems(plan, target.scan, target.engine, inScan, inEngine) = {},
         NEW pruned, NEW projecting, projecting.predicate = inEngine.predicate,
         ProjectionProblems(plan, target.scan, target.engine, pruned, projecting) = {},
         NEW limited, NEW limiting, limiting.predicate = inEngine.predicate,
         LimitProblems(plan, target.scan, target.engine, limited, limiting) = {}
  PROVE  FALSE
<1>1. plan \in QueryPlans /\ target \in Targets
  BY DEF PlacementInv, PlannerTypeOK
<1>2. ASSUME NEW i \in DOMAIN plan.predicate
      PROVE  /\ PushesClause(target, plan.predicate[i]) \/ ResidualClause(target, plan.predicate[i])
             /\ ResidualClause(target, plan.predicate[i]) =>
                  \E j \in inEngine.predicate : plan.predicate[j] = plan.predicate[i]
  BY <1>1, AcceptedSplit
<1>3. inEngine.predicate \in SUBSET DOMAIN plan.predicate
  OBVIOUS
<1>4. /\ residual.predicate \in SUBSET DOMAIN plan.predicate
      /\ \A i \in residual.predicate : ResidualClause(target, plan.predicate[i])
  BY DEF PlacementInv, FilterPlaced
<1>5. \A i \in residual.predicate :
        \E j \in inEngine.predicate : plan.predicate[j] = plan.predicate[i]
  BY <1>2, <1>4
<1>6. CASE nodes["filter"] = "rejected"
  <2>1. Visited("filter") /\ DOMAIN plan.predicate # pushed.predicate \cup residual.predicate
    BY <1>6 DEF ExplainInv, FilterExplained, Explained
  <2>2. /\ pushed.predicate = {i \in DOMAIN plan.predicate : PushesClause(target, plan.predicate[i])}
        /\ residual.predicate =
             {i \in DOMAIN plan.predicate : ResidualClause(target, plan.predicate[i])}
    BY <2>1 DEF PlacementInv, FilterPlaced
  <2> QED BY <1>2, <2>1, <2>2
<1>7. CASE nodes["project"] = "rejected"
  <2>1. /\ "project" \in NodesOf(plan)
        /\ ~ PushesWholeProjection(plan, target.scan, residual.predicate)
        /\ \/ ~ target.engine.residual_projection
           \/ \E i \in DOMAIN plan.projection : ~ EngineSupports(target.engine, plan.projection[i])
    BY <1>7 DEF ExplainInv, ProjectExplained, Explained, Visited
  <2>2. ~ PushesWholeProjection(plan, target.scan, inEngine.predicate)
    BY <1>1, <1>3, <1>4, <1>5, <2>1, WholeProjectionIsKept
  <2>3. plan.projection # <<>>
    BY <2>1 DEF NodesOf
  <2>4. projecting.projection = plan.projection
    BY <2>2, <2>3 DEF ProjectionProblems
  <2> QED BY <2>1, <2>3, <2>4 DEF ProjectionProblems
<1>8. CASE nodes["limit"] = "rejected"
  <2>1. /\ "limit" \in NodesOf(plan) /\ ~ target.engine.residual_limit
        /\ residual.predicate # {} \/ target.scan.limit # "full"
    BY <1>8 DEF ExplainInv, LimitExplained, Explained, Visited
  <2>2. inEngine.predicate # {} \/ target.scan.limit # "full"
    BY <1>5, <2>1
  <2>3. plan.limit # NoLimit
    BY <2>1 DEF NodesOf
  <2>4. limiting.limit = plan.limit
    BY <2>2, <2>3 DEF LimitProblems
  <2> QED BY <2>1, <2>3, <2>4 DEF LimitProblems
<1> QED BY <1>6, <1>7, <1>8 DEF executable, Operations

LEMMA PlacementExplained == PlannerSpec => [](PlacementInv /\ ExplainInv)
<1>1. PlannerInit => PlacementInv /\ ExplainInv
  BY PlacementInit, ExplainInit
<1>2. (PlacementInv /\ ExplainInv) /\ [PlannerNext]_plannerVars => (PlacementInv /\ ExplainInv)'
  BY PlacementStep, ExplainStep
<1> QED BY <1>1, <1>2, PTL DEF PlannerSpec

(* What explain says of a node of an executable plan is what the execution *)
(* plan runs, in the scan and in the engine, for every plan and every pair *)
(* of capabilities.                                                        *)
THEOREM PlannerExplainsTruthfully == PlannerSpec => []ExplainIsTruthful
<1>1. PlacementInv /\ ExplainInv => ExplainIsTruthful
  <2> SUFFICES ASSUME PlacementInv, ExplainInv, phase = "planned", executable,
                      NEW op \in NodesOf(plan) \ {"scan"}
               PROVE  /\ nodes[op] \in {"pushed", "partial"} <=> RunsIn(op, pushed)
                      /\ nodes[op] \in {"residual", "partial"} <=> RunsIn(op, residual)
    BY DEF ExplainIsTruthful
  <2>1. Visited(op) /\ nodes[op] # "rejected"
    BY DEF ExplainInv, LoopFinished, Visited, executable, NodesOf
  <2>2. op \in {"filter", "project", "limit"}
    BY DEF NodesOf, Operations
  <2>3. SaysWhatRuns(op)
    BY <2>1, <2>2 DEF ExplainInv, FilterExplained, ProjectExplained, LimitExplained, Explained
  <2> QED BY <2>3 DEF SaysWhatRuns
<1> QED BY <1>1, PlacementExplained, PTL

(* A plan is refused only where every split of it between the scan and the *)
(* engine would fail the completeness check: deciding node by node loses   *)
(* no executable placement, for every plan and every pair of capabilities. *)
THEOREM PlannerRejectsOnlyTheImpossible == PlannerSpec => []RejectsOnlyTheImpossible
<1>1. PlacementInv /\ ExplainInv => RejectsOnlyTheImpossible
  <2> SUFFICES ASSUME PlacementInv, ExplainInv, phase = "planned", ~ executable, target.reachable,
                      NEW inScan \in SUBSET DOMAIN plan.predicate,
                      NEW inEngine \in SUBSET DOMAIN plan.predicate, NEW p, NEW r, NEW m, NEW n,
                      PredicateProblems(plan, target.scan, target.engine,
                                        [pushed EXCEPT !.predicate = inScan],
                                        [residual EXCEPT !.predicate = inEngine]) = {},
                      ProjectionProblems(plan, target.scan, target.engine,
                                         [pushed EXCEPT !.projection = p],
                                         [residual EXCEPT !.projection = r, !.predicate = inEngine])
                        = {},
                      LimitProblems(plan, target.scan, target.engine,
                                    [pushed EXCEPT !.limit = m],
                                    [residual EXCEPT !.limit = n, !.predicate = inEngine]) = {}
               PROVE  FALSE
    BY DEF RejectsOnlyTheImpossible
  <2> DEFINE filtered == [pushed EXCEPT !.predicate = inScan]
             filtering == [residual EXCEPT !.predicate = inEngine]
             projecting == [residual EXCEPT !.projection = r, !.predicate = inEngine]
             limiting == [residual EXCEPT !.limit = n, !.predicate = inEngine]
  <2>1. pushed \in PushedOperations /\ residual \in ResidualOperations
    BY DEF PlacementInv, PlannerTypeOK
  <2>2. /\ filtered.predicate = inScan /\ filtering.predicate = inEngine
        /\ projecting.predicate = inEngine /\ limiting.predicate = inEngine
    BY <2>1 DEF PushedOperations, ResidualOperations
  <2>3. /\ PredicateProblems(plan, target.scan, target.engine, filtered, filtering) = {}
        /\ ProjectionProblems(plan, target.scan, target.engine,
                              [pushed EXCEPT !.projection = p], projecting) = {}
        /\ LimitProblems(plan, target.scan, target.engine, [pushed EXCEPT !.limit = m], limiting)
             = {}
    OBVIOUS
  <2> HIDE DEF filtered, filtering, projecting, limiting
  <2>4. /\ filtered.predicate \in SUBSET DOMAIN plan.predicate
        /\ filtering.predicate \in SUBSET DOMAIN plan.predicate
        /\ projecting.predicate = filtering.predicate /\ limiting.predicate = filtering.predicate
    BY <2>2
  <2>5. nodes["scan"] # "rejected"
    BY DEF ExplainInv, ScanExplained
  <2> QED BY <2>3, <2>4, <2>5, NoSplitRemains
<1> QED BY <1>1, PlacementExplained, PTL

=============================================================================
