--------------------------- MODULE XmlReaderProofs ---------------------------
(***************************************************************************)
(* What the XML reader returns and what it keeps in memory, for every      *)
(* document, limit and batch size; and that the types inferred from rows   *)
(* hold their values, for rows of every shape.                             *)
(*                                                                         *)
(* The recursive operators of XmlScan are, at one level, the operators of  *)
(* XmlReader.  Here they are functions on a family V of sets of values:    *)
(* whatever functions compute a level from the next in that way.           *)
(***************************************************************************)
EXTENDS XmlReader, FiniteSetTheorems, SequenceTheorems, WellFoundedInduction, TLAPS

Returned == output \cup buffer

(* The stack is the path to the parser's place, and what starts next       *)
(* starts on it.                                                           *)
PathInv ==
  /\ stack \in Seq(1 .. started)
  /\ \A i, j \in 1 .. Len(stack) : i < j => stack[i] < stack[j]
  /\ \A i \in 1 .. Len(stack) : stack[i] = started \/ stack[i] \in Ancestors(started)
  /\ pc \in {"start", "parsing"} /\ started + 1 \in Elements =>
       Ancestors(started + 1) \subseteq ToSet(stack)

(* The open row is the outermost element on the path with the row tag, and *)
(* a row that is handed over is off the path.                              *)
RowInv ==
  /\ Inside => row = 0 /\ stack[row_depth] \in RowElements
  /\ ~ Inside => \A i \in 1 .. Len(stack) : tree[stack[i]].tag # RowTag
  /\ row # 0 => \A i \in 1 .. Len(stack) : stack[i] < row

(* While the document is read, all rows that have started are returned     *)
(* but the open one.                                                       *)
ReturnedInv ==
  /\ FirstRows(output) /\ FirstRows(Returned)
  /\ pc = "start" => started = 0
  /\ pc \in {"start", "parsing"} =>
       Returned = {n \in RowElements : n <= started /\ ~ (Inside /\ n = stack[row_depth])}

CountInv ==
  /\ pc = "parsing" /\ pushed.limit # NoLimit =>
       Cardinality(Returned) < pushed.limit + (IF row = 0 THEN 0 ELSE 1)
  /\ pc = "ended" => Cardinality(Returned) = RowsAskedFor
  /\ pc = "done" => Cardinality(output) = RowsAskedFor

ReaderInv ==
  /\ IsDocument /\ pushed.limit \in Nat \cup {NoLimit}
  /\ TypeOK /\ PathInv /\ RowInv /\ ReturnedInv /\ CountInv /\ OneRowInMemory

-----------------------------------------------------------------------------
(* Documents.                                                              *)

LEMMA ParentsComeFirst ==
  ASSUME IsDocument
  PROVE  /\ Len(tree) \in Nat \ {0} /\ Elements = 1 .. Len(tree)
         /\ \A n \in 2 .. Len(tree) : tree[n].parent \in 1 .. n - 1 /\ tree[n].parent \in Ancestors(n)
<1>1. ASSUME NEW n \in 2 .. Len(tree)
      PROVE  tree[n].parent \in 1 .. n - 1 /\ tree[n].parent \in Ancestors(n)
  <2> DEFINE p == tree[n].parent
  <2>1. p = n - 1 \/ p \in Ancestors(n - 1)
    BY DEF IsDocument
  <2>2. Len(tree) \in Nat /\ n \in Nat /\ n >= 2
    BY DEF IsDocument
  <2>3. p \in 1 .. n - 1
    BY <2>1, <2>2 DEF Ancestors
  <2>4. \A k \in p + 1 .. n : tree[k].parent >= p
    <3> SUFFICES ASSUME NEW k \in p + 1 .. n PROVE tree[k].parent >= p
      OBVIOUS
    <3>1. CASE k = n
      BY <3>1, <2>3
    <3>2. CASE k # n
      <4>1. k \in p + 1 .. n - 1 /\ p # n - 1
        BY <3>2, <2>2, <2>3
      <4> QED BY <4>1, <2>1, <2>2 DEF Ancestors
    <3> QED BY <3>1, <3>2
  <2> QED BY <2>3, <2>4, <2>2 DEF Ancestors
<1> QED BY <1>1 DEF IsDocument

(* An ancestor of an element is one of the elements up to it.              *)
LEMMA AncestorBelow ==
  ASSUME NEW n \in Nat, NEW m \in Ancestors(n), NEW k \in m + 1 .. n
  PROVE  m \in Ancestors(k)
BY DEF Ancestors

LEMMA AncestorsOfNext ==
  ASSUME NEW n \in Nat, NEW m
  PROVE  /\ m \in Ancestors(n + 1) => m \in 1 .. n /\ (m = n \/ m \in Ancestors(n))
         /\ m \in Ancestors(n + 1) => tree[n + 1].parent >= m
         /\ (m \in 1 .. n /\ (m = n \/ m \in Ancestors(n)) /\ tree[n + 1].parent >= m)
              => m \in Ancestors(n + 1)
<1>1. ASSUME m \in Ancestors(n + 1)
      PROVE  m \in 1 .. n /\ (m = n \/ m \in Ancestors(n)) /\ tree[n + 1].parent >= m
  BY <1>1 DEF Ancestors
<1>2. ASSUME m \in 1 .. n, m = n \/ m \in Ancestors(n), tree[n + 1].parent >= m
      PROVE  m \in Ancestors(n + 1)
  <2>1. \A k \in m + 1 .. n + 1 : tree[k].parent >= m
    <3> SUFFICES ASSUME NEW k \in m + 1 .. n + 1 PROVE tree[k].parent >= m
      OBVIOUS
    <3>1. CASE k = n + 1
      BY <3>1, <1>2
    <3>2. CASE k # n + 1
      <4>1. k \in m + 1 .. n /\ m # n
        BY <3>2, <1>2
      <4> QED BY <4>1, <1>2 DEF Ancestors
    <3> QED BY <3>1, <3>2
  <2> QED BY <2>1, <1>2 DEF Ancestors
<1> QED BY <1>1, <1>2

(* Of two elements on the path, the lower one is an ancestor of the other. *)
LEMMA PathIsOfAncestors ==
  ASSUME ReaderInv, NEW i \in 1 .. Len(stack), NEW j \in 1 .. Len(stack), i < j
  PROVE  stack[i] \in Ancestors(stack[j])
<1>1. /\ stack[i] \in 1 .. started /\ stack[j] \in 1 .. started /\ started \in Nat
      /\ stack[i] < stack[j]
  BY ElementOfSeq, SMTT(20) DEF ReaderInv, PathInv, TypeOK, IsDocument
<1>2. stack[i] \in Ancestors(started)
  BY <1>1, SMTT(20) DEF ReaderInv, PathInv, Ancestors
<1>3. stack[j] \in stack[i] + 1 .. started
  BY <1>1
<1> QED BY <1>1, <1>2, <1>3, AncestorBelow

(* Appending to a sequence, and taking its last element away.              *)
LEMMA LastOnStack ==
  ASSUME NEW S, NEW s \in Seq(S), NEW x \in S
  PROVE  /\ Append(s, x) \in Seq(S) /\ Len(Append(s, x)) = Len(s) + 1
         /\ \A i \in 1 .. Len(s) : Append(s, x)[i] = s[i]
         /\ Append(s, x)[Len(s) + 1] = x
         /\ ToSet(Append(s, x)) = ToSet(s) \cup {x}
<1>1. /\ Append(s, x) \in Seq(S) /\ Len(Append(s, x)) = Len(s) + 1
      /\ \A i \in 1 .. Len(s) : Append(s, x)[i] = s[i]
      /\ Append(s, x)[Len(s) + 1] = x
      /\ DOMAIN Append(s, x) = 1 .. Len(s) + 1 /\ DOMAIN s = 1 .. Len(s) /\ Len(s) \in Nat
  OBVIOUS
<1> DEFINE t == Append(s, x)
<1>2. 1 .. Len(s) + 1 = (1 .. Len(s)) \cup {Len(s) + 1}
  BY <1>1
<1> HIDE DEF t
<1>3. {t[i] : i \in 1 .. Len(s) + 1} = {t[i] : i \in 1 .. Len(s)} \cup {t[Len(s) + 1]}
  BY <1>2
<1>4. {t[i] : i \in 1 .. Len(s)} = {s[i] : i \in 1 .. Len(s)} /\ t[Len(s) + 1] = x
  BY <1>1 DEF t
<1>5. DOMAIN t = 1 .. Len(s) + 1
  BY <1>1 DEF t
<1>6. ToSet(t) = ToSet(s) \cup {x}
  BY <1>1, <1>3, <1>4, <1>5 DEF ToSet
<1> QED BY <1>1, <1>6 DEF t

LEMMA RestOfStack ==
  ASSUME NEW S, NEW s \in Seq(S), s # <<>>
  PROVE  /\ Front(s) \in Seq(S) /\ Len(Front(s)) = Len(s) - 1 /\ Len(s) \in Nat \ {0}
         /\ \A i \in 1 .. Len(s) - 1 : Front(s)[i] = s[i]
         /\ Last(s) = s[Len(s)] /\ Last(s) \in S
         /\ ToSet(s) = ToSet(Front(s)) \cup {Last(s)}
<1>1. Len(s) \in Nat \ {0} /\ DOMAIN s = 1 .. Len(s) /\ s[Len(s)] \in S
  BY EmptySeq, LenProperties
<1> DEFINE t == Front(s)
<1>2. /\ t \in Seq(S) /\ Len(t) = Len(s) - 1 /\ DOMAIN t = 1 .. Len(s) - 1
      /\ \A i \in 1 .. Len(s) - 1 : t[i] = s[i]
  BY <1>1 DEF Front
<1>3. 1 .. Len(s) = (1 .. Len(s) - 1) \cup {Len(s)}
  BY <1>1
<1> HIDE DEF t
<1>4. {s[i] : i \in 1 .. Len(s)} = {s[i] : i \in 1 .. Len(s) - 1} \cup {s[Len(s)]}
  BY <1>3
<1>5. {t[i] : i \in 1 .. Len(s) - 1} = {s[i] : i \in 1 .. Len(s) - 1}
  BY <1>2
<1>6. ToSet(s) = ToSet(t) \cup {s[Len(s)]}
  BY <1>1, <1>2, <1>4, <1>5 DEF ToSet
<1> QED BY <1>1, <1>2, <1>6 DEF t, Last

(* The document does not change.                                           *)
LEMMA SameDocument ==
  ASSUME IsDocument, UNCHANGED scanVars
  PROVE  /\ IsDocument' /\ Elements' = Elements /\ RowElements' = RowElements
         /\ \A n : Ancestors(n)' = Ancestors(n)
         /\ RowsAskedFor' = RowsAskedFor /\ tree' = tree /\ pushed' = pushed
BY DEF IsDocument, Elements, RowElements, IsRowElement, Ancestors, RowsAskedFor, scanVars

(* A row is no descendant of another.                                      *)
LEMMA RowsAreApart ==
  ASSUME NEW m \in RowElements, NEW n, m \in Ancestors(n)
  PROVE  n \notin RowElements
BY DEF RowElements, IsRowElement

-----------------------------------------------------------------------------
(* The start of an element.                                                *)

(* It starts on the path, which is that of its ancestors.                  *)
LEMMA StartsOnPath ==
  ASSUME ReaderInv, NextStarts, pc = "parsing"
  PROVE  /\ started + 1 \in Elements /\ started \in Nat
         /\ \A i \in 1 .. Len(stack) : stack[i] \in 1 .. started /\ stack[i] \in Ancestors(started + 1)
         /\ Ancestors(started + 1) \subseteq ToSet(stack)
         /\ stack \in Seq(1 .. started) /\ Len(stack) \in Nat
<1>1. /\ stack \in Seq(1 .. started) /\ started \in Nat /\ Len(stack) \in Nat
      /\ \A i \in 1 .. Len(stack) : stack[i] \in 1 .. started
  BY ElementOfSeq, LenProperties DEF ReaderInv, PathInv, TypeOK, IsDocument
<1>2. started + 1 \in Elements /\ Ancestors(started + 1) \subseteq ToSet(stack)
  BY DEF NextStarts, ReaderInv, PathInv
<1>3. ASSUME NEW i \in 1 .. Len(stack) PROVE stack[i] \in Ancestors(started + 1)
  <2>1. stack # <<>> /\ tree[started + 1].parent = stack[Len(stack)]
    BY <1>1, <1>3 DEF NextStarts, Last
  <2>2. stack[Len(stack)] >= stack[i]
    BY <1>1, <1>3 DEF ReaderInv, PathInv
  <2>3. stack[i] = started \/ stack[i] \in Ancestors(started)
    BY DEF ReaderInv, PathInv
  <2> QED BY <1>1, <2>1, <2>2, <2>3, AncestorsOfNext
<1> QED BY <1>1, <1>2, <1>3

LEMMA StartKeeps ==
  ASSUME ReaderInv, StartEvent
  PROVE  ReaderInv'
<1> DEFINE n == started + 1
<1>1. /\ n \in Elements /\ started \in Nat /\ n \in 1 .. n
      /\ \A i \in 1 .. Len(stack) : stack[i] \in 1 .. started /\ stack[i] \in Ancestors(n)
      /\ Ancestors(n) \subseteq ToSet(stack)
      /\ stack \in Seq(1 .. n) /\ Len(stack) \in Nat
  <2>1. stack \in Seq(1 .. started) => stack \in Seq(1 .. n)
    BY SeqMonotonic DEF ReaderInv, TypeOK
  <2> QED BY StartsOnPath, <2>1 DEF StartEvent
<1>2. /\ IsDocument' /\ RowElements' = RowElements /\ Elements' = Elements
      /\ \A k : Ancestors(k)' = Ancestors(k)
      /\ RowsAskedFor' = RowsAskedFor /\ tree' = tree /\ pushed' = pushed
  BY SameDocument DEF ReaderInv, StartEvent
<1>3. /\ started' = n /\ pc = "parsing" /\ pc' = pc /\ row = 0 /\ row' = 0 /\ Returned' = Returned
      /\ buffer' = buffer /\ output' = output /\ held' = held \cup {n}
  BY DEF StartEvent, Returned
<1>4. /\ stack' \in Seq(1 .. n) /\ Len(stack') = Len(stack) + 1
      /\ \A i \in 1 .. Len(stack) : stack'[i] = stack[i]
      /\ stack'[Len(stack) + 1] = n /\ ToSet(stack') = ToSet(stack) \cup {n}
  <2>1. stack' = Append(stack, n)
    BY DEF StartEvent
  <2> QED BY <1>1, <2>1, LastOnStack, SMTT(20)
<1>4a. \A i \in 1 .. Len(stack') :
        \/ i \in 1 .. Len(stack) /\ stack'[i] = stack[i]
        \/ i = Len(stack) + 1 /\ stack'[i] = n
  BY <1>1, <1>4
<1>5. Elements = 1 .. Len(tree) /\ Len(tree) \in Nat
  BY DEF ReaderInv, IsDocument
<1>6. PathInv'
  <2>1. \A i, j \in 1 .. Len(stack') : i < j => stack'[i] < stack'[j]
    <3>1. \A i, j \in 1 .. Len(stack) : i < j => stack[i] < stack[j]
      BY DEF ReaderInv, PathInv
    <3>2. \A i \in 1 .. Len(stack) : stack[i] < n
      BY <1>1
    <3> QED BY <1>1, <1>4a, <3>1, <3>2, SMTT(20)
  <2>2. \A i \in 1 .. Len(stack') : stack'[i] = n \/ stack'[i] \in Ancestors(n)
    BY <1>1, <1>4a
  <2>3. Ancestors(n + 1) \subseteq ToSet(stack')
    BY <1>1, <1>4, AncestorsOfNext
  <2> QED BY <1>2, <1>3, <1>4, <2>1, <2>2, <2>3 DEF PathInv
<1>7. row_depth \in 0 .. Len(stack) /\ (Inside => stack[row_depth] \in RowElements)
      /\ (~ Inside => \A i \in 1 .. Len(stack) : tree[stack[i]].tag # RowTag)
  BY DEF ReaderInv, TypeOK, RowInv, Depth
<1>8. /\ row_depth' \in 0 .. Len(stack') /\ RowInv'
      /\ \A k \in RowElements : k <= n /\ ~ (Inside' /\ k = stack'[row_depth'])
                                  <=> k <= started /\ ~ (Inside /\ k = stack[row_depth])
  <2>1. CASE Inside
    <3>1. row_depth' = row_depth /\ row_depth \in 1 .. Len(stack) /\ Inside'
      BY <2>1, <1>7 DEF Inside, StartEvent, RowDepth
    <3>2. stack'[row_depth'] = stack[row_depth] /\ n \notin RowElements
      BY <3>1, <2>1, <1>1, <1>4, <1>7, RowsAreApart
    <3> QED BY <3>1, <3>2, <2>1, <1>1, <1>2, <1>3, <1>4, <1>5, <1>7, SMTT(20) DEF RowInv, RowElements
  <2>2. CASE ~ Inside /\ tree[n].tag = RowTag
    <3>1. row_depth' = Len(stack) + 1 /\ Inside'
      BY <2>2, <1>1 DEF Inside, StartEvent, RowDepth, Depth
    <3>2. n \in RowElements
      <4>1. \A m \in Ancestors(n) : \E i \in 1 .. Len(stack) : m = stack[i]
        BY <1>1 DEF ToSet
      <4> QED BY <4>1, <1>1, <1>7, <2>2 DEF RowElements, IsRowElement
    <3> QED BY <3>1, <3>2, <2>2, <1>1, <1>2, <1>3, <1>4, <1>5, <1>7 DEF RowInv, RowElements
  <2>3. CASE ~ Inside /\ tree[n].tag # RowTag
    <3>1. row_depth' = 0 /\ ~ Inside'
      BY <2>3 DEF Inside, StartEvent, RowDepth
    <3>2. n \notin RowElements
      BY <2>3 DEF RowElements, IsRowElement
    <3>3. \A i \in 1 .. Len(stack') : tree[stack'[i]].tag # RowTag
      BY <1>4a, <1>7, <2>3
    <3>4. RowInv'
      BY <3>1, <3>3, <1>2, <1>3 DEF RowInv
    <3> QED BY <3>1, <3>2, <3>4, <2>3, <1>1, <1>4, <1>5 DEF RowElements
  <2> QED BY <2>1, <2>2, <2>3
<1>9. TypeOK'
  <2>1. \A i \in DOMAIN stack' : stack'[i] \in 1 .. n
    <3>1. DOMAIN stack' = 1 .. Len(stack')
      BY <1>4
    <3> QED BY <3>1, <1>4a, <1>1
  <2> QED BY <2>1, <1>1, <1>2, <1>3, <1>5, <1>8 DEF ReaderInv, TypeOK, Depth
<1>10. ReturnedInv'
  <2>1. Returned = {k \in RowElements : k <= started /\ ~ (Inside /\ k = stack[row_depth])}
    BY <1>3 DEF ReaderInv, ReturnedInv
  <2>2. Returned' = {k \in RowElements : k <= n /\ ~ (Inside' /\ k = stack'[row_depth'])}
    BY <2>1, <1>3, <1>8
  <2> QED BY <2>2, <1>2, <1>3 DEF ReaderInv, ReturnedInv, FirstRows
<1>11. CountInv'
  BY <1>2, <1>3 DEF ReaderInv, CountInv
<1>12. OneRowInMemory'
  <2>1. held = ToSet(stack) \cup {k \in 1 .. started : k = CurrentRow \/ (CurrentRow # 0 /\ CurrentRow \in Ancestors(k))}
    BY DEF ReaderInv, OneRowInMemory
  <2>2. CurrentRow = (IF Inside THEN stack[row_depth] ELSE 0)
        /\ CurrentRow' = (IF Inside' THEN stack'[row_depth'] ELSE 0)
    BY <1>3 DEF CurrentRow
  <2>3. \A k \in 1 .. started : (k = CurrentRow' \/ (CurrentRow' # 0 /\ CurrentRow' \in Ancestors(k)))
                                  <=> (k = CurrentRow \/ (CurrentRow # 0 /\ CurrentRow \in Ancestors(k)))
    <3>1. CASE Inside
      BY <3>1, <2>2, <1>1, <1>4, <1>7 DEF Inside, StartEvent, RowDepth
    <3>2. CASE ~ Inside
      BY <3>2, <2>2, <1>1, <1>4, <1>7 DEF Inside, StartEvent, RowDepth, Depth, Ancestors
    <3> QED BY <3>1, <3>2
  <2> QED BY <2>1, <2>3, <1>1, <1>2, <1>3, <1>4 DEF OneRowInMemory
<1> QED BY <1>2, <1>6, <1>8, <1>9, <1>10, <1>11, <1>12 DEF ReaderInv

-----------------------------------------------------------------------------
(* The end of an element.                                                  *)

(* What ends is off the path, and nothing that starts later is inside it.  *)
LEMMA EndsOnPath ==
  ASSUME ReaderInv, pc = "parsing", stack # <<>>, ~ NextStarts, stack' = Front(stack),
         UNCHANGED <<scanVars, pc, started>>
  PROVE  /\ PathInv'
         /\ Len(stack) \in Nat \ {0} /\ Len(stack') = Len(stack) - 1
         /\ Last(stack) = stack[Len(stack)] /\ Last(stack) \in 1 .. started
         /\ \A i \in 1 .. Len(stack) - 1 :
              stack'[i] = stack[i] /\ stack[i] < Last(stack) /\ stack[i] \in Ancestors(Last(stack))
         /\ ToSet(stack) = ToSet(stack') \cup {Last(stack)}
         /\ \A i \in 1 .. Len(stack') : stack'[i] \in 1 .. started
         /\ \A m \in ToSet(stack') : m < Last(stack)
         /\ started \in Nat
<1>1. /\ stack \in Seq(1 .. started) /\ started \in Nat
      /\ \A i, j \in 1 .. Len(stack) : i < j => stack[i] < stack[j]
      /\ \A i \in 1 .. Len(stack) : stack[i] = started \/ stack[i] \in Ancestors(started)
  BY DEF ReaderInv, PathInv, TypeOK, IsDocument
<1>2. /\ stack' \in Seq(1 .. started) /\ Len(stack') = Len(stack) - 1 /\ Len(stack) \in Nat \ {0}
      /\ \A i \in 1 .. Len(stack) - 1 : stack'[i] = stack[i]
      /\ Last(stack) = stack[Len(stack)] /\ Last(stack) \in 1 .. started
      /\ ToSet(stack) = ToSet(stack') \cup {Last(stack)}
  BY <1>1, RestOfStack
<1>3. \A i \in 1 .. Len(stack) - 1 : stack[i] < Last(stack) /\ stack[i] \in Ancestors(Last(stack))
  <2> SUFFICES ASSUME NEW i \in 1 .. Len(stack) - 1
               PROVE  stack[i] < Last(stack) /\ stack[i] \in Ancestors(Last(stack))
    OBVIOUS
  <2>1. i \in 1 .. Len(stack) /\ Len(stack) \in 1 .. Len(stack) /\ i < Len(stack)
    BY <1>2
  <2> QED BY <1>1, <1>2, <2>1, PathIsOfAncestors
<1>4. \A i \in 1 .. Len(stack') : stack'[i] \in 1 .. started
  BY <1>2, ElementOfSeq
<1>5. \A m \in ToSet(stack') : m < Last(stack)
  <2>1. \A m \in ToSet(stack') : \E i \in 1 .. Len(stack') : m = stack'[i]
    BY <1>2 DEF ToSet
  <2> QED BY <2>1, <1>2, <1>3
<1>6. /\ \A k : Ancestors(k)' = Ancestors(k)
      /\ Elements' = Elements /\ started' = started /\ pc' = pc
  BY SameDocument DEF ReaderInv
<1>7. ASSUME started + 1 \in Elements
      PROVE  Ancestors(started + 1) \subseteq ToSet(stack')
  <2> DEFINE p == tree[started + 1].parent
  <2>1. p \in Ancestors(started + 1) /\ p \in 1 .. started
    BY <1>7, <1>2, <1>1, ParentsComeFirst DEF ReaderInv
  <2>2. Ancestors(started + 1) \subseteq ToSet(stack)
    BY <1>7 DEF ReaderInv, PathInv
  <2>3. p # Last(stack)
    BY <1>7 DEF NextStarts
  <2>4. p < Last(stack)
    BY <2>1, <2>2, <2>3, <1>2, <1>5
  <2>5. Last(stack) \notin Ancestors(started + 1)
    <3> SUFFICES ASSUME Last(stack) \in Ancestors(started + 1) PROVE FALSE
      OBVIOUS
    <3>1. p >= Last(stack)
      BY <1>1, AncestorsOfNext
    <3> QED BY <3>1, <2>1, <2>4, <1>2
  <2> QED BY <2>2, <2>5, <1>2
<1>8. PathInv'
  <2>1. \A i, j \in 1 .. Len(stack') : i < j => stack'[i] < stack'[j]
    <3>1. \A i \in 1 .. Len(stack') : i \in 1 .. Len(stack) /\ stack'[i] = stack[i]
      BY <1>2
    <3> QED BY <1>1, <3>1
  <2>2. \A i \in 1 .. Len(stack') : stack'[i] = started \/ stack'[i] \in Ancestors(started)
    BY <1>1, <1>2, SMTT(20)
  <2> QED BY <1>2, <1>6, <1>7, <2>1, <2>2 DEF PathInv
<1> QED BY <1>1, <1>2, <1>3, <1>4, <1>5, <1>8

LEMMA OtherEndKeeps ==
  ASSUME ReaderInv, EndEvent, OtherEnds
  PROVE  ReaderInv'
<1> DEFINE t == Last(stack)
           N == Len(stack)
<1>1. /\ PathInv'
      /\ N \in Nat \ {0} /\ Len(stack') = N - 1
      /\ t = stack[N] /\ t \in 1 .. started
      /\ \A i \in 1 .. N - 1 : stack'[i] = stack[i] /\ stack[i] < t /\ stack[i] \in Ancestors(t)
      /\ ToSet(stack) = ToSet(stack') \cup {t}
      /\ \A i \in 1 .. Len(stack') : stack'[i] \in 1 .. started
      /\ \A m \in ToSet(stack') : m < t
      /\ started \in Nat
  BY EndsOnPath DEF EndEvent
<1>2. /\ IsDocument' /\ RowElements' = RowElements /\ Elements' = Elements
      /\ \A k : Ancestors(k)' = Ancestors(k)
      /\ RowsAskedFor' = RowsAskedFor /\ tree' = tree /\ pushed' = pushed
  BY SameDocument DEF ReaderInv, EndEvent
<1>3. /\ started' = started /\ pc = "parsing" /\ pc' = pc /\ row = 0 /\ row' = 0
      /\ Returned' = Returned /\ buffer' = buffer /\ output' = output
      /\ row_depth' = row_depth /\ (Inside' <=> Inside)
  BY DEF EndEvent, OtherEnds, Returned, Inside
<1>4. /\ row_depth \in 0 .. N
      /\ Inside => row_depth \in 1 .. N - 1 /\ stack'[row_depth] = stack[row_depth]
                   /\ stack[row_depth] \in RowElements
  <2>1. row_depth \in 0 .. N /\ (Inside => row_depth # N /\ row_depth # 0)
    BY DEF ReaderInv, TypeOK, Depth, OtherEnds, Inside
  <2> QED BY <1>1, <2>1 DEF ReaderInv, RowInv
<1>5. row_depth \in 0 .. Len(stack')
  BY <1>1, <1>4 DEF Inside
<1>6. RowInv'
  BY <1>1, <1>2, <1>3, <1>4 DEF ReaderInv, RowInv
<1>7. held' \subseteq held
  BY DEF OtherEnds
<1>8. TypeOK'
  <2>1. DOMAIN stack' = 1 .. Len(stack')
    BY <1>1 DEF PathInv
  <2> QED BY <1>1, <1>2, <1>3, <1>5, <1>7, <2>1 DEF ReaderInv, TypeOK, Depth
<1>9. ReturnedInv'
  BY <1>2, <1>3, <1>4 DEF ReaderInv, ReturnedInv, FirstRows
<1>10. CountInv'
  BY <1>2, <1>3 DEF ReaderInv, CountInv
<1>11. OneRowInMemory'
  <2>1. held = ToSet(stack) \cup {k \in 1 .. started : k = CurrentRow \/ (CurrentRow # 0 /\ CurrentRow \in Ancestors(k))}
    BY DEF ReaderInv, OneRowInMemory
  <2>2. CurrentRow = (IF Inside THEN stack[row_depth] ELSE 0) /\ CurrentRow' = CurrentRow
    BY <1>3, <1>4 DEF CurrentRow
  <2>3. CASE Inside
    <3>1. held' = held /\ CurrentRow # 0 /\ CurrentRow \in Ancestors(t)
      BY <2>3, <2>2, <1>1, <1>4 DEF OtherEnds, Ancestors
    <3> QED BY <3>1, <2>1, <2>2, <1>1, <1>2, <1>3 DEF OneRowInMemory
  <2>4. CASE ~ Inside
    <3>1. held = ToSet(stack) /\ held' = held \ Released(t)
      BY <2>4, <2>1, <2>2 DEF OtherEnds
    <3>2. \A m \in ToSet(stack') : m \notin Released(t)
      <4>1. \A m \in ToSet(stack') : \E i \in 1 .. Len(stack') : m = stack'[i]
        BY <1>1 DEF ToSet, PathInv
      <4> QED BY <4>1, <1>1 DEF Released, Ancestors
    <3>3. t \in Released(t) /\ t \notin ToSet(stack')
      BY <3>1, <1>1 DEF Released
    <3>4. held' = ToSet(stack')
      BY <3>1, <3>2, <3>3, <1>1
    <3>5. {k \in 1 .. started : k = CurrentRow' \/ (CurrentRow' # 0 /\ CurrentRow' \in Ancestors(k))} = {}
      BY <2>4, <2>2
    <3> QED BY <3>4, <3>5, <1>2, <1>3 DEF OneRowInMemory
  <2> QED BY <2>3, <2>4
<1> QED BY <1>1, <1>2, <1>6, <1>8, <1>9, <1>10, <1>11 DEF ReaderInv

(* The end of a row: it is the next one of the document.                   *)
LEMMA RowEndKeeps ==
  ASSUME ReaderInv, EndEvent, RowEnds
  PROVE  ReaderInv'
<1> DEFINE t == Last(stack)
           N == Len(stack)
<1>1. /\ PathInv'
      /\ N \in Nat \ {0} /\ Len(stack') = N - 1
      /\ t = stack[N] /\ t \in 1 .. started
      /\ \A i \in 1 .. N - 1 : stack'[i] = stack[i] /\ stack[i] < t /\ stack[i] \in Ancestors(t)
      /\ ToSet(stack) = ToSet(stack') \cup {t}
      /\ \A i \in 1 .. Len(stack') : stack'[i] \in 1 .. started
      /\ started \in Nat
  BY EndsOnPath DEF EndEvent
<1>2. /\ IsDocument' /\ RowElements' = RowElements /\ Elements' = Elements
      /\ \A k : Ancestors(k)' = Ancestors(k)
      /\ RowsAskedFor' = RowsAskedFor /\ tree' = tree /\ pushed' = pushed
  BY SameDocument DEF ReaderInv, EndEvent
<1>3. /\ started' = started /\ pc = "parsing" /\ pc' = pc /\ row = 0 /\ row' = t /\ held' = held
      /\ row_depth' = 0 /\ ~ Inside' /\ Inside /\ row_depth = N
  BY DEF EndEvent, RowEnds, Inside, Depth
<1>4. t \in RowElements /\ t # 0
  BY <1>1, <1>3 DEF ReaderInv, RowInv
<1>5. /\ Returned = {k \in RowElements : k <= started /\ k # t}
      /\ FirstRows(output) /\ FirstRows(Returned)
  BY <1>1, <1>3 DEF ReaderInv, ReturnedInv
<1>6. /\ buffer \cap output = {} /\ Returned \subseteq 1 .. started /\ t \notin Returned
      /\ Cardinality(buffer) < BatchSize
  BY <1>5 DEF ReaderInv, TypeOK, Returned
<1>7. IsFiniteSet(buffer) /\ IsFiniteSet(Returned)
  <2>1. IsFiniteSet(1 .. started)
    BY <1>1, FS_Interval
  <2>2. buffer \subseteq 1 .. started
    BY <1>6 DEF Returned
  <2> QED BY <2>1, <2>2, <1>6, FS_Subset
<1>8. Returned' = Returned \cup {t} /\ (output' = output \/ output' = Returned \cup {t})
      /\ buffer' \cap output' = {}
  BY <1>6 DEF RowEnds, AppendRow, Returned
<1>9. Cardinality(buffer') < BatchSize
  <2>1. Cardinality(buffer \cup {t}) = Cardinality(buffer) + 1 /\ Cardinality(buffer) \in Nat
    BY <1>6, <1>7, FS_AddElement, FS_CardinalityType DEF Returned
  <2>2. Cardinality({}) = 0
    BY FS_EmptySet
  <2>3. BatchSize \in Nat \ {0}
    BY NoLimitAssumption, BatchSizeAssumption
  <2>4. CASE Cardinality(buffer) + 1 >= BatchSize
    <3>1. buffer' = {}
      BY <2>4 DEF RowEnds, AppendRow
    <3> QED BY <3>1, <2>2, <2>3
  <2>5. CASE ~ (Cardinality(buffer) + 1 >= BatchSize)
    <3>1. buffer' = buffer \cup {t}
      BY <2>5 DEF RowEnds, AppendRow
    <3> QED BY <3>1, <2>1, <2>3, <2>5
  <2> QED BY <2>4, <2>5
<1>10. RowInv'
  <2>1. \A i \in 1 .. N - 1 : tree[stack[i]].tag # RowTag
    BY <1>1, <1>4 DEF RowElements, IsRowElement
  <2> QED BY <2>1, <1>1, <1>2, <1>3 DEF RowInv
<1>11. TypeOK'
  <2>1. DOMAIN stack' = 1 .. Len(stack')
    BY <1>1 DEF PathInv
  <2>2. buffer' \cup output' \subseteq 1 .. started
    BY <1>1, <1>6, <1>8 DEF Returned
  <2> QED BY <1>1, <1>2, <1>3, <1>8, <1>9, <2>1, <2>2 DEF ReaderInv, TypeOK, Depth
<1>12. ReturnedInv'
  <2>1. Returned' = {k \in RowElements : k <= started}
    BY <1>1, <1>4, <1>5, <1>8
  <2>2. \A k \in RowElements : k \in Nat
    BY DEF RowElements, ReaderInv, IsDocument
  <2>3. FirstRows(Returned \cup {t})
    BY <2>1, <2>2, <1>1, <1>8 DEF FirstRows
  <2> QED BY <2>1, <2>3, <1>2, <1>3, <1>5, <1>8 DEF ReturnedInv, FirstRows
<1>13. CountInv'
  <2>1. Cardinality(Returned') = Cardinality(Returned) + 1 /\ Cardinality(Returned) \in Nat
    BY <1>6, <1>7, <1>8, FS_AddElement, FS_CardinalityType
  <2> QED BY <2>1, <1>2, <1>3, <1>4 DEF ReaderInv, CountInv
<1>14. OneRowInMemory'
  <2>1. CurrentRow = t /\ CurrentRow' = t
    BY <1>1, <1>3, <1>4 DEF CurrentRow
  <2> QED BY <2>1, <1>1, <1>2, <1>3 DEF ReaderInv, OneRowInMemory
<1> QED BY <1>1, <1>2, <1>10, <1>11, <1>12, <1>13, <1>14 DEF ReaderInv

-----------------------------------------------------------------------------
(* The limit.                                                              *)

LEMMA RowsAreCounted ==
  ASSUME ReaderInv
  PROVE  /\ Produced = Cardinality(Returned) /\ Cardinality(Returned) \in Nat
         /\ Cardinality(Returned) <= Cardinality(RowElements) /\ Cardinality(RowElements) \in Nat
<1>1. /\ buffer \cap output = {} /\ Returned \subseteq 1 .. started /\ started \in Nat
      /\ Len(tree) \in Nat /\ RowElements \subseteq 1 .. Len(tree) /\ Returned \subseteq RowElements
  BY DEF ReaderInv, TypeOK, IsDocument, RowElements, Returned, ReturnedInv, FirstRows
<1>2. IsFiniteSet(1 .. started) /\ IsFiniteSet(1 .. Len(tree))
  BY <1>1, FS_Interval
<1>3. IsFiniteSet(buffer) /\ IsFiniteSet(output) /\ IsFiniteSet(Returned) /\ IsFiniteSet(RowElements)
  BY <1>1, <1>2, FS_Subset DEF Returned
<1>4. Cardinality(output \cup buffer)
        = Cardinality(output) + Cardinality(buffer) - Cardinality(output \cap buffer)
  BY <1>3, FS_Union
<1>5. output \cap buffer = {} /\ Cardinality({}) = 0
  BY <1>1, FS_EmptySet
<1>6. /\ Cardinality(output) \in Nat /\ Cardinality(buffer) \in Nat
      /\ Cardinality(Returned) \in Nat /\ Cardinality(RowElements) \in Nat
  BY <1>3, FS_CardinalityType
<1>7. Cardinality(Returned) <= Cardinality(RowElements)
  BY <1>1, <1>3, FS_Subset
<1>8. Produced = Cardinality(Returned)
  <2>1. Cardinality(output \cap buffer) = 0
    BY <1>5
  <2> QED BY <2>1, <1>4, <1>6 DEF Produced, Returned
<1> QED BY <1>6, <1>7, <1>8

LEMMA ResumeKeeps ==
  ASSUME ReaderInv, Resume
  PROVE  ReaderInv'
<1>1. /\ IsDocument' /\ RowElements' = RowElements /\ Elements' = Elements
      /\ \A k : Ancestors(k)' = Ancestors(k)
      /\ RowsAskedFor' = RowsAskedFor /\ tree' = tree /\ pushed' = pushed
  BY SameDocument DEF ReaderInv, Resume
<1>2. /\ started' = started /\ pc = "parsing" /\ row # 0 /\ row' = 0
      /\ Returned' = Returned /\ buffer' = buffer /\ output' = output
      /\ row_depth' = row_depth /\ row_depth = 0 /\ ~ Inside /\ ~ Inside'
  BY DEF Resume, Returned, Inside, ReaderInv, RowInv
<1>3. /\ Produced = Cardinality(Returned) /\ Cardinality(Returned) \in Nat
      /\ Cardinality(Returned) <= Cardinality(RowElements) /\ Cardinality(RowElements) \in Nat
  BY RowsAreCounted
<1>4. pushed.limit # NoLimit => Cardinality(Returned) < pushed.limit + 1 /\ pushed.limit \in Nat
  BY <1>2 DEF ReaderInv, CountInv
<1>5. held = ToSet(stack) \cup {k \in 1 .. started : k = row \/ row \in Ancestors(k)}
  BY <1>2 DEF ReaderInv, OneRowInMemory, CurrentRow
<1>6. CurrentRow' = 0 /\ 0 \notin 1 .. started
  BY <1>2 DEF CurrentRow, ReaderInv, TypeOK, IsDocument
<1>7. CASE LimitReached
  <2>1. pc' = "ended" /\ held' = {} /\ stack' = <<>>
    BY <1>7 DEF Resume
  <2>2. Cardinality(Returned) = RowsAskedFor
    BY <1>3, <1>4, <1>7 DEF LimitReached, RowsAskedFor
  <2>3. Len(stack') = 0 /\ ToSet(stack') = {} /\ stack' \in Seq(1 .. started)
    BY <2>1 DEF ToSet
  <2>4. TypeOK'
    BY <1>1, <1>2, <2>1, <2>3 DEF ReaderInv, TypeOK, Depth
  <2>5. PathInv'
    BY <1>1, <1>2, <2>1, <2>3 DEF PathInv
  <2>6. RowInv'
    BY <1>2, <2>3 DEF RowInv
  <2>7. ReturnedInv'
    BY <1>1, <1>2, <2>1 DEF ReaderInv, ReturnedInv, FirstRows
  <2>8. CountInv'
    BY <1>1, <1>2, <2>1, <2>2 DEF CountInv
  <2>9. OneRowInMemory'
    BY <1>2, <1>6, <2>1, <2>3 DEF OneRowInMemory
  <2> QED BY <1>1, <2>4, <2>5, <2>6, <2>7, <2>8, <2>9 DEF ReaderInv
<1>8. CASE ~ LimitReached
  <2>1. pc' = pc /\ stack' = stack /\ held' = held \ Released(row)
    BY <1>8 DEF Resume
  <2>2. held' = ToSet(stack)
    <3>1. \A m \in ToSet(stack) : m \in Nat /\ m < row
      <4>1. \A m \in ToSet(stack) : \E i \in 1 .. Len(stack) : m = stack[i]
        BY DEF ToSet, ReaderInv, PathInv
      <4>2. \A i \in 1 .. Len(stack) : stack[i] < row /\ stack[i] \in Nat
        <5>1. stack \in Seq(1 .. started) /\ started \in Nat
          BY DEF ReaderInv, PathInv, TypeOK, IsDocument
        <5>2. \A i \in 1 .. Len(stack) : stack[i] \in 1 .. started
          BY <5>1, ElementOfSeq
        <5> QED BY <5>1, <5>2, <1>2 DEF ReaderInv, RowInv
      <4> QED BY <4>1, <4>2
    <3>2. \A m \in ToSet(stack) : m \notin Released(row)
      BY <3>1 DEF Released, Ancestors, ReaderInv, TypeOK
    <3> QED BY <2>1, <3>2, <1>5 DEF Released
  <2>3. TypeOK'
    <3>1. held' \subseteq 1 .. started /\ row' \in 0 .. started
      <4>1. Len(tree) \in Nat /\ started \in 0 .. Len(tree) /\ held \subseteq 1 .. started
        BY DEF ReaderInv, TypeOK, IsDocument
      <4>2. held' \subseteq held
        BY <2>1
      <4>3. row' \in 0 .. started
        BY <4>1, <1>2
      <4> QED BY <4>1, <4>2, <4>3
    <3> QED BY <3>1, <1>1, <1>2, <2>1 DEF ReaderInv, TypeOK, Depth
  <2>4. PathInv'
    BY <1>1, <1>2, <2>1 DEF ReaderInv, PathInv
  <2>5. RowInv'
    BY <1>1, <1>2, <2>1 DEF ReaderInv, RowInv
  <2>6. ReturnedInv'
    BY <1>1, <1>2, <2>1 DEF ReaderInv, ReturnedInv, FirstRows
  <2>7. CountInv'
    BY <1>1, <1>2, <1>3, <1>4, <1>8, <2>1 DEF CountInv, LimitReached
  <2>8. OneRowInMemory'
    BY <1>2, <1>6, <2>1, <2>2 DEF OneRowInMemory
  <2> QED BY <1>1, <2>3, <2>4, <2>5, <2>6, <2>7, <2>8 DEF ReaderInv
<1> QED BY <1>7, <1>8

(* The parser and the rows stay as they are; only the scan goes on or ends.*)
LEMMA ParserRests ==
  ASSUME ReaderInv, UNCHANGED <<scanVars, parserVars>>, Returned' = Returned,
         output' = output \/ (output' = Returned /\ buffer' = {}), buffer' \in {buffer, {}},
         pc' \in {"start", "parsing", "ended", "done", "failed"},
         pc' \in {"start", "parsing"} => pc \in {"start", "parsing"} /\ pc' # "start",
         CountInv'
  PROVE  ReaderInv'
<1>1. /\ IsDocument' /\ RowElements' = RowElements /\ Elements' = Elements
      /\ \A k : Ancestors(k)' = Ancestors(k) /\ tree' = tree /\ pushed' = pushed
  BY SameDocument DEF ReaderInv
<1>2. /\ started' = started /\ stack' = stack /\ row_depth' = row_depth /\ held' = held /\ row' = row
      /\ (Inside' <=> Inside)
  BY DEF parserVars, Inside
<1>3. Cardinality({}) = 0 /\ BatchSize \in Nat \ {0}
  BY FS_EmptySet, NoLimitAssumption, BatchSizeAssumption
<1>4. TypeOK'
  <2>1. Cardinality(buffer') < BatchSize
    <3>1. Cardinality(buffer) < BatchSize
      BY DEF ReaderInv, TypeOK
    <3>2. CASE buffer' = buffer
      BY <3>1, <3>2
    <3>3. CASE buffer' = {}
      BY <3>3, <1>3
    <3> QED BY <3>2, <3>3
  <2>2. buffer' \cap output' = {} /\ buffer' \cup output' \subseteq 1 .. started
    BY DEF ReaderInv, TypeOK, Returned
  <2> QED BY <2>1, <2>2, <1>1, <1>2 DEF ReaderInv, TypeOK, Depth
<1>5. PathInv'
  BY <1>1, <1>2 DEF ReaderInv, PathInv
<1>6. RowInv'
  BY <1>1, <1>2 DEF ReaderInv, RowInv
<1>7. ReturnedInv'
  BY <1>1, <1>2 DEF ReaderInv, ReturnedInv, FirstRows
<1>8. OneRowInMemory'
  BY <1>1, <1>2 DEF ReaderInv, OneRowInMemory, CurrentRow
<1> QED BY <1>1, <1>4, <1>5, <1>6, <1>7, <1>8 DEF ReaderInv

(* A scan that has not begun has returned nothing.                         *)
LEMMA NothingYet ==
  ASSUME ReaderInv, pc = "start"
  PROVE  Returned = {} /\ output = {} /\ row = 0 /\ Cardinality({}) = 0
BY FS_EmptySet DEF ReaderInv, ReturnedInv, TypeOK, Returned, RowElements, IsDocument

LEMMA ScanKeeps ==
  ASSUME ReaderInv, RefusePredicate \/ EmptyScan \/ OpenScan \/ EndOfDocument \/ LastBatch \/ ReadFails
  PROVE  ReaderInv'
<1>1. /\ UNCHANGED <<scanVars, parserVars>>
      /\ RowsAskedFor' = RowsAskedFor /\ pushed' = pushed /\ row' = row
  BY SameDocument
     DEF ReaderInv, RefusePredicate, EmptyScan, OpenScan, EndOfDocument, LastBatch, ReadFails, parserVars
<1>2. pushed.limit \in Nat \cup {NoLimit} /\ NoLimit \notin Nat
  BY NoLimitAssumption, BatchSizeAssumption DEF ReaderInv
<1>3. /\ Cardinality(Returned) \in Nat /\ Cardinality(RowElements) \in Nat
      /\ Cardinality(Returned) <= Cardinality(RowElements)
  BY RowsAreCounted
<1>4. CASE RefusePredicate \/ ReadFails
  <2>1. pc' = "failed" /\ UNCHANGED <<buffer, output>>
    BY <1>4 DEF RefusePredicate, ReadFails
  <2>2. CountInv'
    BY <2>1 DEF CountInv
  <2> QED BY <2>1, <2>2, <1>1, ParserRests DEF Returned
<1>5. CASE EmptyScan
  <2>1. pc' = "done" /\ pc = "start" /\ pushed.limit = 0 /\ UNCHANGED <<buffer, output>>
    BY <1>5 DEF EmptyScan
  <2>2. Cardinality(output) = RowsAskedFor
    BY <2>1, <1>2, <1>3, NothingYet DEF RowsAskedFor
  <2>3. CountInv'
    BY <2>1, <2>2, <1>1 DEF CountInv
  <2> QED BY <2>1, <2>3, <1>1, ParserRests DEF Returned
<1>6. CASE OpenScan
  <2>1. pc' = "parsing" /\ pc = "start" /\ pushed.limit # 0 /\ UNCHANGED <<buffer, output>>
    BY <1>6 DEF OpenScan
  <2>2. CountInv'
    <3>1. Returned' = Returned
      BY <2>1 DEF Returned
    <3>2. Cardinality(Returned) = 0 /\ row' = 0
      BY <2>1, <1>1, NothingYet
    <3>3. pushed.limit # NoLimit => 0 < pushed.limit + 0
      BY <2>1, <1>2
    <3> QED BY <2>1, <1>1, <3>1, <3>2, <3>3 DEF CountInv
  <2> QED BY <2>1, <2>2, <1>1, ParserRests DEF Returned
<1>7. CASE EndOfDocument
  <2>1. /\ pc' = "ended" /\ pc = "parsing" /\ UNCHANGED <<buffer, output>>
        /\ started + 1 \notin Elements /\ stack = <<>> /\ row = 0
    BY <1>7 DEF EndOfDocument
  <2>2. ~ Inside
    BY <2>1 DEF ReaderInv, TypeOK, Depth, Inside
  <2>3. \A n \in RowElements : n <= started
    BY <2>1 DEF RowElements, ReaderInv, TypeOK, IsDocument
  <2>4. Returned = RowElements
    BY <2>1, <2>2, <2>3 DEF ReaderInv, ReturnedInv
  <2>5. Cardinality(Returned) = RowsAskedFor
    BY <2>1, <2>4, <1>2, <1>3 DEF ReaderInv, CountInv, RowsAskedFor
  <2>6. CountInv'
    BY <2>1, <2>5, <1>1 DEF CountInv, Returned
  <2> QED BY <2>1, <2>6, <1>1, ParserRests DEF Returned
<1>8. CASE LastBatch
  <2>1. pc' = "done" /\ pc = "ended" /\ output' = Returned /\ buffer' = {} /\ Returned' = Returned
    BY <1>8 DEF LastBatch, Returned
  <2>2. CountInv'
    BY <2>1, <1>1 DEF ReaderInv, CountInv
  <2> QED BY <2>1, <2>2, <1>1, ParserRests
<1> QED BY <1>4, <1>5, <1>6, <1>7, <1>8

(* The reader's account of the rows is right in every reachable state.     *)
LEMMA ReaderKeepsAccount == Spec => []ReaderInv
<1>1. ASSUME Init PROVE ReaderInv
  <2>1. /\ started = 0 /\ stack = <<>> /\ row_depth = 0 /\ held = {} /\ row = 0 /\ buffer = {}
        /\ output = {} /\ pc = "start" /\ ~ Inside /\ Returned = {} /\ IsDocument
    BY <1>1 DEF Init, Inside, Returned
  <2>2. Cardinality({}) = 0 /\ BatchSize \in Nat \ {0}
    BY FS_EmptySet, NoLimitAssumption, BatchSizeAssumption
  <2>3. TypeOK
    BY <2>1, <2>2 DEF TypeOK, Depth, IsDocument
  <2>4. PathInv
    BY <2>1 DEF PathInv, Ancestors
  <2>5. RowInv
    BY <2>1 DEF RowInv
  <2>6. \A n \in RowElements : n > 0
    BY <2>1 DEF RowElements, IsDocument
  <2>7. ReturnedInv
    BY <2>1, <2>6 DEF ReturnedInv, FirstRows, RowElements, IsDocument
  <2>8. CountInv
    BY <2>1 DEF CountInv
  <2>9. OneRowInMemory
    BY <2>1 DEF OneRowInMemory, CurrentRow, ToSet
  <2> QED BY <1>1, <2>1, <2>3, <2>4, <2>5, <2>7, <2>8, <2>9 DEF ReaderInv, Init
<1>2. ASSUME ReaderInv, [Next]_vars PROVE ReaderInv'
  <2>1. CASE StartEvent
    BY <1>2, <2>1, StartKeeps
  <2>2. CASE EndEvent
    <3>1. RowEnds \/ OtherEnds
      BY <2>2 DEF EndEvent
    <3> QED BY <1>2, <2>2, <3>1, RowEndKeeps, OtherEndKeeps
  <2>3. CASE Resume
    BY <1>2, <2>3, ResumeKeeps
  <2>4. CASE RefusePredicate \/ EmptyScan \/ OpenScan \/ EndOfDocument \/ LastBatch \/ ReadFails
    BY <1>2, <2>4, ScanKeeps
  <2>5. CASE UNCHANGED vars
    BY <1>2, <2>5, SMTT(20)
       DEF vars, scanVars, parserVars, ReaderInv, IsDocument, Elements, RowElements, IsRowElement,
           Ancestors, TypeOK, Depth, PathInv, RowInv, Inside, ReturnedInv, FirstRows, Returned,
           CountInv, RowsAskedFor, OneRowInMemory, CurrentRow
  <2> QED BY <1>2, <2>1, <2>2, <2>3, <2>4, <2>5 DEF Next
<1> QED BY <1>1, <1>2, PTL DEF Spec

(* _iter_row_elements keeps its places, and no batch grows beyond its size.*)
THEOREM ReaderTypeCorrect == Spec => []TypeOK
<1>1. ReaderInv => TypeOK
  BY DEF ReaderInv
<1> QED BY <1>1, ReaderKeepsAccount, PTL

(* The stream has the first rows of the document, rows in rows left out,   *)
(* and ends with all of them or as many as the limit says.                 *)
THEOREM RowsComeInOrder == Spec => []RowsInDocumentOrder
<1>1. ReaderInv => RowsInDocumentOrder
  BY DEF ReaderInv, ReturnedInv, CountInv, Returned, RowsInDocumentOrder
<1> QED BY <1>1, ReaderKeepsAccount, PTL

(* The parser keeps one row and the path to its place.                     *)
THEOREM ParserHoldsOneRow == Spec => []OneRowInMemory
<1>1. ReaderInv => OneRowInMemory
  BY DEF ReaderInv
<1> QED BY <1>1, ReaderKeepsAccount, PTL

-----------------------------------------------------------------------------
(* Induction over trees.                                                   *)

LessThan == {pair \in Nat \X Nat : pair[1] < pair[2]}

LEMMA LessThanWellFounded == IsWellFoundedOn(LessThan, Nat)
BY NatLessThanWellFounded, Zenon DEF OpToRel, LessThan

LEMMA LeastNatural ==
  ASSUME NEW T, T \subseteq Nat, T # {}
  PROVE  \E x \in T : \A y \in T : x <= y
<1>1. PICK x \in T : \A y \in T : ~ (<<y, x>> \in LessThan)
  BY LessThanWellFounded, WFMin, Zenon
<1>2. ASSUME NEW y \in T
      PROVE  x <= y
  <2>1. x \in Nat /\ y \in Nat
    OBVIOUS
  <2>2. <<y, x>> \notin LessThan
    BY <1>1
  <2>3. <<y, x>> \in Nat \X Nat /\ <<y, x>>[1] = y /\ <<y, x>>[2] = x
    BY <2>1
  <2>4. ~ (y < x)
    BY <2>2, <2>3, Zenon DEF LessThan
  <2> QED BY <2>1, <2>4
<1> QED BY <1>2

(* Trees of a set with a depth: if all that are less deep than a tree      *)
(* being in S puts it in S, they are all in S.                             *)
LEMMA TreeInduction ==
  ASSUME NEW E, NEW depth \in [E -> Nat], NEW S,
         \A e \in E : (\A c \in E : depth[c] < depth[e] => c \in S) => e \in S
  PROVE  E \subseteq S
<1> SUFFICES ASSUME ~ (E \subseteq S) PROVE FALSE
  OBVIOUS
<1> DEFINE T == {depth[e] : e \in E \ S}
<1>1. T \subseteq Nat /\ T # {}
  OBVIOUS
<1>2. PICK x \in T : \A y \in T : x <= y
  BY <1>1, LeastNatural
<1>3. PICK e \in E \ S : depth[e] = x
  OBVIOUS
<1>4. ASSUME NEW c \in E, depth[c] < depth[e]
      PROVE  c \in S
  <2>1. depth[c] \in Nat /\ x \in Nat /\ depth[c] < x
    BY <1>1, <1>3, <1>4
  <2>2. ~ (x <= depth[c])
    BY <2>1
  <2>3. c \notin S => depth[c] \in T
    OBVIOUS
  <2> QED BY <1>2, <2>2, <2>3, Zenon
<1> QED BY <1>3, <1>4

-----------------------------------------------------------------------------
(* The types inferred from rows, and the values converted to them.         *)

IsRawValue(v) ==
  \/ v = Null
  \/ IsRaw(v, "text") /\ v.form \in TextForms
  \/ IsRaw(v, "dict")
  \/ IsRaw(v, "list")

InferredBy(values, type) == NodeInferred(values, LAMBDA s : type[s])
ConvertedBy(v, t, convert) == NodeConverted(v, t, LAMBDA x, u : convert[<<x, u>>])
RetainedBy(c, v, retains) == NodeRetained(c, v, LAMBDA d, x : retains[<<d, x>>])

(* Sets of raw values, with the next levels of each, which are less deep;  *)
(* the types inferred from them, what their values are converted to, and   *)
(* whether nothing of them is lost.                                        *)
Inferring(V, depth, type, convert, retains) ==
  /\ depth \in [V -> Nat]
  /\ \A values \in V :
       /\ type[values] = InferredBy(values, type)
       /\ \A v \in values :
            LET converted == convert[<<v, type[values]>>]
            IN /\ IsRawValue(v)
               /\ converted = ConvertedBy(v, type[values], convert)
               /\ retains[<<converted, v>>] = RetainedBy(converted, v, retains)
       /\ AnyIs(values, "list") => ItemValues(values) \in V /\ depth[ItemValues(values)] < depth[values]
       /\ AnyIs(values, "dict") /\ ~ AnyIs(values, "list") =>
            \A name \in FieldNames(values) :
              FieldValues(values, name) \in V /\ depth[FieldValues(values, name)] < depth[values]

LEMMA ListIsConverted ==
  ASSUME NEW values, NEW v \in values, v # Null, AnyIs(values, "list"), NEW types, NEW convert
  PROVE  ConvertedBy(v, InferredBy(values, types), convert)
           = Items([i \in DOMAIN AsItems(v) |-> convert[<<AsItems(v)[i], types[ItemValues(values)]>>]])
<1> DEFINE type == InferredBy(values, types)
<1>1. type = [type |-> "list", element |-> types[ItemValues(values)]]
  BY DEF InferredBy, NodeInferred, AnyIs
<1> QED BY <1>1 DEF ConvertedBy, NodeConverted

LEMMA DictIsConverted ==
  ASSUME NEW values, NEW v \in values, v # Null, ~ AnyIs(values, "list"), AnyIs(values, "dict"),
         NEW types, NEW convert
  PROVE  ConvertedBy(v, InferredBy(values, types), convert)
           = Dict([name \in FieldNames(values) |->
                     convert[<<Field(AsFields(v), name), types[FieldValues(values, name)]>>]])
<1> DEFINE type == InferredBy(values, types)
           fields == [name \in FieldNames(values) |-> types[FieldValues(values, name)]]
<1>1. type = [type |-> "struct", fields |-> fields]
  BY DEF InferredBy, NodeInferred, AnyIs
<1>2. type.type = "struct" /\ type.fields = fields
  BY <1>1
<1>3. ~ IsRaw(v, "list")
  BY DEF AnyIs, Present
<1>4. ConvertedBy(v, type, convert)
        = Dict([name \in DOMAIN type.fields |-> convert[<<Field(AsFields(v), name), type.fields[name]>>]])
  <2> HIDE DEF type
  <2> QED BY <1>2, <1>3 DEF ConvertedBy, NodeConverted
<1>5. [name \in DOMAIN type.fields |-> convert[<<Field(AsFields(v), name), type.fields[name]>>]]
        = [name \in FieldNames(values) |->
             convert[<<Field(AsFields(v), name), types[FieldValues(values, name)]>>]]
  <2> HIDE DEF type
  <2> QED BY <1>2
<1> QED BY <1>4, <1>5

(* The type of texts can read each of them.                                *)
LEMMA TypeReadsAll ==
  ASSUME NEW forms, forms \subseteq TextForms
  PROVE  TextType(forms) \in DOMAIN ReadableAs /\ forms \subseteq ReadableAs[TextType(forms)]
BY DEF TextType, ReadableAs, TextForms, AsInteger

LEMMA TextIsConverted ==
  ASSUME NEW values, NEW v \in values, v # Null, \A w \in values : IsRawValue(w),
         ~ AnyIs(values, "list"), ~ AnyIs(values, "dict"), NEW types, NEW convert
  PROVE  /\ IsRaw(v, "text")
         /\ ConvertedBy(v, InferredBy(values, types), convert) \in {v, Nearest(v)}
<1> DEFINE type == InferredBy(values, types)
           forms == {w.form : w \in Present(values)}
<1>1. type = [type |-> TextType(forms)]
  BY DEF InferredBy, NodeInferred, Present
<1>2. \A w \in Present(values) : IsRaw(w, "text") /\ w.form \in TextForms
  BY DEF IsRawValue, AnyIs, Present
<1>3. forms \subseteq TextForms /\ v.form \in forms /\ IsRaw(v, "text")
  BY <1>2 DEF Present
<1>4. TextType(forms) \in DOMAIN ReadableAs /\ v.form \in ReadableAs[TextType(forms)]
  BY <1>3, TypeReadsAll
<1>5. TextType(forms) \in {"integer", "float", "boolean", "date", "string"}
  BY <1>4 DEF ReadableAs
<1>6. type.type = TextType(forms) /\ type.type \notin {"null", "list", "struct"}
  BY <1>1, <1>5
<1>7. ~ IsRaw(v, "list")
  BY <1>3 DEF IsRaw
<1>8. ConvertedBy(v, type, convert) = ConvertScalar(v, type)
  <2> HIDE DEF type
  <2> QED BY <1>3, <1>6, <1>7 DEF ConvertedBy, NodeConverted
<1> QED BY <1>3, <1>4, <1>6, <1>8 DEF ConvertScalar

(* Of whatever rows, of elements with elements and attributes in them, of  *)
(* repeated and of single ones: a value, converted to the type inferred    *)
(* from it and others, is there as it was, with the digits that a float    *)
(* keeps where it is a float: none of its items, fields and texts is null. *)
THEOREM InferredTypesRetain ==
  ASSUME NEW V, NEW depth, NEW type, NEW convert, NEW retains,
         Inferring(V, depth, type, convert, retains)
  PROVE  \A values \in V : \A v \in values : retains[<<convert[<<v, type[values]>>], v>>]
<1> DEFINE S == {values \in V : \A v \in values : retains[<<convert[<<v, type[values]>>], v>>]}
<1>1. depth \in [V -> Nat]
  BY DEF Inferring
<1>2. ASSUME NEW values \in V, \A c \in V : depth[c] < depth[values] => c \in S
      PROVE  values \in S
  <2> SUFFICES ASSUME NEW v \in values PROVE retains[<<convert[<<v, type[values]>>], v>>]
    OBVIOUS
  <2> DEFINE converted == convert[<<v, type[values]>>]
  <2>1. /\ \A w \in values : IsRawValue(w)
        /\ converted = ConvertedBy(v, InferredBy(values, type), convert)
        /\ retains[<<converted, v>>] = RetainedBy(converted, v, retains)
    BY DEF Inferring
  <2>2. CASE v = Null
    <3>1. RetainedBy(converted, v, retains)
      BY <2>2 DEF RetainedBy, NodeRetained
    <3> QED BY <2>1, <3>1
  <2>3. CASE v # Null /\ AnyIs(values, "list")
    <3> DEFINE items == [i \in DOMAIN AsItems(v) |-> convert[<<AsItems(v)[i], type[ItemValues(values)]>>]]
    <3>1. converted = Items(items)
      BY <2>1, <2>3, ListIsConverted
    <3>2. ASSUME NEW i \in DOMAIN AsItems(v)
          PROVE  retains[<<items[i], AsItems(v)[i]>>]
      <4>1. ItemValues(values) \in S
        BY <1>2, <2>3 DEF Inferring
      <4>2. AsItems(v)[i] \in ItemValues(values)
        BY <2>3 DEF ItemValues, Present, ToSet
      <4> QED BY <4>1, <4>2
    <3>3. converted # Null /\ IsRaw(converted, "list") /\ converted.items = items
      BY <3>1 DEF Items, Null, IsRaw
    <3>4. RetainedBy(converted, v, retains)
      <4> HIDE DEF converted, items
      <4>1. DOMAIN items = DOMAIN AsItems(v)
        BY DEF items
      <4> QED BY <2>3, <3>2, <3>3, <4>1 DEF RetainedBy, NodeRetained
    <3> QED BY <2>1, <3>4
  <2>4. CASE v # Null /\ ~ AnyIs(values, "list") /\ AnyIs(values, "dict")
    <3> DEFINE fields == [name \in FieldNames(values) |->
                            convert[<<Field(AsFields(v), name), type[FieldValues(values, name)]>>]]
    <3>1. converted = Dict(fields)
      BY <2>1, <2>4, DictIsConverted
    <3>2. DOMAIN AsFields(v) \subseteq FieldNames(values)
      BY <2>4 DEF FieldNames, Present
    <3>3. ASSUME NEW name \in DOMAIN AsFields(v)
          PROVE  retains[<<Field(fields, name), AsFields(v)[name]>>]
      <4>1. FieldValues(values, name) \in S
        BY <1>2, <2>4, <3>2 DEF Inferring
      <4>2. Field(AsFields(v), name) \in FieldValues(values, name)
        BY <2>4 DEF FieldValues, Present
      <4>3. Field(AsFields(v), name) = AsFields(v)[name]
        BY DEF Field
      <4>4. Field(fields, name) = convert[<<AsFields(v)[name], type[FieldValues(values, name)]>>]
        BY <3>2, <4>3 DEF Field
      <4> QED BY <4>1, <4>2, <4>3, <4>4
    <3>4. converted # Null /\ ~ IsRaw(converted, "list") /\ IsRaw(converted, "dict")
          /\ converted.fields = fields
      BY <3>1 DEF Dict, Null, IsRaw
    <3>5. RetainedBy(converted, v, retains)
      <4> HIDE DEF converted, fields
      <4> QED BY <2>4, <3>3, <3>4 DEF RetainedBy, NodeRetained
    <3> QED BY <2>1, <3>5
  <2>5. CASE v # Null /\ ~ AnyIs(values, "list") /\ ~ AnyIs(values, "dict")
    <3>1. IsRaw(v, "text") /\ converted \in {v, Nearest(v)}
      BY <2>1, <2>5, TextIsConverted
    <3>2. Nearest(v) # Null /\ ~ IsRaw(Nearest(v), "list") /\ ~ IsRaw(Nearest(v), "dict")
      BY DEF Nearest, Null, IsRaw
    <3>3. converted # Null /\ ~ IsRaw(converted, "list") /\ ~ IsRaw(converted, "dict")
      <4> HIDE DEF converted
      <4> QED BY <2>5, <3>1, <3>2 DEF AnyIs, Present
    <3>4. RetainedBy(converted, v, retains)
      <4> HIDE DEF converted
      <4> QED BY <2>5, <3>1, <3>3 DEF RetainedBy, NodeRetained
    <3> QED BY <2>1, <3>4
  <2> QED BY <2>2, <2>3, <2>4, <2>5
<1>3. V \subseteq S
  <2> HIDE DEF S
  <2> QED BY <1>1, <1>2, TreeInduction
<1> QED BY <1>3

=============================================================================
