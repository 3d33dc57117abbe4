-------------------------- MODULE DuckDBEngineProofs --------------------------
(***************************************************************************)
(* What the local engine promises about cursors, streams, mounts and       *)
(* readers, for any calls, storages, locations and batches: the cleanup    *)
(* stack of execute() and the hooks of its result always name what the     *)
(* call holds, in an order in which it can be released.                    *)
(***************************************************************************)
EXTENDS DuckDBEngine, SequenceTheorems, FiniteSetTheorems, TLAPS

-----------------------------------------------------------------------------
(* Orders of acquiring and of releasing.                                   *)

NoneTwice(s) == \A i, j \in 1..Len(s) : s[i] = s[j] => i = j

(* A stack on which every resource has those it was built on below it.     *)
Stacked(c, s) ==
  /\ NoneTwice(s)
  /\ \A i \in 1..Len(s) : BuiltOn(c, s[i]) \subseteq {s[j] : j \in 1..(i - 1)}

(* Hooks that release every resource before those it was built on.         *)
Releasable(c, s) ==
  /\ NoneTwice(s)
  /\ \A i \in 1..Len(s) : BuiltOn(c, s[i]) \subseteq {s[j] : j \in (i + 1)..Len(s)}

(* ToSet over the indices of a sequence.                                   *)
LEMMA ElementsOf ==
  ASSUME NEW s \in Seq(Hooks)
  PROVE  ToSet(s) = {s[i] : i \in 1..Len(s)}
BY DEF ToSet

LEMMA EmptyStack ==
  ASSUME NEW c
  PROVE  /\ <<>> \in Seq(Hooks) /\ ToSet(<<>>) = {}
         /\ Stacked(c, <<>>) /\ Releasable(c, <<>>)
<1>1. <<>> \in Seq(Hooks) /\ Len(<<>>) = 0
  OBVIOUS
<1>2. ToSet(<<>>) = {}
  BY <1>1 DEF ToSet
<1>3. NoneTwice(<<>>) /\ 1..Len(<<>>) = {}
  BY <1>1 DEF NoneTwice
<1> QED BY <1>1, <1>2, <1>3 DEF Stacked, Releasable

(* Stacking a hook for a resource built on resources held.                 *)
LEMMA StackAppend ==
  ASSUME NEW c, NEW s \in Seq(Hooks), NEW h \in Hooks,
         Stacked(c, s), h \notin ToSet(s), BuiltOn(c, h) \subseteq ToSet(s)
  PROVE  /\ Append(s, h) \in Seq(Hooks)
         /\ ToSet(Append(s, h)) = ToSet(s) \cup {h}
         /\ Stacked(c, Append(s, h))
<1> DEFINE t == Append(s, h)
           n == Len(s)
<1>1. /\ t \in Seq(Hooks) /\ n \in Nat /\ Len(t) = n + 1 /\ t[n + 1] = h
      /\ \A i \in 1..n : t[i] = s[i]
  OBVIOUS
<1>2. ToSet(s) = {s[i] : i \in 1..n} /\ ToSet(t) = {t[i] : i \in 1..(n + 1)}
  BY <1>1, ElementsOf
<1>3. 1..(n + 1) = (1..n) \cup {n + 1} /\ n + 1 \notin 1..n
  BY <1>1
<1>4. ToSet(t) = ToSet(s) \cup {h}
  BY <1>1, <1>2, <1>3
<1>5. NoneTwice(t)
  BY <1>1, <1>2, <1>3 DEF Stacked, NoneTwice
<1>6. ASSUME NEW i \in 1..Len(t)
      PROVE  BuiltOn(c, t[i]) \subseteq {t[j] : j \in 1..(i - 1)}
  <2>1. CASE i = n + 1
    <3>1. {t[j] : j \in 1..(i - 1)} = ToSet(s)
      BY <1>1, <1>2, <2>1
    <3>2. t[i] = h
      BY <1>1, <2>1
    <3> HIDE DEF t, n
    <3> QED BY <3>1, <3>2
  <2>2. CASE i \in 1..n
    <3>1. {t[j] : j \in 1..(i - 1)} = {s[j] : j \in 1..(i - 1)}
      BY <1>1, <2>2
    <3>2. t[i] = s[i] /\ BuiltOn(c, s[i]) \subseteq {s[j] : j \in 1..(i - 1)}
      BY <1>1, <2>2 DEF Stacked
    <3> HIDE DEF t, n
    <3> QED BY <3>1, <3>2
  <2>3. i = n + 1 \/ i \in 1..n
    BY <1>1
  <2> QED BY <2>1, <2>2, <2>3
<1> QED BY <1>1, <1>4, <1>5, <1>6 DEF Stacked

(* The hooks handed to a result, or run when a step fails, are the stack   *)
(* from its top.                                                           *)
LEMMA ReverseReleases ==
  ASSUME NEW c, NEW s \in Seq(Hooks), Stacked(c, s)
  PROVE  /\ Reverse(s) \in Seq(Hooks)
         /\ ToSet(Reverse(s)) = ToSet(s)
         /\ Releasable(c, Reverse(s))
<1> DEFINE t == Reverse(s)
           n == Len(s)
<1>1. n \in Nat /\ \A i \in 1..n : s[i] \in Hooks
  OBVIOUS
<1>2. t = [i \in 1..n |-> s[(n - i) + 1]]
  BY DEF Reverse
<1>3. \A i \in 1..n : (n - i) + 1 \in 1..n /\ (n - ((n - i) + 1)) + 1 = i
  BY <1>1
<1>4. \A i \in 1..n : t[i] = s[(n - i) + 1] /\ s[i] = t[(n - i) + 1]
  BY <1>2, <1>3
<1>5. t \in Seq(Hooks) /\ Len(t) = n
  BY <1>1, <1>2, <1>3
<1>6. ToSet(t) = ToSet(s)
  <2>1. ToSet(s) = {s[i] : i \in 1..n} /\ ToSet(t) = {t[i] : i \in 1..n}
    BY <1>5, ElementsOf
  <2> HIDE DEF t, n
  <2> QED BY <1>3, <1>4, <2>1
<1>7. NoneTwice(t)
  <2> SUFFICES ASSUME NEW i \in 1..n, NEW j \in 1..n, t[i] = t[j] PROVE i = j
    BY <1>5 DEF NoneTwice
  <2>1. (n - i) + 1 = (n - j) + 1
    BY <1>3, <1>4 DEF Stacked, NoneTwice
  <2> QED BY <1>1, <2>1
<1>8. ASSUME NEW i \in 1..n
      PROVE  BuiltOn(c, t[i]) \subseteq {t[j] : j \in (i + 1)..n}
  <2>1. BuiltOn(c, t[i]) \subseteq {s[j] : j \in 1..(n - i)}
    <3>1. (n - i) + 1 \in 1..n /\ ((n - i) + 1) - 1 = n - i
      BY <1>1
    <3> QED BY <1>4, <3>1 DEF Stacked
  <2>2. ASSUME NEW j \in 1..(n - i) PROVE s[j] \in {t[k] : k \in (i + 1)..n}
    <3>1. j \in 1..n /\ (n - j) + 1 \in (i + 1)..n
      BY <1>1
    <3> QED BY <1>4, <3>1
  <2> QED BY <2>1, <2>2
<1> QED BY <1>5, <1>6, <1>7, <1>8 DEF Releasable

(* Running the first hook.                                                 *)
LEMMA TailReleases ==
  ASSUME NEW c, NEW s \in Seq(Hooks), s # <<>>, Releasable(c, s)
  PROVE  /\ Tail(s) \in Seq(Hooks) /\ Head(s) \in Hooks /\ Head(s) \in ToSet(s)
         /\ ToSet(Tail(s)) = ToSet(s) \ {Head(s)}
         /\ Releasable(c, Tail(s))
<1> DEFINE t == Tail(s)
           n == Len(s)
<1>1. /\ n \in Nat /\ n >= 1 /\ Head(s) = s[1] /\ Head(s) \in Hooks
      /\ t \in Seq(Hooks) /\ Len(t) = n - 1
      /\ \A i \in 1..(n - 1) : t[i] = s[i + 1]
  BY HeadTailProperties
<1>2. ToSet(s) = {s[i] : i \in 1..n} /\ ToSet(t) = {t[i] : i \in 1..(n - 1)}
  BY <1>1, ElementsOf
<1>3. NoneTwice(t)
  <2> SUFFICES ASSUME NEW i \in 1..(n - 1), NEW j \in 1..(n - 1), t[i] = t[j] PROVE i = j
    BY <1>1 DEF NoneTwice
  <2>1. i + 1 \in 1..n /\ j + 1 \in 1..n /\ s[i + 1] = s[j + 1]
    BY <1>1
  <2> QED BY <1>1, <2>1 DEF Releasable, NoneTwice
<1>4. ToSet(t) = ToSet(s) \ {Head(s)}
  <2>1. ASSUME NEW i \in 1..(n - 1) PROVE t[i] \in ToSet(s) \ {Head(s)}
    <3>1. i + 1 \in 1..n /\ 1 \in 1..n /\ i + 1 # 1
      BY <1>1
    <3> QED BY <1>1, <1>2, <3>1 DEF Releasable, NoneTwice
  <2>2. ASSUME NEW i \in 1..n, s[i] # Head(s) PROVE s[i] \in ToSet(t)
    <3>1. i - 1 \in 1..(n - 1) /\ (i - 1) + 1 = i
      BY <1>1, <2>2
    <3> QED BY <1>1, <1>2, <3>1
  <2> QED BY <1>2, <2>1, <2>2
<1>5. ASSUME NEW i \in 1..(n - 1)
      PROVE  BuiltOn(c, t[i]) \subseteq {t[j] : j \in (i + 1)..(n - 1)}
  <2>1. i + 1 \in 1..n /\ t[i] = s[i + 1]
    BY <1>1
  <2>2. BuiltOn(c, t[i]) \subseteq {s[j] : j \in ((i + 1) + 1)..n}
    BY <2>1 DEF Releasable
  <2>3. ASSUME NEW j \in ((i + 1) + 1)..n PROVE s[j] \in {t[k] : k \in (i + 1)..(n - 1)}
    <3>1. j - 1 \in (i + 1)..(n - 1) /\ j - 1 \in 1..(n - 1) /\ (j - 1) + 1 = j
      BY <1>1
    <3> QED BY <1>1, <3>1
  <2> QED BY <2>2, <2>3
<1>6. Head(s) \in ToSet(s)
  BY <1>1, <1>2
<1> QED BY <1>1, <1>3, <1>4, <1>5, <1>6 DEF Releasable

(* As many hooks as resources.                                             *)
LEMMA NoneTwiceCounts ==
  ASSUME NEW s \in Seq(Hooks), NoneTwice(s)
  PROVE  Cardinality(ToSet(s)) = Len(s)
<1> DEFINE n == Len(s)
<1>1. n \in Nat /\ s \in [1..n -> ToSet(s)] /\ ToSet(s) = {s[i] : i \in 1..n}
  BY ElementsOf
<1>2. s \in Bijection(1..n, ToSet(s))
  BY <1>1 DEF NoneTwice, Bijection, Injection, Surjection, IsInjective
<1>3. IsFiniteSet(1..n) /\ Cardinality(1..n) = n
  <2> HIDE DEF n
  <2>1. n \in Int /\ 1 \in Int
    BY <1>1
  <2>2. IsFiniteSet(1..n) /\ Cardinality(1..n) = IF 1 > n THEN 0 ELSE n - 1 + 1
    BY <2>1, FS_Interval, Zenon
  <2> QED BY <1>1, <2>2
<1> QED BY <1>2, <1>3, FS_Bijection DEF ExistsBijection

-----------------------------------------------------------------------------
(* The invariant, call by call.  What a call holds is determined by the    *)
(* step it is at, and until it has released it all, by the stack or the    *)
(* hooks that will.                                                        *)

(* What the scan of a relation leaves held when it has succeeded.          *)
ScanHolds(c) ==
  CASE Relation[c] = "stream" -> {"cursor", "stream", "view"}
    [] Relation[c] = "bridged" -> {"cursor", "mount"}
    [] OTHER -> {"cursor"}

AcquiredAt(c) ==
  [step \in {"start", "scan", "register", "run", "normalise"} |->
    CASE step = "start" -> {}
      [] step = "scan" -> {"cursor"}
      [] step = "register" -> {"cursor", "stream"}
      [] step = "run" -> ScanHolds(c)
      [] OTHER -> ScanHolds(c) \cup {"reader"}]

Executing(c) ==
  /\ held[c] = AcquiredAt(c)[pc[c]]
  /\ ToSet(cleanup[c]) = held[c] /\ Stacked(c, cleanup[c])
  /\ pc[c] = "register" => Relation[c] = "stream"
  /\ hooks[c] = <<>> /\ ~ closed[c]

(* The result is open and its hooks wait for its close.                    *)
Holding(c) ==
  /\ ToSet(on_close[c]) = held[c] /\ Releasable(c, on_close[c])
  /\ hooks[c] = <<>>

Releasing(c) == ToSet(hooks[c]) = held[c] /\ Releasable(c, hooks[c])

QueryInv(c) ==
  /\ pc[c] \in Steps \ {"query", "finally"}
  /\ pc[c] \in {"start", "scan", "register", "run", "normalise"} => Executing(c)
  /\ pc[c] = "open" /\ ~ closed[c] => Holding(c)
  /\ pc[c] = "unwinding" \/ (pc[c] = "open" /\ closed[c]) => Releasing(c)
  /\ pc[c] \in {"failed", "released"} => held[c] = {} /\ hooks[c] = <<>>
  /\ pc[c] = "released" => closed[c]

SchemaInv(c) ==
  /\ pc[c] \in {"start", "run", "query", "finally", "released"}
  /\ held[c] = IF pc[c] \in {"run", "query", "finally"} /\ Relation[c] = "bridged"
               THEN {"mount"} ELSE {}

CallInv(c) == (c \in Results => QueryInv(c)) /\ (c \in Schemas => SchemaInv(c))

CallsInv == TypeOK /\ \A c \in Calls : CallInv(c)

-----------------------------------------------------------------------------
(* A step of one call leaves the others' state alone.                      *)

SameCall(d) ==
  /\ pc'[d] = pc[d] /\ held'[d] = held[d] /\ cleanup'[d] = cleanup[d]
  /\ d \in Results => hooks'[d] = hooks[d] /\ closed'[d] = closed[d] /\ on_close'[d] = on_close[d]

LEMMA SameCallKeeps ==
  ASSUME NEW d \in Calls, CallInv(d), SameCall(d)
  PROVE  CallInv(d)'
<1>1. CASE d \in Schemas
  <2>1. d \notin Results
    BY <1>1, EngineInputs
  <2> QED BY <1>1, <2>1 DEF CallInv, SchemaInv, SameCall
<1>2. CASE d \in Results
  <2>1. d \notin Schemas
    BY <1>2, EngineInputs
  <2>2. QueryInv(d)'
    BY <1>2 DEF CallInv, QueryInv, SameCall, Executing, Holding, Releasing, AcquiredAt,
                ScanHolds
  <2> QED BY <2>1, <2>2 DEF CallInv
<1> QED BY <1>1, <1>2 DEF Calls

LEMMA OneCallMoves ==
  ASSUME CallsInv, NEW c \in Calls, TypeOK', CallInv(c)', \A d \in Calls \ {c} : SameCall(d)
  PROVE  CallsInv'
BY SameCallKeeps DEF CallsInv

(* A query that acquires a resource and stacks its hook.                   *)
LEMMA AcquireKeeps ==
  ASSUME CallsInv, NEW c \in Results, NEW h \in Hooks, NEW step \in {"scan", "register", "run", "normalise"},
         pc[c] \in {"start", "scan", "register", "run"},
         Acquire(c, h), Stack(c, h), Go(c, step), UNCHANGED <<resultVars, open>>,
         h \notin held[c], BuiltOn(c, h) \subseteq held[c],
         held[c] \cup {h} = AcquiredAt(c)[step],
         step = "register" => Relation[c] = "stream",
         mounts' \in [Keys -> Storages \cup {Nobody}], lock' \in Calls \cup {Nobody}
  PROVE  CallsInv'
<1>1. c \in Calls /\ c \notin Schemas
  BY EngineInputs DEF Calls
<1>2. TypeOK /\ Executing(c)
  BY <1>1 DEF CallsInv, CallInv, QueryInv
<1>3. cleanup[c] \in Seq(Hooks) /\ held[c] \in SUBSET Hooks
  BY <1>1, <1>2 DEF TypeOK
<1>4. /\ cleanup' = [cleanup EXCEPT ![c] = Append(cleanup[c], h)]
      /\ held' = [held EXCEPT ![c] = held[c] \cup {h}]
      /\ pc' = [pc EXCEPT ![c] = step]
      /\ UNCHANGED <<closed, on_close, hooks, read, iterator, taken, table, open>>
  BY DEF Acquire, Stack, Go, resultVars
<1>5. /\ Append(cleanup[c], h) \in Seq(Hooks)
      /\ ToSet(Append(cleanup[c], h)) = held[c] \cup {h}
      /\ Stacked(c, Append(cleanup[c], h))
  BY <1>2, <1>3, StackAppend DEF Executing
<1>6. TypeOK'
  BY <1>1, <1>2, <1>3, <1>4, <1>5 DEF TypeOK, Steps
<1>7. /\ pc'[c] = step /\ held'[c] = held[c] \cup {h} /\ cleanup'[c] = Append(cleanup[c], h)
      /\ hooks'[c] = hooks[c] /\ closed'[c] = closed[c]
  BY <1>1, <1>2, <1>4 DEF TypeOK
<1>8. Executing(c)'
  BY <1>2, <1>5, <1>7 DEF Executing, AcquiredAt, ScanHolds
<1>9. CallInv(c)'
  BY <1>1, <1>7, <1>8 DEF CallInv, QueryInv, Steps
<1>10. \A d \in Calls \ {c} : SameCall(d)
  BY <1>1, <1>2, <1>4 DEF SameCall, TypeOK
<1> QED BY <1>1, <1>6, <1>9, <1>10, OneCallMoves

(* A step of execute() that raises, or a closed connection.                *)
LEMMA UnwindKeeps ==
  ASSUME CallsInv, NEW c \in Results, pc[c] \in {"start", "scan", "register", "run", "normalise"},
         NEW stack \in Seq(Hooks), Stacked(c, stack), ToSet(stack) = held[c],
         Unwind(c, stack), UNCHANGED <<cleanup, held, mounts, lock, open>>
  PROVE  CallsInv'
<1>1. c \in Calls /\ c \notin Schemas
  BY EngineInputs DEF Calls
<1>2. TypeOK /\ Executing(c)
  BY <1>1 DEF CallsInv, CallInv, QueryInv
<1>3. /\ Reverse(stack) \in Seq(Hooks) /\ ToSet(Reverse(stack)) = held[c]
      /\ Releasable(c, Reverse(stack))
  BY ReverseReleases
<1>4. /\ hooks' = [hooks EXCEPT ![c] = Reverse(stack)]
      /\ pc' = [pc EXCEPT ![c] = "unwinding"]
      /\ UNCHANGED <<closed, on_close, read, iterator, taken, table>>
  BY DEF Unwind, Go
<1>5. TypeOK'
  BY <1>1, <1>2, <1>3, <1>4 DEF TypeOK, Steps
<1>6. pc'[c] = "unwinding" /\ hooks'[c] = Reverse(stack) /\ held'[c] = held[c]
  BY <1>1, <1>2, <1>4 DEF TypeOK
<1>7. CallInv(c)'
  BY <1>1, <1>3, <1>6 DEF CallInv, QueryInv, Releasing, Steps
<1>8. \A d \in Calls \ {c} : SameCall(d)
  BY <1>1, <1>2, <1>4 DEF SameCall, TypeOK
<1> QED BY <1>1, <1>5, <1>7, <1>8, OneCallMoves

LEMMA OpenCursorKeeps ==
  ASSUME CallsInv, NEW c \in Calls, OpenCursor(c)
  PROVE  CallsInv'
<1>1. c \in Results /\ pc[c] = "start" /\ TypeOK /\ Executing(c)
  BY DEF OpenCursor, CallsInv, CallInv, QueryInv
<1>2. held[c] = {}
  BY <1>1 DEF Executing, AcquiredAt
<1>3. CASE open
  <2>1. "cursor" \in Hooks /\ "cursor" \notin held[c] /\ BuiltOn(c, "cursor") = {}
    BY <1>2 DEF Hooks, BuiltOn
  <2>2. {} \cup {"cursor"} = AcquiredAt(c)["scan"]
    BY DEF AcquiredAt
  <2>3. /\ Acquire(c, "cursor") /\ Stack(c, "cursor") /\ Go(c, "scan")
        /\ UNCHANGED <<resultVars, mounts, lock, open>>
    BY <1>3 DEF OpenCursor, resultVars
  <2> QED BY <1>1, <1>2, <2>1, <2>2, <2>3, AcquireKeeps DEF TypeOK
<1>4. CASE ~ open
  <2>1. Unwind(c, <<>>) /\ UNCHANGED <<cleanup, held, mounts, lock, open>>
    BY <1>4 DEF OpenCursor
  <2> QED BY <1>1, <1>2, <2>1, UnwindKeeps, EmptyStack
<1> QED BY <1>3, <1>4

LEMMA OpenStreamKeeps ==
  ASSUME CallsInv, NEW c \in Calls, OpenStream(c)
  PROVE  CallsInv'
<1>1. /\ pc[c] = "scan" /\ Relation[c] = "stream"
      /\ Acquire(c, "stream") /\ Stack(c, "stream") /\ Go(c, "register")
      /\ UNCHANGED <<resultVars, mounts, lock, open>>
  BY DEF OpenStream
<1>2. c \in Results
  BY <1>1 DEF Calls, CallsInv, CallInv, SchemaInv
<1>3. TypeOK /\ Executing(c)
  BY <1>1, <1>2 DEF CallsInv, CallInv, QueryInv
<1>4. held[c] = {"cursor"} /\ "stream" \in Hooks /\ BuiltOn(c, "stream") = {}
  BY <1>1, <1>3 DEF Executing, AcquiredAt, Hooks, BuiltOn
<1>5. held[c] \cup {"stream"} = AcquiredAt(c)["register"]
  BY <1>4 DEF AcquiredAt
<1> QED BY <1>1, <1>2, <1>3, <1>4, <1>5, AcquireKeeps DEF TypeOK

LEMMA RegisterStreamKeeps ==
  ASSUME CallsInv, NEW c \in Calls, RegisterStream(c)
  PROVE  CallsInv'
<1>1. /\ pc[c] = "register"
      /\ Acquire(c, "view") /\ Stack(c, "view") /\ Go(c, "run")
      /\ UNCHANGED <<resultVars, mounts, lock, open>>
  BY DEF RegisterStream
<1>2. c \in Results
  BY <1>1 DEF Calls, CallsInv, CallInv, SchemaInv
<1>3. TypeOK /\ Executing(c)
  BY <1>1, <1>2 DEF CallsInv, CallInv, QueryInv
<1>4. Relation[c] = "stream" /\ held[c] = {"cursor", "stream"}
  BY <1>1, <1>3 DEF Executing, AcquiredAt
<1>5. "view" \in Hooks /\ BuiltOn(c, "view") = {"cursor", "stream"}
  BY DEF Hooks, BuiltOn
<1>6. held[c] \cup {"view"} = AcquiredAt(c)["run"]
  BY <1>4 DEF AcquiredAt, ScanHolds
<1> QED BY <1>1, <1>2, <1>3, <1>4, <1>5, <1>6, AcquireKeeps DEF TypeOK

LEMMA MountScanKeeps ==
  ASSUME CallsInv, NEW c \in Calls, MountScan(c)
  PROVE  CallsInv'
<1>1. /\ c \in Results /\ pc[c] = "scan" /\ Relation[c] # "stream"
      /\ Go(c, "run") /\ UNCHANGED <<resultVars, lock, open>>
  BY DEF MountScan
<1>2. TypeOK /\ Executing(c) /\ c \notin Schemas
  BY <1>1, EngineInputs DEF CallsInv, CallInv, QueryInv
<1>3. held[c] = {"cursor"}
  BY <1>1, <1>2 DEF Executing, AcquiredAt
<1>4. CASE Relation[c] = "bridged"
  <2>1. Acquire(c, "mount") /\ Stack(c, "mount") /\ mount(c)
    BY <1>4 DEF MountScan, MountStorage
  <2>2. "mount" \in Hooks /\ BuiltOn(c, "mount") = {}
    BY DEF Hooks, BuiltOn
  <2>3. held[c] \cup {"mount"} = AcquiredAt(c)["run"]
    BY <1>3, <1>4 DEF AcquiredAt, ScanHolds
  <2>4. mounts' \in [Keys -> Storages \cup {Nobody}]
    BY <1>2, <2>1 DEF mount, Storages, TypeOK
  <2> QED BY <1>1, <1>2, <1>3, <2>1, <2>2, <2>3, <2>4, AcquireKeeps DEF TypeOK
<1>5. CASE Relation[c] # "bridged"
  <2>1. UNCHANGED <<mounts, held, cleanup>> /\ pc' = [pc EXCEPT ![c] = "run"]
    BY <1>1, <1>5 DEF MountScan, MountStorage, Go
  <2>2. TypeOK'
    BY <1>1, <1>2, <2>1 DEF TypeOK, Steps, resultVars
  <2>3. pc'[c] = "run" /\ AcquiredAt(c)["run"] = {"cursor"}
    BY <1>1, <1>2, <1>5, <2>1 DEF TypeOK, AcquiredAt, ScanHolds
  <2>4. Executing(c)'
    BY <1>1, <1>2, <1>3, <2>1, <2>3 DEF Executing, AcquiredAt, ScanHolds, resultVars
  <2>5. CallInv(c)'
    BY <1>2, <2>3, <2>4 DEF CallInv, QueryInv, Steps
  <2>6. \A d \in Calls \ {c} : SameCall(d)
    BY <1>1, <1>2, <2>1 DEF SameCall, TypeOK, resultVars
  <2> QED BY <2>2, <2>5, <2>6, OneCallMoves
<1> QED BY <1>4, <1>5

LEMMA ExecuteKeeps ==
  ASSUME CallsInv, NEW c \in Calls, Execute(c)
  PROVE  CallsInv'
<1>1. /\ c \in Results /\ pc[c] = "run"
      /\ Acquire(c, "reader") /\ Stack(c, "reader") /\ Go(c, "normalise")
      /\ UNCHANGED <<resultVars, mounts, lock, open>>
  BY DEF Execute
<1>2. TypeOK /\ Executing(c)
  BY <1>1 DEF CallsInv, CallInv, QueryInv
<1>3. held[c] = ScanHolds(c)
  BY <1>1, <1>2 DEF Executing, AcquiredAt
<1>4. "reader" \in Hooks /\ "reader" \notin ScanHolds(c) /\ BuiltOn(c, "reader") \subseteq ScanHolds(c)
  BY DEF Hooks, BuiltOn, ScanHolds
<1>5. ScanHolds(c) \cup {"reader"} = AcquiredAt(c)["normalise"]
  BY DEF AcquiredAt
<1> QED BY <1>1, <1>2, <1>3, <1>4, <1>5, AcquireKeeps DEF TypeOK

LEMMA ReturnResultKeeps ==
  ASSUME CallsInv, NEW c \in Calls, ReturnResult(c)
  PROVE  CallsInv'
<1>1. /\ pc[c] = "normalise" /\ pc' = [pc EXCEPT ![c] = "open"]
      /\ on_close' = [on_close EXCEPT ![c] = Reverse(cleanup[c])]
      /\ UNCHANGED <<closed, hooks, read, iterator, taken, table, cleanup, held, mounts, lock, open>>
  BY DEF ReturnResult, Go
<1>2. c \in Results
  BY <1>1 DEF Calls, CallsInv, CallInv, SchemaInv
<1>3. TypeOK /\ Executing(c) /\ c \notin Schemas
  BY <1>1, <1>2, EngineInputs DEF CallsInv, CallInv, QueryInv
<1>4. cleanup[c] \in Seq(Hooks)
  BY <1>3 DEF TypeOK
<1>5. /\ Reverse(cleanup[c]) \in Seq(Hooks) /\ ToSet(Reverse(cleanup[c])) = held[c]
      /\ Releasable(c, Reverse(cleanup[c]))
  BY <1>3, <1>4, ReverseReleases DEF Executing
<1>6. TypeOK'
  BY <1>1, <1>2, <1>3, <1>5 DEF TypeOK, Steps
<1>7. pc'[c] = "open" /\ on_close'[c] = Reverse(cleanup[c]) /\ hooks'[c] = <<>> /\ ~ closed'[c]
  BY <1>1, <1>2, <1>3 DEF TypeOK, Executing
<1>8. CallInv(c)'
  BY <1>1, <1>3, <1>5, <1>7 DEF CallInv, QueryInv, Holding, Steps
<1>9. \A d \in Calls \ {c} : SameCall(d)
  BY <1>1, <1>2, <1>3 DEF SameCall, TypeOK
<1> QED BY <1>6, <1>8, <1>9, OneCallMoves

LEMMA StepRaisesKeeps ==
  ASSUME CallsInv, NEW c \in Calls, StepRaises(c)
  PROVE  CallsInv'
<1>1. /\ c \in Results /\ pc[c] \in {"scan", "register", "run", "normalise"}
      /\ Unwind(c, cleanup[c]) /\ UNCHANGED <<cleanup, held, mounts, lock, open>>
  BY DEF StepRaises
<1>2. TypeOK /\ Executing(c)
  BY <1>1 DEF CallsInv, CallInv, QueryInv
<1>3. cleanup[c] \in Seq(Hooks)
  BY <1>2 DEF TypeOK
<1> QED BY <1>1, <1>2, <1>3, UnwindKeeps DEF Executing

-----------------------------------------------------------------------------
(* The release: one hook after the other.                                  *)

LEMMA RunHookKeeps ==
  ASSUME CallsInv, NEW c \in Calls, RunHook(c)
  PROVE  CallsInv'
<1>1. /\ c \in Results /\ hooks[c] # <<>>
      /\ pc[c] = "unwinding" \/ (pc[c] = "open" /\ closed[c])
      /\ hooks' = [hooks EXCEPT ![c] = Tail(hooks[c])]
      /\ held' = [held EXCEPT ![c] = held[c] \ {Head(hooks[c])}]
      /\ IF Head(hooks[c]) = "mount" THEN unmount(c) ELSE UNCHANGED mounts
      /\ UNCHANGED <<closed, on_close, read, iterator, taken, table, pc, cleanup, lock, open>>
  BY DEF RunHook
<1>2. TypeOK /\ Releasing(c) /\ c \notin Schemas
  BY <1>1, EngineInputs DEF CallsInv, CallInv, QueryInv
<1>3. hooks[c] \in Seq(Hooks) /\ held[c] \in SUBSET Hooks
  BY <1>1, <1>2 DEF TypeOK
<1>4. /\ Tail(hooks[c]) \in Seq(Hooks) /\ Releasable(c, Tail(hooks[c]))
      /\ ToSet(Tail(hooks[c])) = held[c] \ {Head(hooks[c])}
  BY <1>1, <1>2, <1>3, TailReleases DEF Releasing
<1>5. mounts' \in [Keys -> Storages \cup {Nobody}]
  BY <1>1, <1>2 DEF unmount, TypeOK
<1>6. TypeOK'
  BY <1>1, <1>2, <1>3, <1>4, <1>5 DEF TypeOK
<1>7. hooks'[c] = Tail(hooks[c]) /\ held'[c] = held[c] \ {Head(hooks[c])}
  BY <1>1, <1>2 DEF TypeOK
<1>8. Releasing(c)'
  BY <1>4, <1>7 DEF Releasing
<1>9. CallInv(c)'
  BY <1>1, <1>2, <1>8 DEF CallInv, QueryInv, Steps
<1>10. \A d \in Calls \ {c} : SameCall(d)
  BY <1>1, <1>2 DEF SameCall, TypeOK
<1> QED BY <1>6, <1>9, <1>10, OneCallMoves

LEMMA HooksDoneKeeps ==
  ASSUME CallsInv, NEW c \in Calls, HooksDone(c)
  PROVE  CallsInv'
<1>1. /\ c \in Results /\ hooks[c] = <<>>
      /\ \/ pc[c] = "unwinding" /\ pc' = [pc EXCEPT ![c] = "failed"]
         \/ pc[c] = "open" /\ closed[c] /\ pc' = [pc EXCEPT ![c] = "released"]
      /\ UNCHANGED <<resultVars, cleanup, held, mounts, lock, open>>
  BY DEF HooksDone, Go
<1>2. TypeOK /\ Releasing(c) /\ c \notin Schemas
  BY <1>1, EngineInputs DEF CallsInv, CallInv, QueryInv
<1>3. held[c] = {}
  BY <1>1, <1>2, EmptyStack DEF Releasing
<1>4. TypeOK'
  BY <1>1, <1>2 DEF TypeOK, Steps, resultVars
<1>5. \/ pc'[c] = "failed"
      \/ pc'[c] = "released" /\ closed[c]
  BY <1>1, <1>2 DEF TypeOK
<1>6. CallInv(c)'
  BY <1>1, <1>2, <1>3, <1>5 DEF CallInv, QueryInv, Steps, resultVars
<1>7. \A d \in Calls \ {c} : SameCall(d)
  BY <1>1, <1>2 DEF SameCall, TypeOK, resultVars
<1> QED BY <1>4, <1>6, <1>7, OneCallMoves

-----------------------------------------------------------------------------
(* schema() calls.                                                         *)

LEMMA MountForSchemaKeeps ==
  ASSUME CallsInv, NEW c \in Calls, MountForSchema(c)
  PROVE  CallsInv'
<1>1. /\ c \in Schemas /\ pc[c] = "start" /\ MountStorage(c)
      /\ pc' = [pc EXCEPT ![c] = "run"] /\ UNCHANGED <<resultVars, cleanup, lock, open>>
  BY DEF MountForSchema, Go
<1>2. TypeOK /\ SchemaInv(c) /\ c \notin Results
  BY <1>1, EngineInputs DEF CallsInv, CallInv
<1>3. held[c] = {}
  BY <1>1, <1>2 DEF SchemaInv
<1>4. /\ held' \in [Calls -> SUBSET Hooks]
      /\ held'[c] = IF Relation[c] = "bridged" THEN {"mount"} ELSE {}
      /\ \A d \in Calls \ {c} : held'[d] = held[d]
      /\ mounts' \in [Keys -> Storages \cup {Nobody}]
  <2>1. CASE Relation[c] = "bridged"
    <3>1. mount(c) /\ held' = [held EXCEPT ![c] = held[c] \cup {"mount"}]
      BY <1>1, <2>1 DEF MountStorage, Acquire
    <3> QED BY <1>1, <1>2, <1>3, <2>1, <3>1 DEF mount, TypeOK, Hooks, Storages
  <2>2. CASE Relation[c] # "bridged"
    <3>1. UNCHANGED <<mounts, held>>
      BY <1>1, <2>2 DEF MountStorage
    <3> QED BY <1>2, <1>3, <2>2, <3>1 DEF TypeOK
  <2> QED BY <2>1, <2>2
<1>5. TypeOK'
  BY <1>1, <1>2, <1>4 DEF TypeOK, Steps, Hooks, resultVars
<1>6. pc'[c] = "run" /\ held'[c] = IF Relation[c] = "bridged" THEN {"mount"} ELSE {}
  BY <1>1, <1>2, <1>4 DEF TypeOK
<1>7. CallInv(c)'
  BY <1>2, <1>6 DEF CallInv, SchemaInv
<1>8. \A d \in Calls \ {c} : SameCall(d)
  BY <1>1, <1>2, <1>4 DEF SameCall, TypeOK, resultVars
<1> QED BY <1>5, <1>7, <1>8, OneCallMoves

LEMMA LockForSchemaKeeps ==
  ASSUME CallsInv, NEW c \in Calls, LockForSchema(c)
  PROVE  CallsInv'
<1>1. /\ c \in Schemas /\ pc[c] = "run" /\ lock' = c
      /\ pc' = [pc EXCEPT ![c] = "query"] /\ UNCHANGED <<resultVars, cleanup, held, mounts, open>>
  BY DEF LockForSchema, Go
<1>2. TypeOK /\ SchemaInv(c) /\ c \notin Results
  BY <1>1, EngineInputs DEF CallsInv, CallInv
<1>3. TypeOK' /\ pc'[c] = "query"
  BY <1>1, <1>2 DEF TypeOK, Steps, resultVars
<1>4. CallInv(c)'
  BY <1>1, <1>2, <1>3 DEF CallInv, SchemaInv
<1>5. \A d \in Calls \ {c} : SameCall(d)
  BY <1>1, <1>2 DEF SameCall, TypeOK, resultVars
<1> QED BY <1>3, <1>4, <1>5, OneCallMoves

LEMMA QuerySchemaKeeps ==
  ASSUME CallsInv, NEW c \in Calls, QuerySchema(c)
  PROVE  CallsInv'
<1>1. /\ pc[c] = "query" /\ lock' = Nobody
      /\ pc' = [pc EXCEPT ![c] = "finally"] /\ UNCHANGED <<resultVars, cleanup, held, mounts, open>>
  BY DEF QuerySchema, Go
<1>2. TypeOK /\ c \in Schemas /\ SchemaInv(c) /\ c \notin Results
  BY <1>1, EngineInputs DEF CallsInv, CallInv, QueryInv, Calls
<1>3. TypeOK' /\ pc'[c] = "finally"
  BY <1>1, <1>2 DEF TypeOK, Steps, resultVars
<1>4. CallInv(c)'
  BY <1>1, <1>2, <1>3 DEF CallInv, SchemaInv
<1>5. \A d \in Calls \ {c} : SameCall(d)
  BY <1>1, <1>2 DEF SameCall, TypeOK, resultVars
<1> QED BY <1>3, <1>4, <1>5, OneCallMoves

LEMMA ReleaseSchemaKeeps ==
  ASSUME CallsInv, NEW c \in Calls, ReleaseSchema(c)
  PROVE  CallsInv'
<1>1. /\ pc[c] = "finally" /\ held' = [held EXCEPT ![c] = {}]
      /\ IF Relation[c] = "bridged" THEN unmount(c) ELSE UNCHANGED mounts
      /\ pc' = [pc EXCEPT ![c] = "released"] /\ UNCHANGED <<resultVars, cleanup, lock, open>>
  BY DEF ReleaseSchema, Go
<1>2. TypeOK /\ c \in Schemas /\ SchemaInv(c) /\ c \notin Results
  BY <1>1, EngineInputs DEF CallsInv, CallInv, QueryInv, Calls
<1>3. mounts' \in [Keys -> Storages \cup {Nobody}]
  BY <1>1, <1>2 DEF unmount, TypeOK
<1>4. TypeOK' /\ pc'[c] = "released" /\ held'[c] = {}
  BY <1>1, <1>2, <1>3 DEF TypeOK, Steps, resultVars
<1>5. CallInv(c)'
  BY <1>2, <1>4 DEF CallInv, SchemaInv
<1>6. \A d \in Calls \ {c} : SameCall(d)
  BY <1>1, <1>2 DEF SameCall, TypeOK, resultVars
<1> QED BY <1>4, <1>5, <1>6, OneCallMoves

-----------------------------------------------------------------------------
(* The caller's use of a result.                                           *)

LEMMA ConsumeCloses ==
  ASSUME NEW r \in Results, Consume(r)
  PROVE  on_close' = on_close /\ (UNCHANGED <<closed, hooks>> \/ Close(r))
BY DEF Consume, batches, EnsureOpenRaises, NextBatch, NextEnds, NextFails, Abandon, to_arrow,
       to_arrow_raises, CloseResult

(* What reading changes keeps its type.                                    *)
LEMMA ConsumeTypes ==
  ASSUME TypeOK, NEW r \in Results, Consume(r)
  PROVE  /\ read' \in [Results -> 0..BatchCount]
         /\ iterator' \in [Results -> [Iterators -> IteratorStates]]
         /\ taken' \in [Results -> [Iterators -> Seq(1..BatchCount)]]
         /\ table' \in [Results -> Seq(0..BatchCount)]
<1>1. /\ read \in [Results -> 0..BatchCount]
      /\ iterator \in [Results -> [Iterators -> IteratorStates]]
      /\ taken \in [Results -> [Iterators -> Seq(1..BatchCount)]]
      /\ table \in [Results -> Seq(0..BatchCount)]
      /\ BatchCount \in Nat
  BY ResultBounds DEF TypeOK
<1>2. ASSUME NEW i \in Iterators, NEW state \in IteratorStates, SetIterator(r, i, state)
      PROVE  iterator' \in [Results -> [Iterators -> IteratorStates]]
  BY <1>1, <1>2 DEF SetIterator
<1>3. ASSUME NEW i \in Iterators, batches(r, i) \/ EnsureOpenRaises(r, i)
      PROVE  UNCHANGED <<read, taken, table>> /\ iterator' \in [Results -> [Iterators -> IteratorStates]]
  BY <1>2, <1>3 DEF batches, EnsureOpenRaises, IteratorStates
<1>4. ASSUME NEW i \in Iterators, NextEnds(r, i) \/ NextFails(r, i) \/ Abandon(r, i)
      PROVE  UNCHANGED <<read, taken, table>> /\ iterator' \in [Results -> [Iterators -> IteratorStates]]
  BY <1>2, <1>4 DEF NextEnds, NextFails, Abandon, IteratorStates
<1>5. ASSUME NEW i \in Iterators, NextBatch(r, i)
      PROVE  /\ UNCHANGED table /\ iterator' \in [Results -> [Iterators -> IteratorStates]]
             /\ read' \in [Results -> 0..BatchCount]
             /\ taken' \in [Results -> [Iterators -> Seq(1..BatchCount)]]
  <2>1. iterator' \in [Results -> [Iterators -> IteratorStates]]
    BY <1>2, <1>5 DEF NextBatch, IteratorStates
  <2>2. read' = [read EXCEPT ![r] = read[r] + 1] /\ read[r] + 1 \in 1..BatchCount
    BY <1>1, <1>5 DEF NextBatch
  <2>3. read'[r] \in 1..BatchCount /\ read' \in [Results -> 0..BatchCount]
    BY <1>1, <2>2
  <2>4. Append(taken[r][i], read'[r]) \in Seq(1..BatchCount)
    BY <1>1, <2>3
  <2>5. taken' = [taken EXCEPT ![r][i] = Append(taken[r][i], read'[r])]
    BY <1>5 DEF NextBatch
  <2>6. taken' \in [Results -> [Iterators -> Seq(1..BatchCount)]]
    BY <1>1, <2>4, <2>5
  <2> QED BY <1>5, <2>1, <2>3, <2>6 DEF NextBatch
<1>6. CASE to_arrow(r)
  <2>1. read' = [read EXCEPT ![r] = BatchCount] /\ table' = [table EXCEPT ![r] = Rest(r)]
        /\ UNCHANGED <<iterator, taken>>
    BY <1>6 DEF to_arrow
  <2>2. BatchCount - read[r] \in Nat /\ \A k \in 1..(BatchCount - read[r]) : read[r] + k \in 0..BatchCount
    BY <1>1
  <2>3. Rest(r) \in [1..(BatchCount - read[r]) -> 0..BatchCount]
    BY <2>2 DEF Rest
  <2>4. Rest(r) \in Seq(0..BatchCount)
    BY <2>2, <2>3, SeqDef
  <2> QED BY <1>1, <2>1, <2>4
<1>7. CASE to_arrow_raises(r)
  <2>1. PICK n \in read[r]..BatchCount : read' = [read EXCEPT ![r] = n]
    BY <1>7 DEF to_arrow_raises
  <2>2. n \in 0..BatchCount
    BY <1>1
  <2> QED BY <1>1, <1>7, <2>1, <2>2 DEF to_arrow_raises
<1>8. CASE CloseResult(r)
  BY <1>1, <1>8 DEF CloseResult
<1> QED BY <1>1, <1>3, <1>4, <1>5, <1>6, <1>7, <1>8 DEF Consume

LEMMA ResultCallKeeps ==
  ASSUME CallsInv, NEW c \in Results, ResultCall(c)
  PROVE  CallsInv'
<1>1. /\ pc[c] \in {"open", "released"} /\ (closed[c] => hooks[c] = <<>> /\ pc[c] = "released")
      /\ Consume(c) /\ UNCHANGED <<pc, cleanup, held, mounts, lock, open>>
  BY DEF ResultCall, engineVars
<1>2. TypeOK /\ QueryInv(c) /\ c \in Calls /\ c \notin Schemas
  BY EngineInputs DEF CallsInv, CallInv, Calls
<1>3. on_close' = on_close /\ (UNCHANGED <<closed, hooks>> \/ Close(c))
  BY <1>1, ConsumeCloses
<1>4. closed' \in [Results -> BOOLEAN] /\ hooks' \in [Results -> Seq(Hooks)]
  BY <1>2, <1>3 DEF Close, TypeOK
<1>5. TypeOK'
  BY <1>1, <1>2, <1>3, <1>4, ConsumeTypes DEF TypeOK
<1>6. CASE UNCHANGED <<closed, hooks>>
  <2>1. \A d \in Calls : SameCall(d)
    BY <1>1, <1>3, <1>6 DEF SameCall
  <2> QED BY <1>2, <1>5, <2>1, SameCallKeeps DEF CallsInv
<1>7. CASE Close(c)
  <2>1. \A d \in Calls \ {c} : SameCall(d)
    BY <1>1, <1>2, <1>3, <1>7 DEF SameCall, Close, TypeOK
  <2>2. closed'[c] /\ hooks'[c] = IF closed[c] THEN hooks[c] ELSE on_close[c]
    BY <1>2, <1>7 DEF Close, TypeOK
  <2>3. ASSUME closed[c] PROVE CallInv(c)'
    BY <1>1, <1>2, <2>2, <2>3 DEF CallInv, QueryInv
  <2>4. ASSUME ~ closed[c] PROVE CallInv(c)'
    <3>1. Releasing(c)' /\ pc[c] = "open"
      BY <1>1, <1>2, <2>2, <2>4 DEF QueryInv, Holding, Releasing
    <3> QED BY <1>1, <1>2, <2>2, <3>1 DEF CallInv, QueryInv
  <2>5. CallInv(c)'
    BY <2>3, <2>4
  <2> QED BY <1>2, <1>5, <2>1, <2>5, OneCallMoves
<1> QED BY <1>3, <1>6, <1>7

LEMMA CloseEngineKeeps ==
  ASSUME CallsInv, CloseEngine
  PROVE  CallsInv'
<1>1. TypeOK' /\ \A d \in Calls : SameCall(d)
  BY DEF CallsInv, CloseEngine, TypeOK, SameCall, resultVars
<1> QED BY <1>1, SameCallKeeps DEF CallsInv

LEMMA CallsInitially == Init => CallsInv
<1> SUFFICES ASSUME Init PROVE CallsInv
  OBVIOUS
<1>1. TypeOK
  BY EngineInputs, ResultBounds, EmptyStack
     DEF Init, ResultInit, TypeOK, Steps, Hooks, IteratorStates, NoTable
<1>2. ASSUME NEW c \in Calls PROVE CallInv(c)
  <2>1. pc[c] = "start" /\ held[c] = {} /\ cleanup[c] = <<>>
        /\ (c \in Results => hooks[c] = <<>> /\ ~ closed[c])
    BY DEF Init, ResultInit
  <2>2. c \in Results => Executing(c)
    BY <2>1, EmptyStack DEF Executing, AcquiredAt
  <2> QED BY <2>1, <2>2 DEF CallInv, QueryInv, SchemaInv, Steps
<1> QED BY <1>1, <1>2 DEF CallsInv

LEMMA CallsKept ==
  ASSUME CallsInv, [Next]_vars
  PROVE  CallsInv'
<1>1. ASSUME NEW c \in Calls, EngineStep(c) PROVE CallsInv'
  BY <1>1, OpenCursorKeeps, OpenStreamKeeps, RegisterStreamKeeps, MountScanKeeps, ExecuteKeeps,
     ReturnResultKeeps, StepRaisesKeeps, RunHookKeeps, HooksDoneKeeps, MountForSchemaKeeps,
     LockForSchemaKeeps, QuerySchemaKeeps, ReleaseSchemaKeeps
     DEF EngineStep
<1>2. CASE UNCHANGED vars
  <2>1. TypeOK' /\ \A d \in Calls : SameCall(d)
    BY <1>2 DEF CallsInv, TypeOK, SameCall, vars, resultVars, engineVars
  <2> QED BY <2>1, SameCallKeeps DEF CallsInv
<1> QED BY <1>1, <1>2, ResultCallKeeps, CloseEngineKeeps DEF Next

LEMMA CallsAlways == Spec => []CallsInv
BY CallsInitially, CallsKept, PTL DEF Spec

-----------------------------------------------------------------------------
(* Every variable of the engine and its results keeps its type.            *)
THEOREM EngineTypeCorrect == Spec => []TypeOK
<1>1. CallsInv => TypeOK
  BY DEF CallsInv
<1> QED BY <1>1, CallsAlways, PTL

(* FF-13, that every owned stream, cursor and job is closed: a call that   *)
(* failed, or whose result was closed, holds nothing.                      *)
THEOREM EngineNeverLeaks == Spec => []NothingLeaks
<1>1. CallsInv => NothingLeaks
  BY DEF CallsInv, CallInv, QueryInv, SchemaInv, NothingLeaks, Calls
<1> QED BY <1>1, CallsAlways, PTL

(* ... and once: the hooks that are left name resources that are held, and *)
(* none of them twice.                                                     *)
THEOREM EngineReleasesOnce == Spec => []ReleasedOnce
<1>1. ASSUME CallsInv, NEW c \in Results
      PROVE  ToSet(hooks[c]) \subseteq held[c] /\ Cardinality(ToSet(hooks[c])) = Len(hooks[c])
  <2>1. hooks[c] \in Seq(Hooks) /\ (hooks[c] = <<>> \/ Releasing(c))
    BY <1>1 DEF CallsInv, CallInv, QueryInv, Executing, Holding, TypeOK, Steps, Calls
  <2>2. CASE hooks[c] = <<>>
    BY <2>1, <2>2, EmptyStack, NoneTwiceCounts DEF Releasable
  <2>3. CASE Releasing(c)
    BY <2>1, <2>3, NoneTwiceCounts DEF Releasing, Releasable
  <2> QED BY <2>1, <2>2, <2>3
<1>2. CallsInv => ReleasedOnce
  BY <1>1 DEF ReleasedOnce
<1> QED BY <1>2, CallsAlways, PTL

(* No reader outlives the cursor and the scan it reads, no view its stream:*)
(* through every failure, and in every order in which hooks are run.       *)
THEOREM EngineReleasesInOrder == Spec => []NothingReadsReleased
<1>1. ASSUME NEW c, NEW s \in Seq(Hooks), Stacked(c, s) \/ Releasable(c, s),
             NEW resource \in ToSet(s)
      PROVE  BuiltOn(c, resource) \subseteq ToSet(s)
  <2>1. ToSet(s) = {s[i] : i \in 1..Len(s)} /\ Len(s) \in Nat
    BY ElementsOf
  <2>2. PICK i \in 1..Len(s) : resource = s[i]
    BY <2>1
  <2>3. CASE Stacked(c, s)
    <3>1. \A j \in 1..(i - 1) : s[j] \in ToSet(s)
      BY <2>1, <2>2
    <3>2. BuiltOn(c, s[i]) \subseteq {s[j] : j \in 1..(i - 1)}
      BY <2>3 DEF Stacked
    <3> QED BY <2>2, <3>1, <3>2
  <2>4. CASE Releasable(c, s)
    <3>1. \A j \in (i + 1)..Len(s) : s[j] \in ToSet(s)
      BY <2>1, <2>2
    <3>2. BuiltOn(c, s[i]) \subseteq {s[j] : j \in (i + 1)..Len(s)}
      BY <2>4 DEF Releasable
    <3> QED BY <2>2, <3>1, <3>2
  <2> QED BY <1>1, <2>3, <2>4
<1>2. ASSUME CallsInv, NEW c \in Results, NEW resource \in held[c]
      PROVE  BuiltOn(c, resource) \subseteq held[c]
  <2>1. TypeOK /\ QueryInv(c) /\ c \in Calls
    BY <1>2 DEF CallsInv, CallInv, Calls
  <2>2. cleanup[c] \in Seq(Hooks) /\ hooks[c] \in Seq(Hooks) /\ on_close[c] \in Seq(Hooks)
    BY <2>1 DEF TypeOK
  <2>3. Executing(c) \/ Holding(c) \/ Releasing(c)
    BY <1>2, <2>1 DEF QueryInv, Steps
  <2> QED BY <1>1, <2>2, <2>3, <1>2 DEF Executing, Holding, Releasing
<1>3. CallsInv => NothingReadsReleased
  BY <1>2 DEF NothingReadsReleased
<1> QED BY <1>3, CallsAlways, PTL

-----------------------------------------------------------------------------
(* The bridge's mount table.                                               *)

(* A step of one call: it does not touch the table and keeps its mount,    *)
(* or it mounts and holds, or it unmounts its key.                         *)
LEMMA MountKept ==
  ASSUME MountsAreHeld, TypeOK, NEW c \in Calls, \A d \in Calls \ {c} : held'[d] = held[d],
         \/ mounts' = mounts /\ ("mount" \in held[c] => "mount" \in held'[c])
         \/ mount(c) /\ "mount" \in held'[c]
         \/ unmount(c)
  PROVE  MountsAreHeld'
<1>1. mounts \in [Keys -> Storages \cup {Nobody}] /\ KeyOf[c] \in Keys
  BY EngineInputs DEF TypeOK
<1>2. CASE mounts' = mounts /\ ("mount" \in held[c] => "mount" \in held'[c])
  BY <1>2 DEF MountsAreHeld
<1>3. CASE mount(c) /\ "mount" \in held'[c]
  <2> SUFFICES ASSUME NEW k \in Keys, mounts'[k] # Nobody
               PROVE  \E d \in Calls : KeyOf[d] = k /\ "mount" \in held'[d]
    BY DEF MountsAreHeld
  <2>1. CASE k = KeyOf[c]
    BY <1>3, <2>1
  <2>2. CASE k # KeyOf[c]
    BY <1>1, <1>3, <2>2 DEF mount, MountsAreHeld
  <2> QED BY <2>1, <2>2
<1>4. CASE unmount(c)
  <2> SUFFICES ASSUME NEW k \in Keys, mounts'[k] # Nobody
               PROVE  \E d \in Calls : KeyOf[d] = k /\ "mount" \in held'[d]
    BY DEF MountsAreHeld
  <2>1. k # KeyOf[c] /\ mounts[k] # Nobody
    BY <1>1, <1>4 DEF unmount
  <2> QED BY <2>1 DEF MountsAreHeld
<1> QED BY <1>2, <1>3, <1>4

(* A call that acquires something else, or nothing, leaves the table.      *)
LEMMA HeldGrows ==
  ASSUME TypeOK, NEW c \in Calls, NEW h \in Hooks, Acquire(c, h)
  PROVE  /\ \A d \in Calls \ {c} : held'[d] = held[d]
         /\ held'[c] = held[c] \cup {h}
BY DEF Acquire, TypeOK

LEMMA MountsKept ==
  ASSUME CallsInv, MountsAreHeld, [Next]_vars
  PROVE  MountsAreHeld'
<1>1. TypeOK
  BY DEF CallsInv
<1>2. CASE UNCHANGED <<held, mounts>>
  BY <1>2 DEF MountsAreHeld
<1>3. ASSUME NEW c \in Calls, EngineStep(c) PROVE MountsAreHeld'
  <2>1. ASSUME NEW h \in Hooks, Acquire(c, h), UNCHANGED mounts PROVE MountsAreHeld'
    BY <1>1, <2>1, HeldGrows, MountKept
  <2>2. CASE OpenCursor(c) \/ OpenStream(c) \/ RegisterStream(c) \/ Execute(c)
    BY <1>2, <2>1, <2>2 DEF OpenCursor, OpenStream, RegisterStream, Execute, Hooks
  <2>3. CASE MountScan(c) \/ MountForSchema(c)
    <3>1. MountStorage(c)
      BY <2>3 DEF MountScan, MountForSchema
    <3>2. CASE Relation[c] = "bridged"
      <4>1. mount(c) /\ Acquire(c, "mount")
        BY <3>1, <3>2 DEF MountStorage
      <4>2. (\A d \in Calls \ {c} : held'[d] = held[d]) /\ "mount" \in held'[c]
        BY <1>1, <4>1, HeldGrows DEF Hooks
      <4> QED BY <1>1, <4>1, <4>2, MountKept
    <3> QED BY <1>2, <3>1, <3>2 DEF MountStorage
  <2>4. CASE RunHook(c)
    <3>1. /\ held' = [held EXCEPT ![c] = held[c] \ {Head(hooks[c])}]
          /\ IF Head(hooks[c]) = "mount" THEN unmount(c) ELSE UNCHANGED mounts
      BY <2>4 DEF RunHook
    <3>2. /\ \A d \in Calls \ {c} : held'[d] = held[d]
          /\ held'[c] = held[c] \ {Head(hooks[c])}
      BY <1>1, <3>1 DEF TypeOK
    <3> QED BY <1>1, <3>1, <3>2, MountKept
  <2>5. CASE ReleaseSchema(c)
    <3>1. /\ held' = [held EXCEPT ![c] = {}] /\ pc[c] = "finally"
          /\ IF Relation[c] = "bridged" THEN unmount(c) ELSE UNCHANGED mounts
      BY <2>5 DEF ReleaseSchema
    <3>2. c \in Schemas /\ SchemaInv(c)
      BY <3>1 DEF CallsInv, CallInv, QueryInv, Calls
    <3>3. (\A d \in Calls \ {c} : held'[d] = held[d]) /\ ("mount" \in held[c] => Relation[c] = "bridged")
      BY <1>1, <3>1, <3>2 DEF TypeOK, SchemaInv
    <3> QED BY <1>1, <3>1, <3>3, MountKept
  <2>6. CASE ReturnResult(c) \/ StepRaises(c) \/ HooksDone(c) \/ LockForSchema(c) \/ QuerySchema(c)
    BY <1>2, <2>6 DEF ReturnResult, StepRaises, HooksDone, LockForSchema, QuerySchema
  <2> QED BY <1>3, <2>2, <2>3, <2>4, <2>5, <2>6 DEF EngineStep
<1>4. ASSUME NEW r \in Results, ResultCall(r) PROVE MountsAreHeld'
  BY <1>2, <1>4 DEF ResultCall, engineVars
<1>5. CASE CloseEngine \/ UNCHANGED vars
  BY <1>2, <1>5 DEF CloseEngine, vars, engineVars
<1> QED BY <1>3, <1>4, <1>5 DEF Next

(* The bridge serves no location that no call has mounted and not yet      *)
(* released, although calls on one location replace each other's mount.    *)
THEOREM EngineMountsAreHeld == Spec => []MountsAreHeld
<1>1. Init => MountsAreHeld
  BY DEF Init, MountsAreHeld
<1> QED BY <1>1, CallsAlways, MountsKept, PTL DEF Spec

(* When no two calls read one location through the bridge.                 *)
OwnLocations ==
  \A c, d \in Calls :
    c # d /\ Relation[c] = "bridged" /\ Relation[d] = "bridged" => KeyOf[c] # KeyOf[d]

OwnMounts ==
  /\ MountSurvives
  /\ \A c \in Calls : "mount" \in held[c] => Relation[c] = "bridged"

LEMMA OwnMountKept ==
  ASSUME OwnLocations, OwnMounts, TypeOK, NEW c \in Calls,
         \A d \in Calls \ {c} : held'[d] = held[d],
         \/ mounts' = mounts /\ ("mount" \in held'[c] => "mount" \in held[c])
         \/ mount(c) /\ Relation[c] = "bridged"
         \/ unmount(c) /\ Relation[c] = "bridged" /\ "mount" \notin held'[c]
  PROVE  OwnMounts'
<1>1. mounts \in [Keys -> Storages \cup {Nobody}] /\ \A d \in Calls : KeyOf[d] \in Keys
  BY EngineInputs DEF TypeOK
<1>2. CASE mounts' = mounts /\ ("mount" \in held'[c] => "mount" \in held[c])
  BY <1>2 DEF OwnMounts, MountSurvives
<1>3. CASE mount(c) /\ Relation[c] = "bridged"
  <2>1. mounts'[KeyOf[c]] = StorageOf[c] /\ \A k \in Keys \ {KeyOf[c]} : mounts'[k] = mounts[k]
    BY <1>1, <1>3 DEF mount
  <2> QED BY <1>1, <1>3, <2>1 DEF OwnMounts, MountSurvives, OwnLocations
<1>4. CASE unmount(c) /\ Relation[c] = "bridged" /\ "mount" \notin held'[c]
  <2>1. \A k \in Keys \ {KeyOf[c]} : mounts'[k] = mounts[k]
    BY <1>1, <1>4 DEF unmount
  <2> QED BY <1>1, <1>4, <2>1 DEF OwnMounts, MountSurvives, OwnLocations
<1> QED BY <1>2, <1>3, <1>4

LEMMA OwnMountsKept ==
  ASSUME OwnLocations, CallsInv, OwnMounts, [Next]_vars
  PROVE  OwnMounts'
<1>1. TypeOK
  BY DEF CallsInv
<1>2. ASSUME UNCHANGED <<held, mounts>> PROVE OwnMounts'
  BY <1>2 DEF OwnMounts, MountSurvives
<1>3. ASSUME NEW c \in Calls, EngineStep(c) PROVE OwnMounts'
  <2>1. ASSUME NEW h \in Hooks \ {"mount"}, Acquire(c, h), UNCHANGED mounts PROVE OwnMounts'
    BY <1>1, <2>1, HeldGrows, OwnMountKept
  <2>2. CASE OpenCursor(c) \/ OpenStream(c) \/ RegisterStream(c) \/ Execute(c)
    BY <1>2, <2>1, <2>2 DEF OpenCursor, OpenStream, RegisterStream, Execute, Hooks
  <2>3. CASE MountScan(c) \/ MountForSchema(c)
    <3>1. MountStorage(c)
      BY <2>3 DEF MountScan, MountForSchema
    <3>2. CASE Relation[c] = "bridged"
      <4>1. mount(c) /\ Acquire(c, "mount")
        BY <3>1, <3>2 DEF MountStorage
      <4>2. \A d \in Calls \ {c} : held'[d] = held[d]
        BY <1>1, <4>1, HeldGrows DEF Hooks
      <4> QED BY <1>1, <3>2, <4>1, <4>2, OwnMountKept
    <3> QED BY <1>2, <3>1, <3>2 DEF MountStorage
  <2>4. CASE RunHook(c)
    <3>1. /\ held' = [held EXCEPT ![c] = held[c] \ {Head(hooks[c])}]
          /\ c \in Results /\ hooks[c] # <<>>
          /\ pc[c] = "unwinding" \/ (pc[c] = "open" /\ closed[c])
          /\ IF Head(hooks[c]) = "mount" THEN unmount(c) ELSE UNCHANGED mounts
      BY <2>4 DEF RunHook
    <3>2. /\ \A d \in Calls \ {c} : held'[d] = held[d]
          /\ held'[c] = held[c] \ {Head(hooks[c])}
      BY <1>1, <3>1 DEF TypeOK
    <3>3. Releasing(c) /\ hooks[c] \in Seq(Hooks)
      BY <3>1 DEF CallsInv, CallInv, QueryInv, TypeOK
    <3>4. Head(hooks[c]) \in held[c]
      BY <3>1, <3>3, TailReleases DEF Releasing
    <3> QED BY <1>1, <3>1, <3>2, <3>4, OwnMountKept DEF OwnMounts
  <2>5. CASE ReleaseSchema(c)
    <3>1. /\ held' = [held EXCEPT ![c] = {}]
          /\ IF Relation[c] = "bridged" THEN unmount(c) ELSE UNCHANGED mounts
      BY <2>5 DEF ReleaseSchema
    <3>2. (\A d \in Calls \ {c} : held'[d] = held[d]) /\ held'[c] = {}
      BY <1>1, <3>1 DEF TypeOK
    <3> QED BY <1>1, <3>1, <3>2, OwnMountKept
  <2>6. CASE ReturnResult(c) \/ StepRaises(c) \/ HooksDone(c) \/ LockForSchema(c) \/ QuerySchema(c)
    BY <1>2, <2>6 DEF ReturnResult, StepRaises, HooksDone, LockForSchema, QuerySchema
  <2> QED BY <1>3, <2>2, <2>3, <2>4, <2>5, <2>6 DEF EngineStep
<1>4. ASSUME NEW r \in Results, ResultCall(r) PROVE OwnMounts'
  BY <1>2, <1>4 DEF ResultCall, engineVars
<1>5. CASE CloseEngine \/ UNCHANGED vars
  BY <1>2, <1>5 DEF CloseEngine, vars, engineVars
<1> QED BY <1>3, <1>4, <1>5 DEF Next

(* A mount stays readable, and names the storage it was made for, until    *)
(* its call releases it, as long as calls have locations of their own.  (Two *)
(* calls on one location refute it: see shared_mount.)                     *)
THEOREM OwnMountsSurvive == OwnLocations => (Spec => []MountSurvives)
<1> SUFFICES ASSUME OwnLocations PROVE Spec => []MountSurvives
  OBVIOUS
<1>1. Init => OwnMounts
  BY DEF Init, OwnMounts, MountSurvives
<1>2. CallsInv /\ OwnMounts /\ [Next]_vars => OwnMounts'
  BY OwnMountsKept
<1>3. OwnMounts => MountSurvives
  BY DEF OwnMounts
<1> QED BY <1>1, <1>2, <1>3, CallsAlways, PTL DEF Spec

-----------------------------------------------------------------------------
(* Reading a result.  While it is open, its iterators have delivered what  *)
(* was read; a closed one delivers nothing more.                           *)
ReadInv(r) ==
  /\ \A i \in Iterators : ToSet(taken[r][i]) \subseteq 1..read[r]
  /\ \A i, j \in Iterators : i # j => ToSet(taken[r][i]) \cap ToSet(taken[r][j]) = {}
  /\ ~ closed[r] => table[r] = NoTable /\ Delivered(r) = 1..read[r]
  /\ table[r] # NoTable => ToSet(table[r]) = (1..BatchCount) \ Delivered(r)

ReadsInv == TypeOK /\ \A r \in Results : ReadInv(r)

(* A call that reads nothing, and at most closes the result.               *)
LEMMA NotReading ==
  ASSUME NEW r \in Results, ReadInv(r), read'[r] = read[r], taken'[r] = taken[r],
         table'[r] = table[r], closed[r] => closed'[r]
  PROVE  ReadInv(r)'
BY DEF ReadInv, Delivered

LEMMA NextBatchDelivers ==
  ASSUME ReadsInv, NEW r \in Results, NEW i \in Iterators, NextBatch(r, i)
  PROVE  ReadInv(r)'
<1> DEFINE n == read[r] + 1
<1>1. /\ TypeOK /\ ReadInv(r) /\ BatchCount \in Nat /\ read[r] \in Nat /\ n \in 1..BatchCount
      /\ ~ closed[r] /\ UNCHANGED <<closed, table>>
      /\ read'[r] = n /\ taken' = [taken EXCEPT ![r][i] = Append(taken[r][i], n)]
  BY ResultBounds DEF ReadsInv, NextBatch, TypeOK
<1>2. taken[r] \in [Iterators -> Seq(1..BatchCount)]
  BY <1>1 DEF TypeOK
<1>3. /\ taken'[r][i] = Append(taken[r][i], n)
      /\ \A j \in Iterators \ {i} : taken'[r][j] = taken[r][j]
  BY <1>1, <1>2 DEF TypeOK
<1>4. ToSet(Append(taken[r][i], n)) = ToSet(taken[r][i]) \cup {n}
  <2> DEFINE s == taken[r][i]
             t == Append(s, n)
  <2>1. s \in Seq(1..BatchCount)
    BY <1>2
  <2>2. /\ Len(s) \in Nat /\ DOMAIN s = 1..Len(s) /\ DOMAIN t = 1..(Len(s) + 1)
        /\ t[Len(s) + 1] = n /\ \A k \in 1..Len(s) : t[k] = s[k]
    BY <1>1, <2>1
  <2>3. 1..(Len(s) + 1) = (1..Len(s)) \cup {Len(s) + 1}
    BY <2>2
  <2> HIDE DEF s, t
  <2> QED BY <2>2, <2>3 DEF ToSet, s, t
<1>5. n \notin 1..read[r] /\ 1..n = (1..read[r]) \cup {n}
  BY <1>1
<1> HIDE DEF n
<1>6. \A j \in Iterators : ToSet(taken'[r][j]) \subseteq 1..n
  BY <1>1, <1>3, <1>4, <1>5, SMTT(20) DEF ReadInv
<1>7. \A j, k \in Iterators : j # k => ToSet(taken'[r][j]) \cap ToSet(taken'[r][k]) = {}
  BY <1>1, <1>3, <1>4, <1>5, SMTT(20) DEF ReadInv
<1>8. Delivered(r)' = Delivered(r) \cup {n}
  <2>1. Delivered(r)' = UNION {ToSet(taken'[r][j]) : j \in Iterators}
    BY DEF Delivered
  <2> QED BY <1>3, <1>4, <2>1 DEF Delivered
<1> QED BY <1>1, <1>5, <1>6, <1>7, <1>8 DEF ReadInv

LEMMA ToArrowDelivers ==
  ASSUME ReadsInv, NEW r \in Results, to_arrow(r)
  PROVE  ReadInv(r)'
<1>1. /\ TypeOK /\ ReadInv(r) /\ BatchCount \in Nat /\ read[r] \in 0..BatchCount
      /\ ~ closed[r] /\ taken' = taken /\ closed'[r]
      /\ read'[r] = BatchCount /\ table'[r] = Rest(r)
  BY ResultBounds DEF ReadsInv, to_arrow, TypeOK, Close
<1>2. ToSet(Rest(r)) = {read[r] + k : k \in 1..(BatchCount - read[r])}
  BY <1>1 DEF ToSet, Rest
<1>3. ToSet(Rest(r)) = (1..BatchCount) \ (1..read[r])
  <2>1. ASSUME NEW b \in (1..BatchCount) \ (1..read[r])
        PROVE  b - read[r] \in 1..(BatchCount - read[r]) /\ read[r] + (b - read[r]) = b
    BY <1>1
  <2>2. ASSUME NEW k \in 1..(BatchCount - read[r])
        PROVE  read[r] + k \in (1..BatchCount) \ (1..read[r])
    BY <1>1
  <2> QED BY <1>2, <2>1, <2>2
<1>4. Delivered(r)' = Delivered(r) /\ Delivered(r) = 1..read[r]
  BY <1>1 DEF Delivered, ReadInv
<1>5. 1..read[r] \subseteq 1..BatchCount
  BY <1>1
<1> QED BY <1>1, <1>3, <1>4, <1>5 DEF ReadInv

LEMMA RaisingReads ==
  ASSUME ReadsInv, NEW r \in Results, to_arrow_raises(r)
  PROVE  ReadInv(r)'
<1>1. /\ TypeOK /\ ReadInv(r) /\ taken' = taken /\ table' = table /\ closed'[r]
      /\ ~ closed[r]
  BY DEF ReadsInv, to_arrow_raises, TypeOK, Close
<1>2. PICK n \in read[r]..BatchCount : read' = [read EXCEPT ![r] = n]
  BY DEF to_arrow_raises
<1>3. read'[r] = n /\ 1..read[r] \subseteq 1..n
  BY <1>1, <1>2, ResultBounds DEF TypeOK
<1> QED BY <1>1, <1>3 DEF ReadInv, Delivered

LEMMA ConsumeReads ==
  ASSUME ReadsInv, NEW r \in Results, Consume(r)
  PROVE  \A q \in Results : ReadInv(q)'
<1>1. TypeOK /\ \A q \in Results : ReadInv(q)
  BY DEF ReadsInv
<1>2. ASSUME Close(r) \/ UNCHANGED closed, UNCHANGED <<read, taken, table>>
      PROVE  ReadInv(r)'
  BY <1>1, <1>2, NotReading DEF Close, TypeOK
<1>3. ASSUME NEW i \in Iterators,
             \/ batches(r, i) \/ EnsureOpenRaises(r, i)
             \/ NextEnds(r, i) \/ NextFails(r, i) \/ Abandon(r, i)
      PROVE  ReadInv(r)'
  BY <1>2, <1>3 DEF batches, EnsureOpenRaises, NextEnds, NextFails, Abandon
<1>4. ASSUME CloseResult(r) PROVE ReadInv(r)'
  BY <1>2, <1>4 DEF CloseResult
<1>5. ReadInv(r)'
  BY <1>3, <1>4, NextBatchDelivers, ToArrowDelivers, RaisingReads DEF Consume
<1>6. ASSUME NEW q \in Results \ {r} PROVE ReadInv(q)'
  <2>1. read'[q] = read[q] /\ taken'[q] = taken[q] /\ table'[q] = table[q] /\ closed'[q] = closed[q]
    BY <1>1 DEF Consume, batches, EnsureOpenRaises, NextBatch, NextEnds, NextFails, Abandon,
                to_arrow, to_arrow_raises, CloseResult, Close, TypeOK
  <2> QED BY <1>1, <2>1, NotReading
<1> QED BY <1>5, <1>6, Zenon

LEMMA ReadsAlways == Spec => []ReadsInv
<1>1. Init => ReadsInv
  <2> SUFFICES ASSUME Init PROVE ReadsInv
    OBVIOUS
  <2>1. TypeOK
    BY CallsInitially DEF CallsInv
  <2>2. ASSUME NEW r \in Results PROVE ReadInv(r)
    <3>1. /\ \A i \in Iterators : taken[r][i] = <<>>
          /\ read[r] = 0 /\ table[r] = NoTable
      BY DEF Init, ResultInit
    <3>2. \A i \in Iterators : ToSet(taken[r][i]) = {}
      BY <3>1, EmptyStack
    <3>3. Delivered(r) = {}
      BY <3>2, Zenon DEF Delivered
    <3>4. 1..read[r] = {}
      BY <3>1
    <3> QED BY <3>1, <3>2, <3>3, <3>4 DEF ReadInv
  <2> QED BY <2>1, <2>2 DEF ReadsInv
<1>2. ASSUME CallsInv, ReadsInv, [Next]_vars PROVE ReadsInv'
  <2>1. TypeOK'
    BY <1>2, CallsKept DEF CallsInv
  <2>2. ASSUME UNCHANGED <<closed, read, taken, table>> PROVE ReadsInv'
    BY <1>2, <2>1, <2>2, NotReading DEF ReadsInv
  <2>3. ASSUME NEW c \in Calls, EngineStep(c) PROVE ReadsInv'
    BY <2>2, <2>3
       DEF EngineStep, OpenCursor, OpenStream, RegisterStream, MountScan, Execute, ReturnResult,
           StepRaises, RunHook, HooksDone, MountForSchema, LockForSchema, QuerySchema,
           ReleaseSchema, Unwind, resultVars
  <2>4. ASSUME NEW r \in Results, ResultCall(r) PROVE ReadsInv'
    BY <1>2, <2>1, <2>4, ConsumeReads DEF ResultCall, ReadsInv
  <2>5. CASE CloseEngine \/ UNCHANGED vars
    BY <2>2, <2>5 DEF CloseEngine, vars, resultVars
  <2> QED BY <1>2, <2>3, <2>4, <2>5 DEF Next
<1> QED BY <1>1, <1>2, CallsAlways, PTL DEF Spec

(* Whatever consumers a result has had, no batch is delivered twice, and a *)
(* table together with what iterators took before it is complete.          *)
THEOREM EngineLosesNothing == Spec => []NothingLostOrRepeated
<1>1. ReadsInv => NothingLostOrRepeated
  BY DEF ReadsInv, ReadInv, NothingLostOrRepeated
<1> QED BY <1>1, ReadsAlways, PTL

=============================================================================
