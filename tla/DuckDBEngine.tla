----------------------------- MODULE DuckDBEngine -----------------------------
(***************************************************************************)
(* The local engine (adapters/duckdb_engine/engine.py): execute() acquires *)
(* a cursor, the scan's stream or a mount of the storage bridge, and the   *)
(* result reader, and stacks a cleanup hook for each; a failure at any     *)
(* step runs the stack from the top, a success hands it to the LocalResult.*)
(* Calls run on threads of their own and share the connection's lock and   *)
(* the bridge's mount table.                                               *)
(***************************************************************************)
EXTENDS LocalResult, FiniteSets, SequencesExt

CONSTANTS
  Schemas,  \* schema() calls; the calls that execute are Results
  Keys,     \* mount keys: digest of a storage's name and a location
  Relation, \* call -> "stream" (native source or format handler), "bridged"
            \* (file read through the bridge) or "file" (file:// path)
  KeyOf,    \* call -> the key its storage and location have
  StorageOf, \* call -> the storage object it reads
  Nobody    \* no call, no storage

Calls == Results \cup Schemas
Storages == {StorageOf[c] : c \in Calls}

ASSUME EngineInputs ==
  /\ Results \cap Schemas = {}
  /\ Relation \in [Calls -> {"stream", "bridged", "file"}]
  /\ \A c \in Schemas : Relation[c] # "stream"
  /\ KeyOf \in [Calls -> Keys]
  /\ DOMAIN StorageOf = Calls
  /\ Nobody \notin Calls
  /\ \A c \in Calls : StorageOf[c] # Nobody

VARIABLES
  pc,      \* call -> the step it is at
  cleanup, \* call -> cleanup stack of execute()
  held,    \* call -> resources acquired and not released
  mounts,  \* key -> the storage object mounted there (its location too)
  lock,    \* the call that holds the connection lock
  open     \* the connection is open

engineVars == <<pc, cleanup, held, mounts, lock, open>>
vars == <<resultVars, engineVars>>

Hooks == {"cursor", "stream", "view", "mount", "reader"}

Init ==
  /\ ResultInit
  /\ pc = [c \in Calls |-> "start"]
  /\ cleanup = [c \in Calls |-> <<>>]
  /\ held = [c \in Calls |-> {}]
  /\ mounts = [k \in Keys |-> Nobody]
  /\ lock = Nobody
  /\ open = TRUE

Go(c, step) == pc' = [pc EXCEPT ![c] = step]

-----------------------------------------------------------------------------
(* Acquiring, stacking and releasing.                                      *)

Acquire(c, resource) == held' = [held EXCEPT ![c] = @ \cup {resource}]

Stack(c, hook) == cleanup' = [cleanup EXCEPT ![c] = Append(@, hook)]

(* StorageBridge.mount: an earlier mount at the key is replaced.           *)
mount(c) == mounts' = [mounts EXCEPT ![KeyOf[c]] = StorageOf[c]]

(* Mutant of unmount: the URI is looked up as it is, so nothing is popped. *)
UnmountByURI(c) == Relation[c] = "bridged" /\ UNCHANGED mounts

(* StorageBridge.unmount: by key, whoever mounted it.                      *)
unmount(c) == mounts' = [mounts EXCEPT ![KeyOf[c]] = Nobody]

(* _mount: a file:// location is read by path and has nothing to release.  *)
MountStorage(c) ==
  IF Relation[c] = "bridged" THEN mount(c) /\ Acquire(c, "mount")
  ELSE UNCHANGED <<mounts, held>>

(* StorageBridge._resolve finds a storage at this call's key.              *)
Resolves(c) == Relation[c] = "bridged" => mounts[KeyOf[c]] # Nobody

(* except BaseException: run the hooks in reverse.                         *)
Unwind(c, stack) ==
  /\ hooks' = [hooks EXCEPT ![c] = Reverse(stack)]
  /\ Go(c, "unwinding")
  /\ UNCHANGED <<closed, on_close, read, iterator, taken, table>>

(* Mutant of RunHook: a hook that raises ends the release.                 *)
RunHookOrStop(c) ==
  /\ c \in Results
  /\ pc[c] = "unwinding" \/ (pc[c] = "open" /\ closed[c])
  /\ hooks[c] # <<>>
  /\ \E rest \in {Tail(hooks[c]), <<>>} : hooks' = [hooks EXCEPT ![c] = rest]
  /\ held' = [held EXCEPT ![c] = @ \ {Head(hooks[c])}]
  /\ IF Head(hooks[c]) = "mount" THEN unmount(c) ELSE UNCHANGED mounts
  /\ UNCHANGED <<closed, on_close, read, iterator, taken, table, pc, cleanup, lock, open>>

(* One cleanup hook.  An exception it raises is swallowed while unwinding  *)
(* and kept for the end by LocalResult.close: the next hook runs anyway.   *)
RunHook(c) ==
  /\ c \in Results
  /\ pc[c] = "unwinding" \/ (pc[c] = "open" /\ closed[c])
  /\ hooks[c] # <<>>
  /\ hooks' = [hooks EXCEPT ![c] = Tail(@)]
  /\ held' = [held EXCEPT ![c] = @ \ {Head(hooks[c])}]
  /\ IF Head(hooks[c]) = "mount" THEN unmount(c) ELSE UNCHANGED mounts
  /\ UNCHANGED <<closed, on_close, read, iterator, taken, table, pc, cleanup, lock, open>>

HooksDone(c) ==
  /\ c \in Results
  /\ hooks[c] = <<>>
  /\ \/ pc[c] = "unwinding" /\ Go(c, "failed")
     \/ pc[c] = "open" /\ closed[c] /\ Go(c, "released")
  /\ UNCHANGED <<resultVars, cleanup, held, mounts, lock, open>>

-----------------------------------------------------------------------------
(* execute().                                                              *)

(* The connection's cursor is taken under the lock.                        *)
OpenCursor(c) ==
  /\ c \in Results /\ pc[c] = "start" /\ lock = Nobody
  /\ IF open
     THEN /\ Acquire(c, "cursor") /\ Stack(c, "cursor") /\ Go(c, "scan")
          /\ UNCHANGED hooks
     ELSE /\ Unwind(c, <<>>)
          /\ UNCHANGED <<held, cleanup>>
  /\ UNCHANGED <<closed, on_close, read, iterator, taken, table, mounts, lock, open>>

(* Mutant of OpenStream: the hook is stacked with the registration's.      *)
OpenStreamUnhooked(c) ==
  /\ pc[c] = "scan" /\ Relation[c] = "stream"
  /\ Acquire(c, "stream") /\ Go(c, "register")
  /\ UNCHANGED <<resultVars, cleanup, mounts, lock, open>>

(* source.scan or handler.scan returns a stream; the stream's close hook   *)
(* is stacked before anything can fail.                                    *)
OpenStream(c) ==
  /\ pc[c] = "scan" /\ Relation[c] = "stream"
  /\ Acquire(c, "stream") /\ Stack(c, "stream") /\ Go(c, "register")
  /\ UNCHANGED <<resultVars, mounts, lock, open>>

RegisterStream(c) ==
  /\ pc[c] = "register"
  /\ Acquire(c, "view") /\ Stack(c, "view") /\ Go(c, "run")
  /\ UNCHANGED <<resultVars, mounts, lock, open>>

MountScan(c) ==
  /\ c \in Results /\ pc[c] = "scan" /\ Relation[c] # "stream"
  /\ MountStorage(c)
  /\ IF Relation[c] = "bridged" THEN Stack(c, "mount") ELSE UNCHANGED cleanup
  /\ Go(c, "run")
  /\ UNCHANGED <<resultVars, lock, open>>

(* The SQL runs on the cursor; a file is resolved through the bridge.      *)
Execute(c) ==
  /\ pc[c] = "run" /\ c \in Results /\ Resolves(c)
  /\ Acquire(c, "reader") /\ Stack(c, "reader") /\ Go(c, "normalise")
  /\ UNCHANGED <<resultVars, mounts, lock, open>>

(* Mutant of ReturnResult: the hooks run in the order they were stacked.   *)
ReturnUnreversed(c) ==
  /\ pc[c] = "normalise"
  /\ on_close' = [on_close EXCEPT ![c] = cleanup[c]]
  /\ Go(c, "open")
  /\ UNCHANGED <<closed, hooks, read, iterator, taken, table>>
  /\ UNCHANGED <<cleanup, held, mounts, lock, open>>

(* The LocalResult takes the hooks over.                                   *)
ReturnResult(c) ==
  /\ pc[c] = "normalise"
  /\ on_close' = [on_close EXCEPT ![c] = Reverse(cleanup[c])]
  /\ Go(c, "open")
  /\ UNCHANGED <<closed, hooks, read, iterator, taken, table>>
  /\ UNCHANGED <<cleanup, held, mounts, lock, open>>

(* Any of these steps may raise instead: the scan, the registration, the   *)
(* statement, the normalisation of the reader.                             *)
StepRaises(c) ==
  /\ c \in Results /\ pc[c] \in {"scan", "register", "run", "normalise"}
  /\ Unwind(c, cleanup[c])
  /\ UNCHANGED <<cleanup, held, mounts, lock, open>>

-----------------------------------------------------------------------------
(* The caller reads and closes an open result.                             *)

ResultCall(c) ==
  /\ pc[c] \in {"open", "released"}
  /\ closed[c] => hooks[c] = <<>> /\ pc[c] = "released"
  /\ Consume(c)
  /\ UNCHANGED engineVars

-----------------------------------------------------------------------------
(* schema() on a file source that declares no schema and that DuckDB reads *)
(* (other sources and handlers answer themselves), and close().            *)

MountForSchema(c) ==
  /\ c \in Schemas /\ pc[c] = "start"
  /\ MountStorage(c)
  /\ Go(c, "run")
  /\ UNCHANGED <<resultVars, cleanup, lock, open>>

LockForSchema(c) ==
  /\ c \in Schemas /\ pc[c] = "run" /\ lock = Nobody
  /\ lock' = c
  /\ Go(c, "query")
  /\ UNCHANGED <<resultVars, cleanup, held, mounts, open>>

(* Mutant of QuerySchema: a query that raises keeps the lock.              *)
QuerySchemaKeepsLock(c) ==
  /\ pc[c] = "query"
  /\ lock' \in {Nobody, c}
  /\ Go(c, "finally")
  /\ UNCHANGED <<resultVars, cleanup, held, mounts, open>>

(* The query returns or raises; either way the lock is left.               *)
QuerySchema(c) ==
  /\ pc[c] = "query"
  /\ lock' = Nobody
  /\ Go(c, "finally")
  /\ UNCHANGED <<resultVars, cleanup, held, mounts, open>>

ReleaseSchema(c) ==
  /\ pc[c] = "finally"
  /\ held' = [held EXCEPT ![c] = {}]
  /\ IF Relation[c] = "bridged" THEN unmount(c) ELSE UNCHANGED mounts
  /\ Go(c, "released")
  /\ UNCHANGED <<resultVars, cleanup, lock, open>>

CloseEngine ==
  /\ open /\ lock = Nobody
  /\ open' = FALSE
  /\ UNCHANGED <<resultVars, pc, cleanup, held, mounts, lock>>

EngineStep(c) ==
  \/ OpenCursor(c) \/ OpenStream(c) \/ RegisterStream(c) \/ MountScan(c)
  \/ Execute(c) \/ ReturnResult(c) \/ StepRaises(c) \/ RunHook(c) \/ HooksDone(c)
  \/ MountForSchema(c) \/ LockForSchema(c) \/ QuerySchema(c) \/ ReleaseSchema(c)

Next == (\E c \in Calls : EngineStep(c)) \/ (\E r \in Results : ResultCall(r)) \/ CloseEngine

Spec == Init /\ [][Next]_vars

(* The calls made run on; the caller may keep a result forever.            *)
LiveSpec == Spec /\ \A c \in Calls : WF_vars(EngineStep(c))

-----------------------------------------------------------------------------
Steps == {"start", "scan", "register", "run", "normalise", "open", "unwinding",
          "failed", "released", "query", "finally"}

TypeOK ==
  /\ pc \in [Calls -> Steps]
  /\ cleanup \in [Calls -> Seq(Hooks)]
  /\ hooks \in [Results -> Seq(Hooks)]
  /\ on_close \in [Results -> Seq(Hooks)]
  /\ held \in [Calls -> SUBSET Hooks]
  /\ mounts \in [Keys -> Storages \cup {Nobody}]
  /\ lock \in Calls \cup {Nobody}
  /\ open \in BOOLEAN
  /\ closed \in [Results -> BOOLEAN]
  /\ read \in [Results -> 0..BatchCount]
  /\ iterator \in [Results -> [Iterators -> IteratorStates]]
  /\ taken \in [Results -> [Iterators -> Seq(1..BatchCount)]]
  /\ table \in [Results -> Seq(0..BatchCount)]

(* FF-13, "every owned stream/cursor/job is closed": wherever execute()    *)
(* fails, and however a result is read or abandoned, a call that has ended *)
(* holds nothing.                                                          *)
NothingLeaks == \A c \in Calls : pc[c] \in {"failed", "released"} => held[c] = {}

(* ... "once": the hooks still to run are those of resources still held,   *)
(* without repetition.                                                     *)
ReleasedOnce ==
  \A c \in Results :
    /\ ToSet(hooks[c]) \subseteq held[c]
    /\ Cardinality(ToSet(hooks[c])) = Len(hooks[c])

(* A resource is released before those it was built on: the reader before  *)
(* the cursor and the scan behind it, the view before its stream.          *)
BuiltOn(c, resource) ==
  CASE resource = "reader" -> {"cursor"} \cup (CASE Relation[c] = "stream" -> {"view", "stream"}
                                                 [] Relation[c] = "bridged" -> {"mount"}
                                                 [] OTHER -> {})
    [] resource = "view" -> {"cursor", "stream"}
    [] OTHER -> {}

NothingReadsReleased ==
  \A c \in Results : \A resource \in held[c] : BuiltOn(c, resource) \subseteq held[c]

(* A mount does not outlive its holders, whatever other calls mount and    *)
(* unmount at the same key.                                                *)
MountsAreHeld ==
  \A k \in Keys : mounts[k] # Nobody => \E c \in Calls : KeyOf[c] = k /\ "mount" \in held[c]

(* mount() "returns the DuckDB-readable URI": it stays readable, and names *)
(* the storage it was returned for, until the call that mounted releases it.*)
MountSurvives == \A c \in Calls : "mount" \in held[c] => mounts[KeyOf[c]] = StorageOf[c]

Delivered(r) == UNION {ToSet(taken[r][i]) : i \in Iterators}

(* Whatever consumers a result has had, each batch goes to one of them, and *)
(* a table is never short: with what iterators took before, it is complete. *)
NothingLostOrRepeated ==
  \A r \in Results :
    /\ \A i, j \in Iterators : i # j => ToSet(taken[r][i]) \cap ToSet(taken[r][j]) = {}
    /\ table[r] # NoTable => ToSet(table[r]) = (1..BatchCount) \ Delivered(r)

(* "Results can be consumed once": one consumer gets all that is read.     *)
ConsumedOnce ==
  \A r \in Results :
    Cardinality({i \in Iterators : taken[r][i] # <<>>})
      + (IF table[r] \in {NoTable, <<>>} THEN 0 ELSE 1) <= 1

(* Every call gets to its end, success or failure: no call leaves the lock *)
(* taken for those that wait for it, none waits for a mount.               *)
EveryCallEnds == <>(\A c \in Calls : pc[c] \in {"open", "failed", "released"})

(* A closed result releases all it holds, even when hooks raise.           *)
ClosedResultsRelease == \A r \in Results : closed[r] ~> held[r] = {}

=============================================================================
