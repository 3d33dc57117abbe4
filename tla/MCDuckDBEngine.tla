---------------------------- MODULE MCDuckDBEngine ----------------------------
(***************************************************************************)
(* Small instances of DuckDBEngine: a streamed query, a bridged query and  *)
(* a schema() call, all on one mount key.                                  *)
(***************************************************************************)
EXTENDS DuckDBEngine

CONSTANTS q1, q2, s1, k1, d1, i1

MCResults == {q1, q2}
MCSchemas == {s1}
MCKeys == {k1}
MCIterators == {i1}

(* q1 reads a stream; q2 and the schema() calls read through the bridge.   *)
StreamAndBridge == [c \in {q2, s1} |-> "bridged"] @@ (q1 :> "stream")
OnlyBridge == [c \in {q1, q2, s1} |-> "bridged"]

(* One storage and one location for all the calls.                         *)
SharedKeys == [c \in Calls |-> k1]
OneStorage == [c \in Calls |-> d1]

=============================================================================
