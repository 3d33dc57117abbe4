---------------------------- MODULE PredicateScan ----------------------------
(***************************************************************************)
(* A scan with a pushed predicate, by a source that binds its parameters,  *)
(* has its provider evaluate what it can, and means by it what the engine  *)
(* would.                                                                  *)
(***************************************************************************)
EXTENDS PushedScan, Predicates

Requests(predicates, projections) ==
  [predicate : predicates, projection : projections, limit : {NoLimit, 0, 1, 2}]

(* The parameters of the predicate are substituted before it is split.     *)
ParametersBound == referenced_parameters(pushed.predicate) \subseteq DOMAIN parameters

BoundPredicate == substitute_parameters(pushed.predicate, parameters)

(* The documents whose row, as a reader sees it, the predicate keeps.      *)
Wanted(rowOf(_)) ==
  IF ParametersBound THEN {d \in documents : Keeps(BoundPredicate, rowOf(d))} ELSE {}

RefuseScan ==
  /\ pc = "start" /\ ~ ParametersBound
  /\ pc' = "failed"
  /\ UNCHANGED <<requestVars, local, fetched, limit, cursor, buffer, output>>

=============================================================================
