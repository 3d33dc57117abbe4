-------------------------- MODULE MCQueryExecution --------------------------
(***************************************************************************)
(* A small instance of QueryExecution.  Four sequences of conjuncts and    *)
(* five projections are planned for targets that vary in every capability  *)
(* the planner reads.  The plans of some of them, in which every support   *)
(* level of a scan meets every other, are also executed, on three rows     *)
(* that the conjuncts tell apart and with limits around their number.      *)
(***************************************************************************)
EXTENDS QueryExecution

MCColumns == {"a", "b"}
MCTableColumns == <<"a", "b">>
MCOutputNames == {"a", "b", "x"}
MCRows == {1, 2, 3}

EqA == [kinds |-> {"column", "comparison", "literal"}, columns |-> <<"a">>, keeps |-> {1, 2}]
LikeB == [kinds |-> {"column", "like", "literal"}, columns |-> <<"b">>, keeps |-> {2, 3}]
ParamBA == [kinds |-> {"column", "comparison", "parameter"}, columns |-> <<"b", "a">>, keeps |-> {1, 2}]

ExecutedClauses == {EqA, LikeB}
MCPredicates == {<<EqA>>, <<LikeB>>, <<ParamBA>>, <<LikeB, EqA>>}

Col(c) == [kinds |-> {"column"}, columns |-> <<c>>, name |-> c]
Renamed == [kinds |-> {"column", "alias"}, columns |-> <<"b">>, name |-> "x"]
Constant == [kinds |-> {"literal", "alias"}, columns |-> <<>>, name |-> "x"]

ExecutedProjections == {<<Col("a")>>, <<Col("b"), Col("a")>>, <<Renamed>>, <<Constant>>}
MCProjectionChoices == ExecutedProjections \cup {<<Col("a"), Renamed>>}

(* What a limit is matters to execution only.                              *)
PlannedLimit == 0
MCLimitChoices == {0, 1, 2}

AllButLike == ExpressionKinds \ {"like"}
AllButAlias == ExpressionKinds \ {"alias"}

Scans ==
  {scan \in [projection : Support, predicate : Support, limit : Support,
             expressions : {ExpressionKinds, AllButLike}, parameters : BOOLEAN] :
     scan.parameters \/ scan.expressions = ExpressionKinds}

(* An engine without residual projections refuses aliases in any case.     *)
Engines ==
  {engine \in [residual_expressions : {ExpressionKinds, AllButLike, AllButAlias},
               residual_projection : BOOLEAN, residual_limit : BOOLEAN] :
     engine.residual_projection \/ engine.residual_expressions = AllButLike}

(* Unreachable targets: only the scan node's treatment differs.            *)
UnreachableTargets ==
  [scan : [projection : {"full"}, predicate : Support, limit : {"partial"},
           expressions : {AllButLike}, parameters : {TRUE}],
   engine : [residual_expressions : {ExpressionKinds, AllButLike},
             residual_projection : {TRUE}, residual_limit : BOOLEAN],
   reachable : {FALSE}]

PlannedTargets == [scan : Scans, engine : Engines, reachable : {TRUE}] \cup UnreachableTargets

ExecutedTargets ==
  [scan : [projection : Support, predicate : Support, limit : Support,
           expressions : {ExpressionKinds, AllButLike}, parameters : {TRUE}],
   engine : [residual_expressions : {ExpressionKinds}, residual_projection : {TRUE},
             residual_limit : {TRUE}],
   reachable : {TRUE}]
  \cup
  [scan : [projection : {"full"}, predicate : Support, limit : Support,
           expressions : {AllButLike}, parameters : {TRUE}],
   engine : [residual_expressions : {AllButLike}, residual_projection : BOOLEAN,
             residual_limit : {FALSE}],
   reachable : BOOLEAN]

MCTargets == PlannedTargets \cup ExecutedTargets

-----------------------------------------------------------------------------
Executed ==
  /\ target \in ExecutedTargets
  /\ \A i \in DOMAIN plan.predicate : plan.predicate[i] \in ExecutedClauses
  /\ plan.projection \in ExecutedProjections \cup {<<>>}

(* What is followed further: every plan and target up to the end of        *)
(* planning, with one limit, and executed ones up to their answer.         *)
Followed ==
  \/ phase = "building"
  \/ Executed
  \/ phase = "planning" /\ plan.limit \in {PlannedLimit, NoLimit} /\ target \in PlannedTargets

=============================================================================
