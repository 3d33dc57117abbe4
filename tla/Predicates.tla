------------------------------ MODULE Predicates ------------------------------
(***************************************************************************)
(* Portable predicate trees (domain/expressions.py) and what they mean: as *)
(* the SQL text the engine runs for them (adapters/_shared/sqltext.py),    *)
(* the reference for every adapter that evaluates pushed predicates by     *)
(* other means.                                                            *)
(***************************************************************************)
EXTENDS PredicateNodes

RECURSIVE walk(_)
walk(e) == {e} \cup UNION {walk(child) : child \in ToSet(children(e))}

referenced_columns(e) == {n.name : n \in {x \in walk(e) : x.node = "column"}}

referenced_parameters(e) == {n.name : n \in {x \in walk(e) : x.node = "parameter"}}

RECURSIVE conjuncts(_)
conjuncts(e) ==
  CASE e.node = "none" -> <<>>
    [] e.node = "and" ->
         FlattenSeq([i \in DOMAIN e.operands |-> conjuncts(e.operands[i])])
    [] OTHER -> <<e>>

and_all(items) ==
  CASE items = <<>> -> NoPredicate
    [] Len(items) = 1 -> items[1]
    [] OTHER -> And(items)

RECURSIVE substitute_parameters(_, _)
substitute_parameters(e, values) == NodeSubstituted(e, values, substitute_parameters)

-----------------------------------------------------------------------------
RECURSIVE ValueOf(_, _), Meaning(_, _)
ValueOf(e, row) == NodeValue(e, row, ValueOf, Meaning)
Meaning(e, row) == NodeMeaning(e, row, ValueOf, Meaning)

Keeps(e, row) == Meaning(e, row) = True

=============================================================================
