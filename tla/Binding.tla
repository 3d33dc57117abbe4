------------------------------- MODULE Binding -------------------------------
(***************************************************************************)
(* A plan bound to a source's schema (application/binding.py): names       *)
(* resolved, operands checked against each other, output columns typed;    *)
(* and the values given for its parameters (application/parameters.py).    *)
(* An exception is a Refused node: it refuses the plan it is in.           *)
(***************************************************************************)
EXTENDS Predicates, Types

IsRefused(e) == Refused \in walk(e)

NoProjection == <<>>
NoCount == -1
Plan(predicate, projection, count) ==
  [predicate |-> predicate, projection |-> projection, limit |-> count]

Expressions(plan) == {plan.predicate} \cup ToSet(plan.projection)
PlanParameters(plan) == UNION {referenced_parameters(e) : e \in Expressions(plan)}

-----------------------------------------------------------------------------
(* Literals.  A decimal value carries its digits and exponent.             *)

DecimalNumber(coefficient, digits, exponent) ==
  [kind |-> "decimal", digits |-> digits, exponent |-> exponent,
   rank |-> IF exponent < 0 THEN (coefficient * Unit) \div (10 ^ (- exponent))
            ELSE coefficient * Unit * 10 ^ exponent]

(* is_portable_type and normalise_portable_type, through lists.            *)
RECURSIVE is_portable_type(_), normalise_portable_type(_)
is_portable_type(type) ==
  IF type.kind = "list" THEN is_portable_type(type.element) ELSE IsPortable(type)

normalise_portable_type(type) ==
  CASE type.kind = "list" -> ListType(normalise_portable_type(type.element))
    [] type.kind = "timestamp" -> TimestampType(IF type.timezone = "none" THEN "none" ELSE "UTC")
    [] OTHER -> type

-----------------------------------------------------------------------------
(* bind_parameters: every parameter of the plan is given, none else, each  *)
(* with a literal of the portable profile.                                 *)
AcceptsParameters(plan, supplied) ==
  /\ DOMAIN supplied = PlanParameters(plan)
  /\ \A name \in DOMAIN supplied :
       IsLiteralValue(supplied[name]) /\ is_portable_type(infer_literal_type(supplied[name]))

NoParameters == [p \in {} |-> Null]

-----------------------------------------------------------------------------
(* expression_type, and _Binder.type_of, which substitutes what is known.  *)
RECURSIVE expression_type(_, _)
expression_type(e, schema) == NodeExpressionType(e, schema, expression_type)

(* Mutant of type_of: parameters keep an unknown type.                     *)
type_without_values(e, schema, parameters) == expression_type(e, schema)

type_of(e, schema, parameters) ==
  expression_type(IF parameters = NoParameters THEN e ELSE substitute_parameters(e, parameters), schema)

(* _Binder.bind *)
RECURSIVE bind(_, _, _)
bind(e, schema, parameters) == NodeBound(e, schema, parameters, bind, type_of, is_portable_type)

bind_projected(e, schema, parameters) ==
  IF e.node = "alias" THEN [e EXCEPT !.expression = bind(@, schema, parameters)]
  ELSE bind(e, schema, parameters)

unalias(e) == IF e.node = "alias" THEN e.expression ELSE e

DistinctNames(fields) == \A i, j \in DOMAIN fields : fields[i].name = fields[j].name => i = j

(* where(), select() and limit() on a new plan.                            *)
Rebuilt(predicate, projection, count) ==
  Plan(and_all(conjuncts(predicate)), projection, count)

NoPlan == [plan |-> Plan(Refused, NoProjection, NoCount), output |-> <<>>]

bind_plan(plan, schema, parameters) ==
  LET predicate == IF plan.predicate = NoPredicate THEN NoPredicate
                   ELSE bind(plan.predicate, schema, parameters)
      projection == [i \in DOMAIN plan.projection |->
                       bind_projected(plan.projection[i], schema, parameters)]
      OutputOf(e) == Field(e.name, normalise_portable_type(type_of(unalias(e), schema, parameters)))
      output == IF projection # NoProjection THEN [i \in DOMAIN projection |-> OutputOf(projection[i])]
                ELSE [i \in DOMAIN schema |-> Field(schema[i].name, normalise_portable_type(schema[i].type))]
  IN IF \/ IsRefused(predicate) \/ \E e \in ToSet(projection) : IsRefused(e)
        \/ predicate # NoPredicate /\ ~ IsOfKind(type_of(predicate, schema, parameters), {"boolean"})
        \/ ~ DistinctNames(output)
        \/ \E field \in ToSet(output) : ~ is_portable_type(field.type)
     THEN NoPlan
     ELSE [plan |-> Rebuilt(predicate, projection, plan.limit), output |-> output]

=============================================================================
