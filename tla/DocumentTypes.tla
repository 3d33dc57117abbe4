---------------------------- MODULE DocumentTypes ----------------------------
(***************************************************************************)
(* The types that sources without a schema find in what is stored, and the *)
(* values converted to them.                                               *)
(*                                                                         *)
(* MongoDB (adapters/sources/mongodb.py): the type of a field from the     *)
(* kinds of all its values, of nested documents and arrays too; here is    *)
(* what is done at one level of a value.                                   *)
(*                                                                         *)
(* Neo4j (adapters/sources/neo4j.py): the type of a property, and whether  *)
(* predicates on it run locally, either from what a schema procedure       *)
(* reports or from a sample.                                               *)
(***************************************************************************)
EXTENDS PushedScan, PredicateNodes

Missing == [kind |-> "missing", rank |-> 0]
ObjectId(n) == [kind |-> "objectid", rank |-> n]
List(items) == [kind |-> "list", items |-> items]
Struct(fields) == [kind |-> "struct", fields |-> fields]

IsAbsent(value) == value \in {Missing, Null}

(* document.get(key)                                                       *)
Get(mapping, key) == IF key \in DOMAIN mapping THEN mapping[key] ELSE Missing

Present(values) == {v \in values : ~ IsAbsent(v)}

-----------------------------------------------------------------------------
(* Schema inference: _Observer and _infer_schema.                          *)

ScalarKinds == {"boolean", "integer", "float", "string", "binary", "timestamp", "decimal"}
NumericKinds == {"integer", "float", "decimal"}

(* Mutant of KindsSeen: what is seen first decides.                        *)
FirstKindSeen(values) ==
  IF Present(values) = {} THEN {} ELSE {(CHOOSE v \in Present(values) : TRUE).kind}

KindsSeen(values) == {v.kind : v \in Present(values)}

(* unify of integer(64), float(64) and decimal(34,10).                     *)
Widest(kinds) ==
  IF "float" \in kinds THEN "float" ELSE IF "decimal" \in kinds THEN "decimal" ELSE "integer"

(* The values of a field of documents, and the items of arrays.            *)
FieldValues(values, name) == {Get(v.fields, name) : v \in Present(values)}
FieldNames(values) == UNION {DOMAIN v.fields : v \in Present(values)}
ItemValues(values) == UNION {v.items : v \in Present(values)}

(* resolve() after observe() of every value.                               *)
NodeType(values, Type(_)) ==
  LET kinds == KindsSeen(values)
  IN CASE kinds = {} -> [type |-> "unknown"]
       [] kinds = {"struct"} ->
            [type |-> "struct",
             fields |-> [name \in FieldNames(values) |-> Type(FieldValues(values, name))]]
       [] kinds = {"list"} -> [type |-> "list", element |-> Type(ItemValues(values))]
       [] kinds # {} /\ kinds \subseteq NumericKinds -> [type |-> Widest(kinds)]
       [] \E kind \in ScalarKinds \ NumericKinds : kinds = {kind} ->
            [type |-> CHOOSE kind \in kinds : TRUE]
       [] OTHER -> [type |-> "string"]

-----------------------------------------------------------------------------
(* _converter: a stored value as a value of the column's type.             *)

NotConvertible == [kind |-> "error", rank |-> 0]

(* str(): hexadecimal text for an ObjectId, texts of their own for others. *)
HexText(n) == Text(100 + n)
IsHexText(value) == value.kind = "string" /\ value.rank >= 100
TextOf(value) ==
  CASE value.kind = "string" -> value
    [] value.kind = "objectid" -> HexText(value.rank)
    [] value.kind \in {"list", "struct"} -> Text(80)
    [] OTHER -> Text(60 + value.rank)

(* A number the type can stand for: a fraction is no integer.              *)
ConvertNumber(type, value) ==
  IF \/ ~ (IsNumber(value) \/ (value.kind = "boolean" /\ type # "decimal"))
     \/ type = "integer" /\ value.rank % 2 # 0
  THEN NotConvertible ELSE [kind |-> type, rank |-> value.rank]

(* Booleans, instants and bytes are taken as they are or not at all.       *)
ConvertOther(type, value) == IF value.kind = type THEN value ELSE NotConvertible

NodeConverted(type, value, Converted(_, _)) ==
  IF IsAbsent(value) THEN Null
  ELSE CASE type.type = "list" ->
              IF value.kind = "list" THEN List({Converted(type.element, item) : item \in value.items})
              ELSE NotConvertible
         [] type.type = "struct" ->
              IF value.kind = "struct"
              THEN Struct([name \in DOMAIN type.fields |->
                             Converted(type.fields[name], Get(value.fields, name))])
              ELSE NotConvertible
         [] type.type \in {"string", "unknown"} -> TextOf(value)
         [] type.type \in NumericKinds -> ConvertNumber(type.type, value)
         [] OTHER -> ConvertOther(type.type, value)

(* No converter raised, here or below.                                     *)
NodeConverts(value, Converts(_)) ==
  CASE value.kind = "list" -> \A item \in value.items : Converts(item)
    [] value.kind = "struct" -> \A name \in DOMAIN value.fields : Converts(value.fields[name])
    [] OTHER -> value # NotConvertible

-----------------------------------------------------------------------------
(* Discovery.  Both ways of it decide a type and whether predicates on the *)
(* column run locally, because its values are made strings.                *)

PropertyKinds ==
  {"string", "integer", "float", "boolean", "date", "zoned", "unzoned", "duration", "list"}

(* The name the procedure reports for a stored kind (external).            *)
PropertyTypeName ==
  [kind \in PropertyKinds |->
     CASE kind = "string" -> "String"
       [] kind = "integer" -> "Long"
       [] kind = "float" -> "Double"
       [] kind = "boolean" -> "Boolean"
       [] kind = "date" -> "Date"
       [] kind = "zoned" -> "DateTime"
       [] kind = "unzoned" -> "LocalDateTime"
       [] kind = "duration" -> "Duration"
       [] kind = "list" -> "StringArray"]

PROPERTY_TYPES ==
  [name \in {"String", "Long", "Integer", "Double", "Float", "Boolean", "Date", "DateTime",
             "ZonedDateTime", "LocalDateTime"} |->
     CASE name = "String" -> "string"
       [] name \in {"Long", "Integer"} -> "integer"
       [] name \in {"Double", "Float"} -> "float"
       [] name = "Boolean" -> "boolean"
       [] name = "Date" -> "date"
       [] name \in {"DateTime", "ZonedDateTime"} -> "zoned"
       [] name = "LocalDateTime" -> "unzoned"]

IsNumericMix(types) == types \subseteq {"integer", "float"}

merge_domain_types(types) ==
  IF Cardinality(types) = 1 THEN CHOOSE type \in types : TRUE
  ELSE IF types # {} /\ IsNumericMix(types) THEN "float" ELSE "string"

property_types_to_domain(names) ==
  merge_domain_types({IF name \in DOMAIN PROPERTY_TYPES THEN PROPERTY_TYPES[name] ELSE "string" :
                        name \in names})

types_need_local_predicate(names) ==
  \/ ~ names \subseteq DOMAIN PROPERTY_TYPES
  \/ LET mapped == {PROPERTY_TYPES[name] : name \in names}
     IN Cardinality(mapped) > 1 /\ ~ IsNumericMix(mapped)

infer_value_type(value) ==
  IF value.kind \in {"boolean", "integer", "float", "string", "zoned", "unzoned", "date"}
  THEN value.kind ELSE "string"

(* Mutant of value_needs_local_predicate: lists are forgotten.             *)
only_durations_need_local(value) == value.kind = "duration"

value_needs_local_predicate(value) ==
  value.kind \notin {"boolean", "integer", "float", "string", "zoned", "unzoned", "date"}

DiscoverFromProcedure(values) ==
  LET names == {PropertyTypeName[v.kind] : v \in values}
  IN [type |-> property_types_to_domain(names), local |-> types_need_local_predicate(names)]

DiscoverBySampling(values) ==
  LET types == {infer_value_type(v) : v \in values}
  IN [type |-> merge_domain_types(types),
      local |-> \/ \E v \in values : value_needs_local_predicate(v)
                \/ Cardinality(types) > 1 /\ ~ IsNumericMix(types)]

(* The values of a property; a node that does not have it says nothing.    *)
PropertyValues(property) ==
  {d[property] : d \in {d \in documents : property \in DOMAIN d}} \ {Null}

(* A schema found by sampling is the one the procedure would have given:   *)
(* types, and which predicates may be pushed, do not depend on the rights  *)
(* of the user.                                                            *)
DiscoveriesAgree ==
  \A d \in documents : \A property \in DOMAIN d :
    LET values == PropertyValues(property)
    IN values # {} /\ (\A v \in values : v.kind \in PropertyKinds)
         => DiscoverFromProcedure(values) = DiscoverBySampling(values)

=============================================================================
