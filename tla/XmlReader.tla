----------------------------- MODULE XmlReader ------------------------------
(***************************************************************************)
(* The streaming of an XML document as rows (adapters/formats/xml.py): the *)
(* parser's start and end events, of which the elements with the row tag   *)
(* become rows, the limit, and the batches.  An element is its place in    *)
(* the document, a tree in document order.  And what the inference of a    *)
(* type and the conversion to it do at one level of the values of rows.    *)
(***************************************************************************)
EXTENDS RowBatches, SequencesExt

VARIABLES
  tree,       \* element -> its parent (0: none), local tag, text and attributes
  pushed,     \* whether a predicate is pushed, and the limit
  pc,         \* "start" | "parsing" | "ended" (the last batch is left) | "done" | "failed"
  started,    \* number of elements that have started
  stack,      \* open elements
  row_depth,  \* depth of the row that is open (0: none)
  held,       \* elements still in memory
  row         \* the row handed over (0: none)

scanVars == <<tree, pushed>>
parserVars == <<started, stack, row_depth, held, row>>
vars == <<scanVars, parserVars, pc, buffer, output>>

RowTag == "row"

Elements == DOMAIN tree

(* No element between m and n has its parent before m.                     *)
Ancestors(n) == {m \in 1 .. n - 1 : \A k \in m + 1 .. n : tree[k].parent >= m}

(* One root, and every other element starts inside the one before it or    *)
(* after the end of some of those around it.                               *)
IsDocument ==
  /\ Len(tree) \in Nat \ {0} /\ Elements = 1 .. Len(tree)
  /\ tree[1].parent = 0
  /\ \A n \in 2 .. Len(tree) : tree[n].parent \in {n - 1} \cup Ancestors(n - 1)

(* Rows: elements with the row tag that are in no other row.               *)
IsRowElement(n) == tree[n].tag = RowTag /\ \A m \in Ancestors(n) : tree[m].tag # RowTag

RowElements == {n \in Elements : IsRowElement(n)}

-----------------------------------------------------------------------------
Init ==
  /\ IsDocument
  /\ pushed.predicate \in BOOLEAN /\ pushed.limit \in Nat \cup {NoLimit}
  /\ pc = "start"
  /\ started = 0 /\ stack = <<>> /\ row_depth = 0 /\ held = {} /\ row = 0
  /\ buffer = {} /\ output = {}

(* The reader evaluates no predicates.                                     *)
RefusePredicate ==
  /\ pc = "start" /\ pushed.predicate
  /\ pc' = "failed"
  /\ UNCHANGED <<scanVars, parserVars, buffer, output>>

EmptyScan ==
  /\ pc = "start" /\ ~ pushed.predicate /\ pushed.limit = 0
  /\ pc' = "done"
  /\ UNCHANGED <<scanVars, parserVars, buffer, output>>

OpenScan ==
  /\ pc = "start" /\ ~ pushed.predicate /\ pushed.limit # 0
  /\ pc' = "parsing"
  /\ UNCHANGED <<scanVars, parserVars, buffer, output>>

Depth == Len(stack)
Inside == row_depth # 0

(* An element starts before its parent ends.                               *)
NextStarts ==
  /\ started + 1 \in Elements
  /\ tree[started + 1].parent = IF stack = <<>> THEN 0 ELSE Last(stack)

(* Mutant of RowDepth: a row tag inside a row starts a row of its own.     *)
InnermostRow(n, depth) == IF tree[n].tag = RowTag THEN depth ELSE row_depth

RowDepth(n, depth) == IF ~ Inside /\ tree[n].tag = RowTag THEN depth ELSE row_depth

StartEvent ==
  /\ pc = "parsing" /\ row = 0 /\ NextStarts
  /\ started' = started + 1
  /\ stack' = Append(stack, started + 1)
  /\ held' = held \cup {started + 1}
  /\ row_depth' = RowDepth(started + 1, Depth + 1)
  /\ UNCHANGED <<scanVars, pc, row, buffer, output>>

(* Mutant of Released: remove() is left out.                               *)
Cleared(n) == {m \in held : n \in Ancestors(m)}

(* clear() and, unless it is the root, remove(): with an element go its    *)
(* descendants.                                                            *)
Released(n) == {m \in held : m = n \/ n \in Ancestors(m)}

(* The row ends and is handed over.                                        *)
RowEnds ==
  /\ Inside /\ Depth = row_depth
  /\ row' = Last(stack) /\ row_depth' = 0
  /\ AppendRow(Last(stack))
  /\ UNCHANGED held

(* The end of an element inside a row, or outside all rows.                *)
OtherEnds ==
  /\ ~ (Inside /\ Depth = row_depth)
  /\ held' = IF Inside THEN held ELSE held \ Released(Last(stack))
  /\ UNCHANGED <<row, row_depth, buffer, output>>

EndEvent ==
  /\ pc = "parsing" /\ row = 0 /\ stack # <<>> /\ ~ NextStarts
  /\ stack' = Front(stack)
  /\ RowEnds \/ OtherEnds
  /\ UNCHANGED <<scanVars, pc, started>>

LimitReached == pushed.limit # NoLimit /\ Produced >= pushed.limit

(* The consumer comes back for more: the row is released, or the limit is  *)
(* reached and the document is not read further.                           *)
Resume ==
  /\ pc = "parsing" /\ row # 0
  /\ row' = 0
  /\ IF LimitReached THEN pc' = "ended" /\ held' = {} /\ stack' = <<>>
     ELSE held' = held \ Released(row) /\ UNCHANGED <<pc, stack>>
  /\ UNCHANGED <<scanVars, started, row_depth, buffer, output>>

EndOfDocument ==
  /\ pc = "parsing" /\ row = 0 /\ started + 1 \notin Elements /\ stack = <<>>
  /\ pc' = "ended"
  /\ UNCHANGED <<scanVars, parserVars, buffer, output>>

LastBatch ==
  /\ pc = "ended"
  /\ pc' = "done" /\ output' = output \cup buffer /\ buffer' = {}
  /\ UNCHANGED <<scanVars, parserVars>>

(* The document is malformed, or the storage fails: the stream raises.     *)
ReadFails ==
  /\ pc \in {"parsing", "ended"}
  /\ pc' = "failed"
  /\ UNCHANGED <<scanVars, parserVars, buffer, output>>

Next ==
  \/ RefusePredicate \/ EmptyScan \/ OpenScan
  \/ StartEvent \/ EndEvent \/ Resume
  \/ EndOfDocument \/ LastBatch \/ ReadFails

Spec == Init /\ [][Next]_vars

-----------------------------------------------------------------------------
(* A batch that is being filled is not full.                               *)
TypeOK ==
  /\ pc \in {"start", "parsing", "ended", "done", "failed"}
  /\ started \in 0 .. Len(tree) /\ row \in 0 .. started
  /\ row_depth \in 0 .. Depth /\ \A i \in DOMAIN stack : stack[i] \in 1 .. started
  /\ held \subseteq 1 .. started
  /\ buffer \cap output = {} /\ buffer \cup output \subseteq 1 .. started
  /\ Cardinality(buffer) < BatchSize

FirstRows(rows) ==
  /\ rows \subseteq RowElements
  /\ \A n \in RowElements, m \in rows : n < m => n \in rows

RowsAskedFor ==
  IF pushed.limit # NoLimit /\ pushed.limit < Cardinality(RowElements)
  THEN pushed.limit ELSE Cardinality(RowElements)

(* The rows handed over, and with them those of the batch being filled,    *)
(* are the first of the document, nested ones left out; a scan that ends   *)
(* has returned all, or as many as the limit says.                         *)
RowsInDocumentOrder ==
  /\ FirstRows(output) /\ FirstRows(output \cup buffer)
  /\ pc = "done" => Cardinality(output) = RowsAskedFor

(* The row that is read or handed over.                                    *)
CurrentRow == IF row # 0 THEN row ELSE IF Inside THEN stack[row_depth] ELSE 0

(* What is in memory is the path to the parser's place and one row, and    *)
(* that row is complete when it is handed over.                            *)
OneRowInMemory ==
  held = ToSet(stack)
         \cup {n \in 1 .. started : n = CurrentRow \/ (CurrentRow # 0 /\ CurrentRow \in Ancestors(n))}

-----------------------------------------------------------------------------
(* Raw values: Null (no text, an empty element), a text, of which matters  *)
(* only what it can be read as, a dict or a list.  What a text is read as  *)
(* has its value, a float the nearest to it.                               *)

ValueTag == "_VALUE"

Null == [raw |-> "null"]
RawText(form) == [raw |-> "text", form |-> form]
Dict(fields) == [raw |-> "dict", fields |-> fields]
Items(items) == [raw |-> "list", items |-> items]
IsRaw(value, raw) == value # Null /\ value.raw = raw

Field(fields, name) == IF name \in DOMAIN fields THEN fields[name] ELSE Null

(* A scalar among lists is a list of itself, and among dicts a dict.       *)
AsItems(value) == IF IsRaw(value, "list") THEN value.items ELSE <<value>>
AsFields(value) == IF IsRaw(value, "dict") THEN value.fields ELSE (ValueTag :> value)

(* A "big" text is a whole number wider than 64 bits.                      *)
TextForms == {"integer", "big", "fraction", "boolean", "date", "other"}

ReadableAs == [type \in {"integer", "float", "boolean", "date", "string"} |->
  CASE type = "integer" -> {"integer"}
    [] type = "float" -> {"integer", "big", "fraction"}
    [] type = "boolean" -> {"boolean"}
    [] type = "date" -> {"date"}
    [] type = "string" -> TextForms]

(* Mutant of AsInteger: _fits is left out.                                 *)
AsNumeral == {"integer", "big"}

AsInteger == {"integer"}

TextType(forms) ==
  IF forms \subseteq AsInteger THEN "integer"
  ELSE IF forms \subseteq ReadableAs["float"] THEN "float"
  ELSE IF forms \subseteq {"boolean"} THEN "boolean"
  ELSE IF forms \subseteq {"date"} THEN "date"
  ELSE "string"

(* The values of the next level: the items of a column of lists, and those *)
(* of a field of a column of dicts.                                        *)
Present(values) == values \ {Null}
AnyIs(values, raw) == \E v \in Present(values) : IsRaw(v, raw)
ItemValues(values) == UNION {ToSet(AsItems(v)) : v \in Present(values)}
FieldNames(values) == UNION {DOMAIN AsFields(v) : v \in Present(values)}
FieldValues(values, name) == {Field(AsFields(v), name) : v \in Present(values)}

(* infer_type, and _infer_struct.                                          *)
NodeInferred(values, Infer(_)) ==
  IF Present(values) = {} THEN [type |-> "null"]
  ELSE IF AnyIs(values, "list") THEN [type |-> "list", element |-> Infer(ItemValues(values))]
  ELSE IF AnyIs(values, "dict")
  THEN [type |-> "struct", fields |-> [name \in FieldNames(values) |-> Infer(FieldValues(values, name))]]
  ELSE [type |-> TextType({v.form : v \in Present(values)})]

(* float() of a text: the nearest there is, of a whole number as well.     *)
Nearest(text) == [raw |-> "float", form |-> text.form]

(* _convert_scalar: what does not fit is null.                             *)
ConvertScalar(value, type) ==
  IF type.type = "null" \/ value.form \notin ReadableAs[type.type] THEN Null
  ELSE IF type.type = "float" THEN Nearest(value) ELSE value

(* convert_value.                                                          *)
NodeConverted(value, type, Convert(_, _)) ==
  IF value = Null THEN Null
  ELSE IF type.type = "list"
  THEN Items([i \in DOMAIN AsItems(value) |-> Convert(AsItems(value)[i], type.element)])
  ELSE IF IsRaw(value, "list") THEN Null
  ELSE IF type.type = "struct"
  THEN Dict([name \in DOMAIN type.fields |-> Convert(Field(AsFields(value), name), type.fields[name])])
  ELSE IF IsRaw(value, "text") THEN ConvertScalar(value, type)
  ELSE LET scalar == Field(value.fields, ValueTag)
       IN IF IsRaw(scalar, "text") THEN ConvertScalar(scalar, type) ELSE Null

(* Nothing of a value is lost in what it is converted to, but the digits   *)
(* of a number that a float does not keep.                                 *)
NodeRetained(converted, value, Retains(_, _)) ==
  IF value = Null THEN TRUE
  ELSE IF converted = Null THEN FALSE
  ELSE IF IsRaw(converted, "list")
  THEN /\ DOMAIN converted.items = DOMAIN AsItems(value)
       /\ \A i \in DOMAIN AsItems(value) : Retains(converted.items[i], AsItems(value)[i])
  ELSE IF IsRaw(converted, "dict")
  THEN \A name \in DOMAIN AsFields(value) :
         Retains(Field(converted.fields, name), AsFields(value)[name])
  ELSE converted = value \/ (IsRaw(value, "text") /\ converted = Nearest(value))

=============================================================================
