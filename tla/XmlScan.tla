------------------------------ MODULE XmlScan -------------------------------
(***************************************************************************)
(* The schema of an XML document (adapters/formats/xml.py), inferred from  *)
(* its first rows, and the values converted to it.                         *)
(***************************************************************************)
EXTENDS XmlReader

CONSTANT SampleSize  \* _INFERENCE_SAMPLE

Children(n) == SelectSeq([i \in Elements |-> i], LAMBDA c : tree[c].parent = n)

-----------------------------------------------------------------------------
(* _element_to_record.                                                     *)

(* One value for a name that occurs once, a list for one that is repeated, *)
(* be it an attribute, the text or children that have it.                  *)
Collected(values) == IF Len(values) = 1 THEN values[1] ELSE Items(values)

RECURSIVE ElementRecord(_), ElementValue(_)
ElementRecord(n) ==
  LET attributes == tree[n].attributes
      text == IF tree[n].text # Null /\ (attributes # <<>> \/ Children(n) = <<>>)
              THEN ValueTag :> tree[n].text ELSE <<>>
      own == text @@ attributes
      First(tag) == IF tag \in DOMAIN own THEN <<own[tag]>> ELSE <<>>
      nested == [tag \in {tree[c].tag : c \in ToSet(Children(n))} |->
                     LET tagged == SelectSeq(Children(n), LAMBDA c : tree[c].tag = tag)
                     IN Collected(First(tag) \o [i \in DOMAIN tagged |-> ElementValue(tagged[i])])]
  IN nested @@ own

ElementValue(n) ==
  IF tree[n].attributes # <<>> \/ Children(n) # <<>>
  THEN Dict(ElementRecord(n)) ELSE tree[n].text

-----------------------------------------------------------------------------
(* Types and conversions of whole values.                                  *)

RECURSIVE infer_type(_)
infer_type(values) == NodeInferred(values, infer_type)

RECURSIVE convert_value(_, _)
convert_value(value, type) == NodeConverted(value, type, convert_value)

(* infer_schema: the first rows.                                           *)
Sample ==
  {ElementRecord(n) :
     n \in {r \in RowElements : Cardinality({q \in RowElements : q <= r}) <= SampleSize}}

ColumnType(column) == infer_type({Field(record, column) : record \in Sample})

-----------------------------------------------------------------------------
RECURSIVE Retains(_, _)
Retains(converted, value) == NodeRetained(converted, value, Retains)

(* A value of a sampled row is not lost in the inferred type: no item of   *)
(* it, no field and no text turns into NULL (convert_value nulls what does *)
(* not fit); a number read as a float is the nearest one, not its digits.  *)
SampledValuesFit ==
  pc = "start" =>
  \A record \in Sample : \A column \in DOMAIN record :
    Retains(convert_value(record[column], ColumnType(column)), record[column])

=============================================================================
