----------------------------- MODULE MCXmlScan ------------------------------
(***************************************************************************)
(* Documents of every shape of up to six elements, with rows anywhere in  *)
(* it; and documents with rows of every mixture of three values, or with   *)
(* children named like an attribute or like the text.                      *)
(***************************************************************************)
EXTENDS XmlScan

Element(parent, tag, text, attributes) ==
  [parent |-> parent, tag |-> tag, text |-> text, attributes |-> attributes]

(* Init takes the documents among them.                                    *)
Shapes ==
  UNION {{parents \in [1 .. n -> 0 .. n - 1] :
            parents[1] = 0 /\ \A i \in 2 .. n : parents[i] \in 1 .. i - 1} : n \in 1 .. 6}

ShapedTrees ==
  UNION {{[i \in DOMAIN shape |-> Element(shape[i], tags[i], Null, <<>>)] :
            tags \in [DOMAIN shape -> {"row", "a"}]} : shape \in Shapes}

Texts3 == {Null} \cup {RawText(form) : form \in {"integer", "big", "fraction", "boolean", "other"}}

NoAttributes == {<<>>}
SomeAttributes == {<<>>, "_x" :> RawText("date"), "_x" :> Null}
ManyAttributes == SomeAttributes \cup {"_x" :> RawText("integer") @@ ValueTag :> RawText("date")}

(* Two sampled rows and one after them.                                    *)
FilledTrees ==
  {<<Element(0, "a", Null, <<>>),
     Element(1, "row", Null, <<>>), Element(2, "a", t1, x1), Element(2, "a", t2, <<>>),
     Element(1, "row", Null, x2), Element(5, "a", t3, x3), Element(6, "b", t1, <<>>),
     Element(1, "row", t2, x2)>> :
     t1 \in Texts3, t2 \in Texts3, t3 \in {Null, RawText("integer"), RawText("boolean")},
     x1 \in SomeAttributes, x2 \in SomeAttributes, x3 \in NoAttributes}
  \cup
  {<<Element(0, "a", Null, <<>>),
     Element(1, "row", t1, x1),
     Element(1, "row", Null, <<>>), Element(3, "a", t2, <<>>),
     Element(1, "row", Null, <<>>), Element(5, "a", t1, x1)>> :
     t1 \in Texts3, t2 \in Texts3, x1 \in SomeAttributes}
  \cup
  {<<Element(0, "a", Null, <<>>),
     Element(1, "row", t1, x1), Element(2, name, t2, <<>>), Element(2, name, t1, x2)>> :
     t1 \in Texts3, t2 \in Texts3, x1 \in ManyAttributes, x2 \in SomeAttributes,
     name \in {"_x", ValueTag}}

-----------------------------------------------------------------------------
Limits == {NoLimit, 0, 1, 2}

MCInit ==
  /\ \/ /\ tree \in ShapedTrees
        /\ pushed \in [predicate : {FALSE}, limit : Limits]
     \/ /\ tree \in FilledTrees
        /\ pushed \in [predicate : BOOLEAN, limit : {1}]
  /\ Init

=============================================================================
