---------------------------- MODULE LogicalQuery ----------------------------
(***************************************************************************)
(* What a query promises, wherever its operations run.  A query denotes    *)
(* the rows its conjuncts keep, the columns it shows and a bound on the    *)
(* number of rows.  It is answered with exactly those columns and with as  *)
(* many of the kept rows as the bound allows (any of them: there is no     *)
(* ORDER BY), or it is refused.                                            *)
(***************************************************************************)
EXTENDS Integers, FiniteSets

CONSTANTS
  AllRows,     \* rows of the relation
  AllColumns,  \* its columns, in order
  Unbounded,   \* the bound of a query without a limit
  NoAnswer,    \* the query has not been answered
  Refused      \* the query cannot be run on the chosen target

VARIABLES kept, shown, bound, answer

queryVars == <<kept, shown, bound, answer>>

Smaller(m, n) == IF m < n THEN m ELSE n

(* How many of n rows a query with the bound b returns.                    *)
Bounded(n, b) == IF b = Unbounded THEN n ELSE Smaller(n, b)

Init ==
  /\ kept = AllRows
  /\ shown = AllColumns
  /\ bound = Unbounded
  /\ answer = NoAnswer

Narrow ==
  /\ answer = NoAnswer
  /\ kept' \subseteq kept
  /\ UNCHANGED <<shown, bound, answer>>

Show ==
  /\ answer = NoAnswer
  /\ shown' # shown
  /\ UNCHANGED <<kept, bound, answer>>

Bound ==
  /\ answer = NoAnswer
  /\ bound' # Unbounded
  /\ bound # Unbounded => bound' <= bound
  /\ UNCHANGED <<kept, shown, answer>>

Answer ==
  /\ answer = NoAnswer
  /\ \E rows \in SUBSET kept :
       /\ Cardinality(rows) = Bounded(Cardinality(kept), bound)
       /\ answer' = [columns |-> shown, rows |-> rows]
  /\ UNCHANGED <<kept, shown, bound>>

Refuse ==
  /\ answer = NoAnswer
  /\ answer' = Refused
  /\ UNCHANGED <<kept, shown, bound>>

Next == Narrow \/ Show \/ Bound \/ Answer \/ Refuse

Spec == Init /\ [][Next]_queryVars

=============================================================================
