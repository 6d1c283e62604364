---------------------------- MODULE MCKpiEngine ----------------------------
(***************************************************************************)
(* Values for the constants of KpiEngine, chosen by the .cfg files.        *)
(***************************************************************************)
EXTENDS KpiEngine, FiniteSets

Name(id)          == [node |-> "Name", id |-> id]
Constant(n)       == [node |-> "Constant", value |-> Whole(n)]
BinOp(op, a, b)   == [node |-> "BinOp", op |-> op, left |-> a, right |-> b]
UnaryOp(op, a)    == [node |-> "UnaryOp", op |-> op, operand |-> a]
Call(f, args)     == [node |-> "Call", func |-> f, args |-> args]

(* An unknown name, a function that is not called, numbers of every kind.  *)
Atoms == {Name("fact_value"), Name("plan_value"), Name("min"), Name("salary"),
          Constant(0), Constant(2)}

Arithmetic == {"Add", "Sub", "Mult", "Div", "Mod", "BitXor"}

(* Everything of one operator on a tree of A and, if it takes two, one of B. *)
Over(A, B) ==
  {BinOp(op, a, b) : op \in Arithmetic, a \in A, b \in B}
    \cup {BinOp(op, b, a) : op \in Arithmetic, a \in A, b \in B}
    \cup {BinOp("Pow", a, Constant(n)) : a \in A, n \in {0, 2}}
    \cup {UnaryOp(op, a) : op \in {"USub", "Invert"}, a \in A}
    \cup {Call(Name(f), <<a>>) : f \in {"min", "round", "Decimal"}, a \in A}
    \cup {Call(Name(f), <<a, b>>) : f \in {"min", "max", "round"}, a \in A, b \in B}

ShallowTrees ==
  Atoms \cup Over(Atoms, Atoms)
    \cup {Call(Name(f), <<>>) : f \in {"min", "round", "Decimal"}}
    \cup {Call(a, <<Constant(2)>>) : a \in Atoms}
    \cup {[node |-> "Compare"], UnaryOp("UAdd", Name("fact_value"))}

DeepTrees == ShallowTrees \cup Over(ShallowTrees, {Name("fact_value"), Constant(2)})

Leaves ==
  Atoms \cup {Name("round"), Name("max"), Name("Decimal"), Name("max_metric_amount")}

LayeredTrees == <<Leaves, ShallowTrees, DeepTrees \cup {ProportionalFormula}>>

OneMetric(trees) ==
  {<<[weight |-> Whole(100), plan |-> p, formula |-> f]>> : p \in {Zero, Whole(2)}, f \in trees}

(* Weights of which two are heavier once stored than as they were posted.  *)
Weighted ==
  {[weight |-> w, plan |-> p, formula |-> ProportionalFormula] :
     w \in {Frac(401, 8), Frac(399, 8), Whole(100)}, p \in {Zero, Whole(3)}}

(* Light metrics: no value for some facts, none at all.                    *)
Irregular ==
  {[weight |-> Frac(399, 8), plan |-> Whole(2), formula |-> f] :
     f \in {BinOp("Mod", Constant(2), Name("fact_value")), Name("salary")}}

(* Every tree, and two metrics of every weight.                            *)
AnyFormulas ==
  OneMetric(DeepTrees) \cup {<<m, n>> : m \in Weighted, n \in Weighted \cup Irregular}

(* Another template: a metric worth as much as all of the first, and one   *)
(* of a weight that is posted with more places than its column.            *)
ProportionalOther ==
  {<<[weight |-> Frac(399, 8), plan |-> Whole(3), formula |-> ProportionalFormula],
     [weight |-> Frac(401, 8), plan |-> Whole(2), formula |-> ProportionalFormula]>>}

SmallMaximum == {Whole(20)}

Input(id, fact, overtime) == [metric |-> id, fact |-> fact, overtime |-> overtime]

(* Undone, missed, met and exceeded, for plans of 0, 2 and 3.              *)
AnyInput(ids) ==
  {Input(id, fact, Zero) : id \in ids, fact \in {Whole(-1), Zero, Frac(3, 2), Whole(3)}}
    \cup {Input(id, fact, Frac(5, 2)) : id \in ids, fact \in {Whole(2), Whole(4)}}

(* Facts and overtime results with more places than their columns.         *)
Fine(ids)    == {Input(id, Frac(1, 32), Zero) : id \in ids}
Precise(ids) == {Input(id, Frac(3, 2), Frac(49, 10000)) : id \in ids}

Met(ids) == {Input(id, Whole(2), Zero) : id \in ids}

(* Two metrics, in either order, and the second of them twice.             *)
Pairs(A, B) == {<<m, n>> : m \in A, n \in B} \cup {<<n, m>> : m \in A, n \in B}
Triples(A, B) == {<<m, n, n>> : m \in A, n \in B}

(* By how many metrics there are: one, two of a template, and one or two   *)
(* with the two of the other template after them.  The last id of a body   *)
(* of one may be that of no metric.                                        *)
AnyBodies ==
  <<{<<>>} \cup {<<m>> : m \in AnyInput({1}) \cup Met({2})} \cup Pairs(Met({1}), Met({1})),
    {<<>>} \cup {<<m>> : m \in AnyInput({1}) \cup Met({3})}
      \cup Pairs(AnyInput({1}), AnyInput({2}) \cup Fine({2}) \cup Precise({2})) \cup Triples(Precise({1}), Precise({1, 2})),
    {<<m>> : m \in Met({2, 4})} \cup Pairs(Met({1}), Met({3})) \cup Triples(Met({1}), Met({2})),
    {<<m>> : m \in AnyInput({3}) \cup Fine({3, 4}) \cup Met({0})}
      \cup Pairs(AnyInput({1, 4}), Precise({3})) \cup Triples(AnyInput({2}), Precise({2, 3}))>>

Message(base, share, x1, x2) == [base |-> base, share |-> share, x1 |-> x1, x2 |-> x2]

(* Salaries and hours with more places than their columns, 0 and below.    *)
SomeSalaries ==
  {NoSalary, Message(Frac(1601, 200), Whole(100), Zero, Zero),
   Message(Whole(40), Frac(1, 3), Zero, Zero), Message(Whole(1000), Whole(100), Frac(1, 4), Whole(7)),
   Message(Frac(1603, 200), Zero, Frac(1, 8), Zero), Message(Whole(-40), Whole(100), Zero, Whole(1))}
=============================================================================
