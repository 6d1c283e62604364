--------------------------- MODULE KpiEngineProofs ---------------------------
(***************************************************************************)
(* Proofs about KpiEngine, for any formula, weight, plan, fact and salary: *)
(* what a formula yields when it is tried says how it can fail later, and  *)
(* the amounts that are stored are bounded by the exact ones.              *)
(***************************************************************************)
EXTENDS KpiEngine, DecimalProofs

-----------------------------------------------------------------------------
(* Formulas from the leaves up: what holds of a node whenever it holds of  *)
(* its parts holds of every formula.                                       *)
Below(k) == UNION {Trees[j] : j \in {i \in DOMAIN Trees : i < k}}

(* What lies below a depth: nothing below 0, and the parts of each node.   *)
LEMMA Layers ==
  /\ Below(0) = {}
  /\ \A k \in Nat : \A n \in Below(k + 1) : Parts(n) \subseteq Below(k)
  /\ \A k \in Nat : Below(k) \subseteq Below(k + 1) /\ Below(k) \subseteq Formula
  /\ \A n \in Formula : \E k \in Nat : n \in Below(k)
<1>1. DOMAIN Trees \subseteq Nat
  BY TreesAssumption
<1>2. Below(0) = {}
  BY <1>1 DEF Below
<1>3. ASSUME NEW k \in Nat, NEW n \in Below(k + 1), NEW p \in Parts(n)
      PROVE  p \in Below(k)
  <2>1. PICK j \in DOMAIN Trees : j < k + 1 /\ n \in Trees[j]
    BY DEF Below
  <2>2. PICK i \in DOMAIN Trees : i < j /\ p \in Trees[i]
    BY <2>1, TreesAssumption
  <2>3. i < k
    BY <1>1, <2>1, <2>2
  <2> QED
    BY <2>2, <2>3 DEF Below
<1>4. ASSUME NEW k \in Nat
      PROVE  Below(k) \subseteq Below(k + 1) /\ Below(k) \subseteq Formula
  BY <1>1 DEF Below, Formula
<1>5. ASSUME NEW n \in Formula PROVE \E k \in Nat : n \in Below(k)
  <2>1. PICK j \in DOMAIN Trees : n \in Trees[j]
    BY DEF Formula
  <2>2. j + 1 \in Nat /\ j < j + 1
    BY <1>1
  <2> QED
    BY <2>1, <2>2 DEF Below
<1> QED
  BY <1>2, <1>3, <1>4, <1>5

(* Induction over formulas.                                                *)
LEMMA FromTheLeaves ==
  ASSUME NEW S, \A n \in Formula : Parts(n) \subseteq S => n \in S
  PROVE  Formula \subseteq S
<1> DEFINE T == {k \in Nat : Below(k) \subseteq S}
<1>1. 0 \in T
  BY Layers
<1>2. ASSUME NEW k \in T PROVE k + 1 \in T
  <2>1. \A n \in Below(k + 1) : n \in Formula /\ Parts(n) \subseteq S
    BY Layers
  <2> QED
    BY <2>1
<1>3. T = Nat
  <2>1. T \subseteq Nat
    OBVIOUS
  <2> HIDE DEF T
  <2> QED
    BY <1>1, <1>2, <2>1, NumbersFromZero
<1> QED
  BY <1>3, Layers

(* The arguments of a call are finitely many formulas.                     *)
LEMMA Arguments ==
  ASSUME NEW n \in Formula, n.node = "Call"
  PROVE  n.args \in Seq(Formula)
BY TreesAssumption DEF Formula

-----------------------------------------------------------------------------
(* The evaluator is defined by recursion over a formula's parts: that      *)
(* there is exactly one such function has to be shown.                     *)
Visits(v, S, context) == v = [n \in S |-> VisitNode(n, v, context)]

(* A visit looks at what its parts have yielded and at nothing else.       *)
LEMMA VisitOfParts ==
  ASSUME NEW n, NEW v, NEW w, NEW context, \A p \in Parts(n) : v[p] = w[p]
  PROVE  VisitNode(n, v, context) = VisitNode(n, w, context)
<1>1. CASE n.node = "BinOp"
  BY <1>1 DEF VisitNode, Parts
<1>2. CASE n.node = "UnaryOp"
  BY <1>2 DEF VisitNode, Parts
<1>3. CASE n.node = "Call"
  <2>1. v[n.func] = w[n.func]
    BY <1>3 DEF Parts
  <2>2. \A i \in DOMAIN n.args : v[n.args[i]] = w[n.args[i]]
    BY <1>3 DEF Parts
  <2>3. [i \in DOMAIN n.args |-> v[n.args[i]]] = [i \in DOMAIN n.args |-> w[n.args[i]]]
    BY <2>2
  <2> QED
    BY <1>3, <2>1, <2>3 DEF VisitNode
<1>4. CASE n.node \notin {"BinOp", "UnaryOp", "Call"}
  BY <1>4 DEF VisitNode
<1> QED
  BY <1>1, <1>2, <1>3, <1>4

(* Evaluators of two depths agree on what both evaluate.                   *)
LEMMA VisitsAgree ==
  ASSUME NEW j \in Nat, NEW k \in Nat, NEW v, NEW w, NEW context,
         Visits(v, Below(j), context), Visits(w, Below(k), context),
         NEW n \in Below(j) \cap Below(k)
  PROVE  v[n] = w[n]
<1> DEFINE S == {m \in Formula : m \in Below(j) \cap Below(k) => v[m] = w[m]}
<1>1. ASSUME NEW m \in Formula, Parts(m) \subseteq S PROVE m \in S
  <2>1. SUFFICES ASSUME m \in Below(j) \cap Below(k) PROVE v[m] = w[m]
    OBVIOUS
  <2>2. Parts(m) \subseteq Below(j) \cap Below(k)
    BY <2>1, Layers
  <2>3. \A p \in Parts(m) : v[p] = w[p]
    BY <1>1, <2>2
  <2>4. VisitNode(m, v, context) = VisitNode(m, w, context)
    BY <2>3, VisitOfParts
  <2>5. v[m] = VisitNode(m, v, context) /\ w[m] = VisitNode(m, w, context)
    BY <2>1 DEF Visits
  <2> QED
    BY <2>4, <2>5
<1> HIDE DEF S
<1>2. Formula \subseteq S
  BY <1>1, FromTheLeaves
<1> QED
  BY <1>2, Layers DEF S

(* There is an evaluator up to every depth.                                *)
LEMMA VisitsUpTo ==
  ASSUME NEW context, NEW k \in Nat
  PROVE  \E v : Visits(v, Below(k), context)
<1> DEFINE T == {i \in Nat : \E v : Visits(v, Below(i), context)}
<1>1. 0 \in T
  <2> DEFINE v == [n \in {} |-> n]
  <2>1. v = [n \in {} |-> VisitNode(n, v, context)]
    OBVIOUS
  <2> HIDE DEF v
  <2> QED
    BY <2>1, Layers DEF Visits
<1>2. ASSUME NEW i \in T PROVE i + 1 \in T
  <2>1. PICK v : Visits(v, Below(i), context)
    OBVIOUS
  <2> DEFINE w == [n \in Below(i + 1) |-> VisitNode(n, v, context)]
  <2>2. ASSUME NEW n \in Below(i + 1)
        PROVE  VisitNode(n, v, context) = VisitNode(n, w, context)
    <3>1. ASSUME NEW p \in Parts(n) PROVE v[p] = w[p]
      <4>1. p \in Below(i) /\ p \in Below(i + 1)
        BY Layers
      <4> QED
        BY <2>1, <4>1 DEF Visits
    <3> HIDE DEF w
    <3> QED
      BY <3>1, VisitOfParts
  <2>3. w = [n \in Below(i + 1) |-> VisitNode(n, w, context)]
    <3> DEFINE x == [n \in Below(i + 1) |-> VisitNode(n, w, context)]
    <3>1. \A n \in Below(i + 1) : w[n] = x[n]
      BY <2>2
    <3> QED
      BY <3>1
  <2>4. i + 1 \in Nat
    OBVIOUS
  <2> HIDE DEF w
  <2> QED
    BY <2>3, <2>4 DEF Visits
<1>3. T = Nat
  <2>1. T \subseteq Nat
    OBVIOUS
  <2> HIDE DEF T
  <2> QED
    BY <1>1, <1>2, <2>1, NumbersFromZero
<1> QED
  BY <1>3

(* Hence there is one of all formulas, for each that of its depth.         *)
LEMMA VisitsExist ==
  ASSUME NEW context
  PROVE  \E v : Visits(v, Formula, context)
<1> DEFINE upTo(k) == CHOOSE v : Visits(v, Below(k), context)
           level(n) == CHOOSE k \in Nat : n \in Below(k)
           v == [n \in Formula |-> upTo(level(n))[n]]
<1>1. \A k \in Nat : Visits(upTo(k), Below(k), context)
  BY VisitsUpTo
<1>2. \A n \in Formula : level(n) \in Nat /\ n \in Below(level(n))
  BY Layers
<1>3. ASSUME NEW n \in Formula PROVE v[n] = VisitNode(n, v, context)
  <2> DEFINE w == upTo(level(n))
  <2>1. Visits(w, Below(level(n)), context) /\ level(n) \in Nat
    BY <1>1, <1>2
  <2>2. w[n] = VisitNode(n, w, context)
    BY <1>2, <2>1 DEF Visits
  <2>3. ASSUME NEW p \in Parts(n) PROVE v[p] = w[p]
    <3>1. p \in Formula /\ p \in Below(level(n))
      BY <1>2, Layers
    <3>2. p \in Below(level(p)) /\ level(p) \in Nat /\ Visits(upTo(level(p)), Below(level(p)), context)
      BY <1>1, <1>2, <3>1
    <3> HIDE DEF upTo, level
    <3>3. upTo(level(p))[p] = w[p]
      BY <2>1, <3>1, <3>2, VisitsAgree
    <3> QED
      BY <3>1, <3>3
  <2>4. v[n] = w[n]
    OBVIOUS
  <2> HIDE DEF v, w
  <2>5. VisitNode(n, v, context) = VisitNode(n, w, context)
    BY <2>3, VisitOfParts
  <2> QED
    BY <2>2, <2>4, <2>5
<1>4. v = [n \in Formula |-> VisitNode(n, v, context)]
  <2> DEFINE x == [n \in Formula |-> VisitNode(n, v, context)]
  <2>1. \A n \in Formula : v[n] = x[n]
    BY <1>3
  <2> QED
    BY <2>1
<1> HIDE DEF v
<1> QED
  BY <1>4 DEF Visits

Visitor(context) == CHOOSE v : v = [n \in Formula |-> VisitNode(n, v, context)]

(* Visit is that evaluator: what it yields for a node is VisitNode of what *)
(* it yields for the parts.                                                *)
LEMMA Visited ==
  ASSUME NEW context
  PROVE  /\ \A n \in Formula : Visit(n, context) = Visitor(context)[n]
         /\ \A n \in Formula :
              Visitor(context)[n] = VisitNode(n, Visitor(context), context)
<1>1. \A n \in Formula : Visit(n, context) = Visitor(context)[n]
  BY DEF Visit, Visitor
<1>2. Visits(Visitor(context), Formula, context)
  BY VisitsExist DEF Visitor, Visits
<1> QED
  BY <1>1, <1>2 DEF Visits

-----------------------------------------------------------------------------
(* What the parts of the evaluator yield.                                  *)

(* The first error of a sequence is one of its errors.                     *)
LEMMA FirstErrorOf ==
  ASSUME NEW S, NEW s \in Seq(S), ~ AllGood(s)
  PROVE  \E i \in DOMAIN s : IsError(s[i]) /\ FirstError(s) = s[i]
<1> DEFINE I == {i \in 1 .. Len(s) : IsError(s[i])}
<1>1. I # {} /\ I \subseteq Nat /\ DOMAIN s = 1 .. Len(s)
  BY DEF AllGood
<1>2. \E i \in I : \A j \in I : i <= j
  <2> HIDE DEF I
  <2> QED
    BY <1>1, LeastNumber
<1>3. Min(I) \in I
  BY <1>2 DEF Min
<1>4. SelectInSeq(s, IsError) = Min(I)
  BY <1>1 DEF SelectInSeq
<1> HIDE DEF I
<1>5. FirstError(s) = s[Min(I)]
  BY <1>4 DEF FirstError
<1> QED
  BY <1>1, <1>3, <1>5 DEF I

(* An operation on decimals yields a decimal or an arithmetic exception.   *)
LEMMA OperateYields ==
  ASSUME NEW op \in AllowedBinOps, NEW x, NEW y
  PROVE  Operate(op, x, y).kind \in {"decimal", "exception"}
<1>1. \A z : Value(z).kind = "decimal"
  BY DEF Value
<1>2. Raised.kind = "exception"
  BY DEF Raised
<1>3. Quotient(x, y).kind = "decimal"
  BY <1>1 DEF Quotient
<1>4. Power(x, y[1]).kind \in {"decimal", "exception"}
  BY <1>1, <1>2 DEF Power
<1> QED
  BY <1>1, <1>2, <1>3, <1>4 DEF Operate, AllowedBinOps

(* So does a call of one of the four functions.                            *)
LEMMA ApplyYields ==
  ASSUME NEW S, NEW f, NEW args \in Seq(S)
  PROVE  Apply(f, args).kind \in {"decimal", "exception"}
<1>1. \A z : Value(z).kind = "decimal"
  BY DEF Value
<1>2. Raised.kind = "exception"
  BY DEF Raised
<1>3. CASE \E i \in DOMAIN args : ~ IsDecimal(args[i])
  BY <1>2, <1>3 DEF Apply
<1>4. CASE \A i \in DOMAIN args : IsDecimal(args[i])
  <2>1. Len(args) = 1 => args[1].kind = "decimal"
    BY <1>4 DEF IsDecimal
  <2>2. args = <<>> => Len(args) # 1
    OBVIOUS
  <2> QED
    BY <1>1, <1>2, <1>4, <2>1, <2>2 DEF Apply
<1> QED
  BY <1>3, <1>4

-----------------------------------------------------------------------------
(* A value that is no error on trial stays of its kind in every context of *)
(* the same symbols, but for exceptions that are not about the formula.    *)
Kept(a, b) ==
  \/ a.kind = "decimal" /\ b.kind = "decimal"
  \/ a.kind = "function" /\ b.kind = "function" /\ b.name = a.name
  \/ a.kind \in {"decimal", "function"} /\ b.kind = "exception"

KeptIfGood(a, b) == ~ IsError(a) => Kept(a, b)

(* A binary operation (kpi_engine.py:38-55).                               *)
LEMMA KeptByOperation ==
  ASSUME NEW op, NEW v, NEW w, NEW x, NEW y, KeptIfGood(v, w), KeptIfGood(x, y)
  PROVE  KeptIfGood(VisitBinOp(op, v, x), VisitBinOp(op, w, y))
<1> DEFINE tried == <<AsDecimal(v), AsDecimal(x)>>
           later == <<AsDecimal(w), AsDecimal(y)>>
<1>1. SUFFICES ASSUME ~ IsError(VisitBinOp(op, v, x))
      PROVE  Kept(VisitBinOp(op, v, x), VisitBinOp(op, w, y))
  BY DEF KeptIfGood
<1>2. op \in AllowedBinOps
  BY <1>1 DEF VisitBinOp, IsError, Invalid
<1>3. AllGood(tried)
  <2>1. tried \in Seq({AsDecimal(v), AsDecimal(x)})
    OBVIOUS
  <2> HIDE DEF tried
  <2>2. ~ AllGood(tried) => IsError(FirstError(tried))
    BY <2>1, FirstErrorOf
  <2> QED
    BY <1>1, <1>2, <2>2 DEF VisitBinOp, tried
<1>4. ~ IsError(AsDecimal(v)) /\ ~ IsError(AsDecimal(x))
  BY <1>3 DEF AllGood
<1>5. v.kind = "decimal" /\ x.kind = "decimal"
  BY <1>4 DEF KeptIfGood, Kept, AsDecimal, IsError, Raised
<1>6. w.kind \in {"decimal", "exception"} /\ y.kind \in {"decimal", "exception"}
  BY <1>5 DEF KeptIfGood, Kept, IsError
<1>7. VisitBinOp(op, v, x).kind = "decimal"
  <2>1. VisitBinOp(op, v, x) = Operate(op, v.value, x.value)
    BY <1>2, <1>3 DEF VisitBinOp
  <2>2. VisitBinOp(op, v, x).kind \in {"decimal", "exception"}
    BY <1>2, <2>1, OperateYields
  <2> QED
    BY <1>1, <2>2 DEF IsError
<1>8. VisitBinOp(op, w, y).kind \in {"decimal", "exception"}
  <2>1. CASE AllGood(later)
    BY <1>2, <2>1, OperateYields DEF VisitBinOp
  <2>2. CASE ~ AllGood(later)
    <3>1. later \in Seq({AsDecimal(w), AsDecimal(y)})
      OBVIOUS
    <3>2. \A i \in DOMAIN later : later[i].kind \in {"decimal", "exception"}
      BY <1>6 DEF AsDecimal
    <3>3. VisitBinOp(op, w, y) = FirstError(later)
      BY <1>2, <2>2 DEF VisitBinOp
    <3> HIDE DEF later
    <3> QED
      BY <2>2, <3>1, <3>2, <3>3, FirstErrorOf
  <2> QED
    BY <2>1, <2>2
<1> QED
  BY <1>7, <1>8 DEF Kept

(* A sign (kpi_engine.py:57-61).                                           *)
LEMMA KeptBySign ==
  ASSUME NEW op, NEW v, NEW w, KeptIfGood(v, w)
  PROVE  KeptIfGood(VisitUnaryOp(op, v), VisitUnaryOp(op, w))
<1>1. \A z : Value(z).kind = "decimal"
  BY DEF Value
<1> QED
  BY <1>1 DEF KeptIfGood, Kept, VisitUnaryOp, AsDecimal, IsDecimal, IsError, Invalid, Raised

(* A call (kpi_engine.py:63-68).                                           *)
LEMMA KeptByCall ==
  ASSUME NEW n \in Nat, NEW f, NEW g, NEW S, NEW T, NEW x \in [1 .. n -> S], NEW y \in [1 .. n -> T],
         KeptIfGood(f, g), \A i \in 1 .. n : KeptIfGood(x[i], y[i])
  PROVE  KeptIfGood(VisitCall(f, x), VisitCall(g, y))
<1> DEFINE tried == <<f>> \o x
           later == <<g>> \o y
<1>1. SUFFICES ASSUME ~ IsError(VisitCall(f, x)) PROVE Kept(VisitCall(f, x), VisitCall(g, y))
  BY DEF KeptIfGood
<1>2. /\ tried \in Seq(S \cup {f}) /\ later \in Seq(T \cup {g})
      /\ x \in Seq(S) /\ y \in Seq(T)
      /\ DOMAIN tried = 1 .. n + 1 /\ DOMAIN later = 1 .. n + 1
      /\ tried[1] = f /\ later[1] = g
      /\ \A i \in 1 .. n : tried[i + 1] = x[i] /\ later[i + 1] = y[i]
  OBVIOUS
<1>3. VisitCall(f, x) = IF ~ AllGood(tried) THEN FirstError(tried)
                        ELSE IF f.kind # "function" THEN Invalid ELSE Apply(f.name, x)
  BY DEF VisitCall
<1>4. VisitCall(g, y) = IF ~ AllGood(later) THEN FirstError(later)
                        ELSE IF g.kind # "function" THEN Invalid ELSE Apply(g.name, y)
  BY DEF VisitCall
<1> HIDE DEF tried, later
<1>5. AllGood(tried)
  BY <1>1, <1>2, <1>3, FirstErrorOf
<1>6. f.kind = "function"
  BY <1>1, <1>3, <1>5 DEF IsError, Invalid
<1>7. VisitCall(f, x).kind = "decimal"
  BY <1>1, <1>2, <1>3, <1>5, <1>6, ApplyYields DEF IsError
<1>8. \A i \in 1 .. n + 1 : later[i].kind \in {"decimal", "function", "exception"}
  <2>1. \A i \in 1 .. n + 1 : ~ IsError(tried[i])
    BY <1>2, <1>5 DEF AllGood
  <2>2. later[1].kind \in {"decimal", "function", "exception"}
    BY <1>2, <2>1 DEF KeptIfGood, Kept
  <2>3. ASSUME NEW i \in 1 .. n
        PROVE  later[i + 1].kind \in {"decimal", "function", "exception"}
    <3>1. i + 1 \in 1 .. n + 1
      OBVIOUS
    <3>2. ~ IsError(x[i])
      BY <1>2, <2>1, <3>1
    <3>3. y[i].kind \in {"decimal", "function", "exception"}
      BY <3>2 DEF KeptIfGood, Kept
    <3> QED
      BY <1>2, <3>3
  <2>4. \A i \in 1 .. n + 1 : i = 1 \/ (i - 1 \in 1 .. n /\ i = (i - 1) + 1)
    OBVIOUS
  <2> QED
    BY <2>2, <2>3, <2>4
<1>9. VisitCall(g, y).kind \in {"decimal", "exception"}
  <2>1. CASE AllGood(later)
    <3>1. ~ IsError(later[1])
      BY <1>2, <2>1 DEF AllGood
    <3>2. g.kind = "function"
      BY <1>2, <1>6, <3>1 DEF KeptIfGood, Kept, IsError
    <3> QED
      BY <1>2, <1>4, <2>1, <3>2, ApplyYields
  <2>2. CASE ~ AllGood(later)
    BY <1>2, <1>4, <1>8, <2>2, FirstErrorOf DEF IsError
  <2> QED
    BY <2>1, <2>2
<1> QED
  BY <1>7, <1>9 DEF Kept

(* Any node.                                                               *)
LEMMA KeptByNode ==
  ASSUME NEW n \in Formula, NEW v, NEW w, NEW c, NEW d, DOMAIN c = DOMAIN d,
         \A p \in Parts(n) : KeptIfGood(v[p], w[p])
  PROVE  KeptIfGood(VisitNode(n, v, c), VisitNode(n, w, d))
<1>1. CASE n.node = "Name"
  <2>1. KeptIfGood(VisitName(n.id, c), VisitName(n.id, d))
    BY DEF VisitName, KeptIfGood, Kept, IsError, Value, Function, Invalid
  <2> QED
    BY <1>1, <2>1 DEF VisitNode
<1>2. CASE n.node = "Constant"
  BY <1>2 DEF VisitNode, KeptIfGood, Kept, Value
<1>3. CASE n.node = "BinOp"
  <2>1. KeptIfGood(v[n.left], w[n.left]) /\ KeptIfGood(v[n.right], w[n.right])
    BY <1>3 DEF Parts
  <2> QED
    BY <1>3, <2>1, KeptByOperation DEF VisitNode
<1>4. CASE n.node = "UnaryOp"
  <2>1. KeptIfGood(v[n.operand], w[n.operand])
    BY <1>4 DEF Parts
  <2> QED
    BY <1>4, <2>1, KeptBySign DEF VisitNode
<1>5. CASE n.node = "Call"
  <2> DEFINE x == [i \in DOMAIN n.args |-> v[n.args[i]]]
             y == [i \in DOMAIN n.args |-> w[n.args[i]]]
             S == {v[p] : p \in Parts(n)}
             T == {w[p] : p \in Parts(n)}
  <2>1. n.args \in Seq(Formula)
    BY <1>5, Arguments
  <2>2. n.func \in Parts(n) /\ \A i \in DOMAIN n.args : n.args[i] \in Parts(n)
    BY <1>5 DEF Parts
  <2>3. DOMAIN n.args = 1 .. Len(n.args) /\ Len(n.args) \in Nat
    BY <2>1
  <2>4. x \in [1 .. Len(n.args) -> S] /\ y \in [1 .. Len(n.args) -> T]
    BY <2>2, <2>3
  <2>5. \A i \in 1 .. Len(n.args) : KeptIfGood(x[i], y[i])
    BY <2>2, <2>3
  <2>6. KeptIfGood(v[n.func], w[n.func])
    BY <2>2
  <2>7. VisitNode(n, v, c) = VisitCall(v[n.func], x) /\ VisitNode(n, w, d) = VisitCall(w[n.func], y)
    BY <1>5 DEF VisitNode
  <2> HIDE DEF x, y, S, T
  <2>8. KeptIfGood(VisitCall(v[n.func], x), VisitCall(w[n.func], y))
    BY <2>3, <2>4, <2>5, <2>6, KeptByCall
  <2> QED
    BY <2>7, <2>8
<1>6. CASE n.node \notin {"Name", "Constant", "BinOp", "UnaryOp", "Call"}
  BY <1>6 DEF VisitNode, KeptIfGood, IsError, Invalid
<1> QED
  BY <1>1, <1>2, <1>3, <1>4, <1>5, <1>6

(* A formula that passes its trial is not found invalid afterwards.        *)
LEMMA NeverInvalid ==
  ASSUME NEW n \in Formula, NEW context, DOMAIN context = Symbols, ~ IsError(Validation(n))
  PROVE  EvaluateFormula(n, context).kind \in {"decimal", "exception"}
<1> DEFINE ones == [s \in Symbols |-> Whole(1)]
           S == {m \in Formula : KeptIfGood(Visitor(ones)[m], Visitor(context)[m])}
<1>1. DOMAIN ones = DOMAIN context
  OBVIOUS
<1>2. Validation(n) = Visitor(ones)[n]
  BY Visited DEF Validation
<1>3. Visit(n, context) = Visitor(context)[n]
  BY Visited
<1> HIDE DEF ones
<1>4. ASSUME NEW m \in Formula, Parts(m) \subseteq S PROVE m \in S
  <2>1. \A p \in Parts(m) : KeptIfGood(Visitor(ones)[p], Visitor(context)[p])
    BY <1>4
  <2>2. KeptIfGood(VisitNode(m, Visitor(ones), ones), VisitNode(m, Visitor(context), context))
    BY <1>1, <2>1, KeptByNode
  <2> QED
    BY <2>2, Visited
<1> HIDE DEF S
<1>5. Formula \subseteq S
  BY <1>4, FromTheLeaves
<1>6. Kept(Visitor(ones)[n], Visitor(context)[n])
  BY <1>2, <1>5 DEF S, KeptIfGood
<1> QED
  BY <1>3, <1>6 DEF EvaluateFormula, AsDecimal, Kept, Raised

-----------------------------------------------------------------------------
(* So is what makes a formula regular.                                     *)
Regulars(v, S) == v = [n \in S |-> RegularNode(n, v)]

(* Whether a node is regular depends on its parts.                         *)
LEMMA RegularOfParts ==
  ASSUME NEW n, NEW v, NEW w, \A p \in Parts(n) : v[p] = w[p]
  PROVE  RegularNode(n, v) = RegularNode(n, w)
<1>1. CASE n.node = "BinOp"
  BY <1>1 DEF RegularNode, Parts
<1>2. CASE n.node = "UnaryOp"
  BY <1>2 DEF RegularNode, Parts
<1>3. CASE n.node = "Call"
  <2>1. \A i \in DOMAIN n.args : v[n.args[i]] = w[n.args[i]]
    BY <1>3 DEF Parts
  <2> QED
    BY <1>3, <2>1 DEF RegularNode
<1>4. CASE n.node \notin {"BinOp", "UnaryOp", "Call"}
  BY <1>4 DEF RegularNode
<1> QED
  BY <1>1, <1>2, <1>3, <1>4

(* The same three steps as for Visits.                                     *)
LEMMA RegularsAgree ==
  ASSUME NEW j \in Nat, NEW k \in Nat, NEW v, NEW w,
         Regulars(v, Below(j)), Regulars(w, Below(k)),
         NEW n \in Below(j) \cap Below(k)
  PROVE  v[n] = w[n]
<1> DEFINE S == {m \in Formula : m \in Below(j) \cap Below(k) => v[m] = w[m]}
<1>1. ASSUME NEW m \in Formula, Parts(m) \subseteq S PROVE m \in S
  <2>1. SUFFICES ASSUME m \in Below(j) \cap Below(k) PROVE v[m] = w[m]
    OBVIOUS
  <2>2. Parts(m) \subseteq Below(j) \cap Below(k)
    BY <2>1, Layers
  <2>3. \A p \in Parts(m) : v[p] = w[p]
    BY <1>1, <2>2
  <2>4. RegularNode(m, v) = RegularNode(m, w)
    BY <2>3, RegularOfParts
  <2>5. v[m] = RegularNode(m, v) /\ w[m] = RegularNode(m, w)
    BY <2>1 DEF Regulars
  <2> QED
    BY <2>4, <2>5
<1> HIDE DEF S
<1>2. Formula \subseteq S
  BY <1>1, FromTheLeaves
<1> QED
  BY <1>2, Layers DEF S

(* There is one up to any depth.                                           *)
LEMMA RegularsUpTo ==
  ASSUME NEW k \in Nat
  PROVE  \E v : Regulars(v, Below(k))
<1> DEFINE T == {i \in Nat : \E v : Regulars(v, Below(i))}
<1>1. 0 \in T
  <2> DEFINE v == [n \in {} |-> n]
  <2>1. v = [n \in {} |-> RegularNode(n, v)]
    OBVIOUS
  <2> HIDE DEF v
  <2> QED
    BY <2>1, Layers DEF Regulars
<1>2. ASSUME NEW i \in T PROVE i + 1 \in T
  <2>1. PICK v : Regulars(v, Below(i))
    OBVIOUS
  <2> DEFINE w == [n \in Below(i + 1) |-> RegularNode(n, v)]
  <2>2. ASSUME NEW n \in Below(i + 1)
        PROVE  RegularNode(n, v) = RegularNode(n, w)
    <3>1. ASSUME NEW p \in Parts(n) PROVE v[p] = w[p]
      <4>1. p \in Below(i) /\ p \in Below(i + 1)
        BY Layers
      <4> QED
        BY <2>1, <4>1 DEF Regulars
    <3> HIDE DEF w
    <3> QED
      BY <3>1, RegularOfParts
  <2>3. w = [n \in Below(i + 1) |-> RegularNode(n, w)]
    <3> DEFINE x == [n \in Below(i + 1) |-> RegularNode(n, w)]
    <3>1. \A n \in Below(i + 1) : w[n] = x[n]
      BY <2>2
    <3> QED
      BY <3>1
  <2>4. i + 1 \in Nat
    OBVIOUS
  <2> HIDE DEF w
  <2> QED
    BY <2>3, <2>4 DEF Regulars
<1>3. T = Nat
  <2>1. T \subseteq Nat
    OBVIOUS
  <2> HIDE DEF T
  <2> QED
    BY <1>1, <1>2, <2>1, NumbersFromZero
<1> QED
  BY <1>3

(* Hence there is one of all formulas.                                     *)
LEMMA RegularsExist == \E v : Regulars(v, Formula)
<1> DEFINE upTo(k) == CHOOSE v : Regulars(v, Below(k))
           level(n) == CHOOSE k \in Nat : n \in Below(k)
           v == [n \in Formula |-> upTo(level(n))[n]]
<1>1. \A k \in Nat : Regulars(upTo(k), Below(k))
  BY RegularsUpTo
<1>2. \A n \in Formula : level(n) \in Nat /\ n \in Below(level(n))
  BY Layers
<1>3. ASSUME NEW n \in Formula PROVE v[n] = RegularNode(n, v)
  <2> DEFINE w == upTo(level(n))
  <2>1. Regulars(w, Below(level(n))) /\ level(n) \in Nat
    BY <1>1, <1>2
  <2>2. w[n] = RegularNode(n, w)
    BY <1>2, <2>1 DEF Regulars
  <2>3. ASSUME NEW p \in Parts(n) PROVE v[p] = w[p]
    <3>1. p \in Formula /\ p \in Below(level(n))
      BY <1>2, Layers
    <3>2. p \in Below(level(p)) /\ level(p) \in Nat /\ Regulars(upTo(level(p)), Below(level(p)))
      BY <1>1, <1>2, <3>1
    <3> HIDE DEF upTo, level
    <3>3. upTo(level(p))[p] = w[p]
      BY <2>1, <3>1, <3>2, RegularsAgree
    <3> QED
      BY <3>1, <3>3
  <2>4. v[n] = w[n]
    OBVIOUS
  <2> HIDE DEF v, w
  <2>5. RegularNode(n, v) = RegularNode(n, w)
    BY <2>3, RegularOfParts
  <2> QED
    BY <2>2, <2>4, <2>5
<1>4. v = [n \in Formula |-> RegularNode(n, v)]
  <2> DEFINE x == [n \in Formula |-> RegularNode(n, v)]
  <2>1. \A n \in Formula : v[n] = x[n]
    BY <1>3
  <2> QED
    BY <2>1
<1> HIDE DEF v
<1> QED
  BY <1>4 DEF Regulars

Regularity == CHOOSE v : v = [n \in Formula |-> RegularNode(n, v)]

(* Regular is that function.                                               *)
LEMMA RegularityOf ==
  /\ \A n \in Formula : Regular(n) = Regularity[n]
  /\ \A n \in Formula : Regularity[n] = RegularNode(n, Regularity)
<1>1. \A n \in Formula : Regular(n) = Regularity[n]
  BY DEF Regular, Regularity
<1>2. Regulars(Regularity, Formula)
  BY RegularsExist DEF Regularity, Regulars
<1> QED
  BY <1>1, <1>2 DEF Regulars

(* A regular node yields a decimal if its operands and arguments do.       *)
LEMMA RegularNodeYields ==
  ASSUME NEW n \in Formula, NEW v, NEW r, NEW context, DOMAIN context = Symbols,
         RegularNode(n, r),
         \A p \in Parts(n) : r[p] => v[p].kind = "decimal",
         \A p \in Parts(n) : v[p] = VisitNode(p, v, context)
  PROVE  VisitNode(n, v, context).kind = "decimal"
<1>1. \A z : Value(z).kind = "decimal"
  BY DEF Value
<1>2. CASE n.node \in {"Name", "Constant"}
  BY <1>1, <1>2 DEF RegularNode, VisitNode, VisitName
<1>3. CASE n.node = "BinOp"
  <2>1. /\ n.op \in {"Add", "Sub", "Mult", "Div"}
        /\ v[n.left].kind = "decimal" /\ v[n.right].kind = "decimal"
    BY <1>3 DEF RegularNode, Parts
  <2>2. VisitBinOp(n.op, v[n.left], v[n.right])
          = Operate(n.op, v[n.left].value, v[n.right].value)
    BY <2>1 DEF VisitBinOp, AllowedBinOps, AllGood, AsDecimal, IsError
  <2>3. \A x, y : Operate(n.op, x, y).kind = "decimal"
    BY <1>1, <2>1 DEF Operate, Quotient
  <2> QED
    BY <1>3, <2>2, <2>3 DEF VisitNode
<1>4. CASE n.node = "UnaryOp"
  <2>1. n.op \in AllowedUnaryOps /\ v[n.operand].kind = "decimal"
    BY <1>4 DEF RegularNode, Parts
  <2> QED
    BY <1>1, <1>4, <2>1 DEF VisitNode, VisitUnaryOp, IsDecimal
<1>5. CASE n.node = "Call"
  <2> DEFINE f == n.func
             x == [i \in DOMAIN n.args |-> v[n.args[i]]]
             visited == <<v[f]>> \o x
  <2>1. /\ f.node = "Name" /\ f.id \in AllowedFuncs
        /\ IF f.id \in {"min", "max"} THEN Len(n.args) >= 2 ELSE Len(n.args) = 1
        /\ \A i \in DOMAIN n.args : v[n.args[i]].kind = "decimal"
    BY <1>5 DEF RegularNode, Parts
  <2>2. v[f] = Function(f.id)
    <3>1. v[f] = VisitNode(f, v, context)
      BY <1>5 DEF Parts
    <3>2. f.id \notin Symbols
      BY <2>1 DEF AllowedFuncs, Symbols
    <3> QED
      BY <2>1, <3>1, <3>2 DEF VisitNode, VisitName
  <2>3. n.args \in Seq(Formula)
    BY <1>5, Arguments
  <2>4. /\ x \in Seq({v[m] : m \in Formula}) /\ Len(x) = Len(n.args)
        /\ \A i \in DOMAIN x : x[i].kind = "decimal"
    BY <2>1, <2>3
  <2>5. VisitNode(n, v, context) = VisitCall(v[f], x)
    BY <1>5 DEF VisitNode
  <2> HIDE DEF f, x
  <2>6. AllGood(visited)
    <3>1. \A i \in DOMAIN visited : visited[i] = v[f] \/ \E j \in DOMAIN x : visited[i] = x[j]
      BY <2>4
    <3> QED
      BY <2>2, <2>4, <3>1 DEF AllGood, IsError, Function
  <2>7. VisitCall(v[f], x) = Apply(f.id, x)
    BY <2>2, <2>6 DEF VisitCall, Function
  <2>8. Apply(f.id, x).kind = "decimal"
    <3>1. \A i \in DOMAIN x : IsDecimal(x[i])
      BY <2>4 DEF IsDecimal
    <3>2. CASE f.id \in {"min", "max"}
      <4>1. Len(x) > 1
        BY <2>1, <2>4, <3>2
      <4> QED
        BY <1>1, <3>1, <3>2, <4>1 DEF Apply
    <3>3. CASE f.id \in {"round", "Decimal"}
      <4>1. Len(x) = 1 /\ x # <<>> /\ x[1].kind = "decimal"
        BY <2>1, <2>4, <3>3
      <4> QED
        BY <1>1, <3>1, <3>3, <4>1 DEF Apply
    <3> QED
      BY <2>1, <3>2, <3>3 DEF AllowedFuncs
  <2> QED
    BY <2>5, <2>7, <2>8
<1> QED
  BY <1>2, <1>3, <1>4, <1>5 DEF RegularNode

(* A regular formula has a value in every context of the five symbols.     *)
LEMMA RegularYields ==
  ASSUME NEW n \in Formula, NEW context, DOMAIN context = Symbols, Regular(n)
  PROVE  Visit(n, context).kind = "decimal"
<1> DEFINE v == Visitor(context)
           S == {m \in Formula : Regularity[m] => v[m].kind = "decimal"}
<1>1. ASSUME NEW m \in Formula, Parts(m) \subseteq S PROVE m \in S
  <2>1. SUFFICES ASSUME Regularity[m] PROVE v[m].kind = "decimal"
    OBVIOUS
  <2>2. v[m] = VisitNode(m, v, context) /\ \A p \in Parts(m) : v[p] = VisitNode(p, v, context)
    BY <1>1, Visited
  <2>3. RegularNode(m, Regularity)
    BY <2>1, RegularityOf
  <2> HIDE DEF v
  <2> QED
    BY <1>1, <2>2, <2>3, RegularNodeYields
<1> HIDE DEF S
<1>2. Formula \subseteq S
  BY <1>1, FromTheLeaves
<1> QED
  BY <1>2, Visited, RegularityOf DEF S

-----------------------------------------------------------------------------
(* What an evaluation yields is a decimal, or no number at all.            *)

(* What a visit yields, and that the decimals among it are decimals.       *)
Yield(v) ==
  \/ v.kind = "decimal" /\ v.value \in Decimal
  \/ v.kind \in {"function", "FormulaValidationError", "exception"}

(* Numbers, functions and errors are such yields.                          *)
LEMMA YieldOf ==
  /\ \A x \in Decimal : Yield(Value(x))
  /\ \A v : IsError(v) => Yield(v)
  /\ Yield(Invalid) /\ Yield(Raised) /\ \A f : Yield(Function(f))
BY DEF Yield, Value, Invalid, Raised, Function, IsError

(* Every operation yields a decimal or an exception.                       *)
LEMMA OperateTyped ==
  ASSUME NEW op \in AllowedBinOps, NEW x \in Decimal, NEW y \in Decimal
  PROVE  Yield(Operate(op, x, y))
<1>1. CASE op \in {"Add", "Sub", "Mult"}
  BY <1>1, Closed, YieldOf DEF Operate
<1>2. CASE op = "Div"
  <2>1. Zero \in Decimal
    BY WholeOf DEF Zero
  <2> QED
    BY <1>2, <2>1, Closed, YieldOf DEF Operate, Quotient
<1>3. CASE op = "Mod"
  BY <1>3, Closed, YieldOf DEF Operate
<1>4. CASE op = "Pow"
  <2> DEFINE s == [i \in 1 .. y[1] |-> x]
  <2>1. y[1] \in Int
    BY DecimalOf
  <2>2. FoldLeft(Times, Whole(1), s) \in Decimal
    <3>1. CASE y[1] >= 0
      BY <2>1, <3>1, ProductOf
    <3>2. CASE y[1] < 0
      <4>1. 1 .. y[1] = 1 .. 0
        BY <2>1, <3>2
      <4>2. s \in [1 .. 0 -> Decimal]
        BY <4>1
      <4> HIDE DEF s
      <4> QED
        BY <4>2, ProductOf
    <3> QED
      BY <2>1, <3>1, <3>2
  <2>3. Operate(op, x, y) \in {Raised, Value(FoldLeft(Times, Whole(1), s))}
    BY <1>4 DEF Operate, Power
  <2> HIDE DEF s
  <2> QED
    BY <2>2, <2>3, YieldOf
<1> QED
  BY <1>1, <1>2, <1>3, <1>4 DEF AllowedBinOps

(* Every function yields a decimal or an exception.                        *)
LEMMA ApplyTyped ==
  ASSUME NEW S, NEW f, NEW args \in Seq(S), \A i \in DOMAIN args : Yield(args[i])
  PROVE  Yield(Apply(f, args))
<1> DEFINE amounts == {args[i].value : i \in DOMAIN args}
<1>1. CASE \E i \in DOMAIN args : ~ IsDecimal(args[i])
  BY <1>1, YieldOf DEF Apply
<1>2. CASE \A i \in DOMAIN args : IsDecimal(args[i])
  <2> DEFINE n == Len(args)
             a == [i \in 1 .. n |-> args[i].value]
  <2>1. n \in Nat /\ DOMAIN args = 1 .. n /\ (n = 0 <=> args = <<>>)
    OBVIOUS
  <2>2. \A i \in DOMAIN args : args[i].value \in Decimal
    BY <1>2 DEF Yield, IsDecimal
  <2>3. a \in [1 .. n -> Decimal]
    BY <2>1, <2>2
  <2>4. Zero \in Decimal
    BY WholeOf DEF Zero
  <2>5. n = 1 => Yield(args[1]) /\ Yield(Value(Rounded(args[1].value)))
    BY <2>1, <2>2, RoundedClosed, YieldOf
  <2>6. ASSUME n > 1
        PROVE  /\ (CHOOSE x \in amounts : \A y \in amounts : Leq(x, y)) \in Decimal
               /\ (CHOOSE x \in amounts : \A y \in amounts : Leq(y, x)) \in Decimal
    <3>1. n \in Positive
      BY <2>1, <2>6 DEF Positive
    <3>2. \A i \in 1 .. n : a[i] \in amounts
      BY <2>1
    <3>3. \A x \in amounts : x \in Decimal /\ \E i \in 1 .. n : x = a[i]
      BY <2>1, <2>2
    <3> HIDE DEF amounts, a, n
    <3>4. \E x \in amounts : \A y \in amounts : Leq(x, y)
      <4>1. PICK i \in 1 .. n : \A j \in 1 .. n : Leq(a[i], a[j])
        BY <2>3, <3>1, Extremes
      <4> QED
        BY <3>2, <3>3, <4>1
    <3>5. \E x \in amounts : \A y \in amounts : Leq(y, x)
      <4>1. PICK i \in 1 .. n : \A j \in 1 .. n : Leq(a[j], a[i])
        BY <2>3, <3>1, Extremes
      <4> QED
        BY <3>2, <3>3, <4>1
    <3> QED
      BY <3>3, <3>4, <3>5
  <2>7. Apply(f, args) =
          CASE f = "Decimal" /\ args = <<>>   -> Value(Zero)
            [] f = "Decimal" /\ n = 1 -> args[1]
            [] f = "round" /\ n = 1   -> Value(Rounded(args[1].value))
            [] f = "min" /\ n > 1     -> Value(CHOOSE x \in amounts : \A y \in amounts : Leq(x, y))
            [] f = "max" /\ n > 1     -> Value(CHOOSE x \in amounts : \A y \in amounts : Leq(y, x))
            [] OTHER                          -> Raised
    BY <1>2 DEF Apply
  <2> HIDE DEF amounts, a, n
  <2>8. CASE f = "Decimal" /\ args = <<>>
    BY <2>1, <2>4, <2>7, <2>8, YieldOf
  <2>9. CASE n = 1
    <3>1. args # <<>> /\ ~ (n > 1)
      BY <2>1, <2>9
    <3> QED
      BY <2>5, <2>7, <2>9, <3>1, YieldOf
  <2>10. CASE n > 1
    <3>1. args # <<>> /\ n # 1
      BY <2>1, <2>10
    <3> QED
      BY <2>6, <2>7, <2>10, <3>1, YieldOf
  <2>11. CASE n = 0 /\ f # "Decimal"
    BY <2>7, <2>11, YieldOf
  <2> QED
    BY <2>1, <2>8, <2>9, <2>10, <2>11
<1> QED
  BY <1>1, <1>2

(* Every node yields a decimal if it yields an amount at all.              *)
LEMMA NodeTyped ==
  ASSUME NEW n \in Formula, NEW v, NEW context, \A s \in DOMAIN context : context[s] \in Decimal,
         \A p \in Parts(n) : Yield(v[p])
  PROVE  Yield(VisitNode(n, v, context))
<1>1. CASE n.node = "Name"
  BY <1>1, YieldOf DEF VisitNode, VisitName
<1>2. CASE n.node = "Constant"
  <2>1. PICK k \in DOMAIN Trees : n \in Trees[k]
    BY DEF Formula
  <2>2. n.value \in Decimal
    BY <1>2, <2>1, TreesAssumption
  <2> QED
    BY <1>2, <2>2, YieldOf DEF VisitNode
<1>3. CASE n.node = "BinOp"
  <2> DEFINE x == v[n.left]
             y == v[n.right]
             operands == <<AsDecimal(x), AsDecimal(y)>>
  <2>1. Yield(x) /\ Yield(y)
    BY <1>3 DEF Parts
  <2>2. VisitNode(n, v, context) = VisitBinOp(n.op, x, y)
    BY <1>3 DEF VisitNode
  <2>3. operands \in Seq({AsDecimal(x), AsDecimal(y)})
    OBVIOUS
  <2> HIDE DEF x, y
  <2>4. CASE n.op \notin AllowedBinOps
    BY <2>2, <2>4, YieldOf DEF VisitBinOp
  <2>5. CASE n.op \in AllowedBinOps /\ ~ AllGood(operands)
    <3>1. IsError(FirstError(operands))
      BY <2>3, <2>5, FirstErrorOf
    <3> QED
      BY <2>2, <2>5, <3>1, YieldOf DEF VisitBinOp
  <2>6. CASE n.op \in AllowedBinOps /\ AllGood(operands)
    <3>1. ~ IsError(AsDecimal(x)) /\ ~ IsError(AsDecimal(y))
      BY <2>6 DEF AllGood
    <3>2. x.value \in Decimal /\ y.value \in Decimal
      BY <2>1, <3>1 DEF Yield, AsDecimal, IsError, Raised
    <3> QED
      BY <2>2, <2>6, <3>2, OperateTyped DEF VisitBinOp
  <2> QED
    BY <2>4, <2>5, <2>6
<1>4. CASE n.node = "UnaryOp"
  <2>1. Yield(v[n.operand])
    BY <1>4 DEF Parts
  <2>2. Zero \in Decimal
    BY WholeOf DEF Zero
  <2>3. \A x : Yield(x) => Yield(AsDecimal(x))
    BY YieldOf DEF AsDecimal
  <2>4. \A x : Yield(x) /\ IsDecimal(x) => x.value \in Decimal
    BY DEF Yield, IsDecimal
  <2>5. \A x \in Decimal : Yield(Value(Minus(Zero, x)))
    BY <2>2, Closed, YieldOf
  <2> QED
    BY <1>4, <2>1, <2>3, <2>4, <2>5, YieldOf DEF VisitNode, VisitUnaryOp
<1>5. CASE n.node = "Call"
  <2> DEFINE f == v[n.func]
             x == [i \in DOMAIN n.args |-> v[n.args[i]]]
             S == {v[p] : p \in Parts(n)}
             visited == <<f>> \o x
  <2>1. n.args \in Seq(Formula)
    BY <1>5, Arguments
  <2>2. n.func \in Parts(n) /\ \A i \in DOMAIN n.args : n.args[i] \in Parts(n)
    BY <1>5 DEF Parts
  <2>3. x \in Seq(S) /\ visited \in Seq(S) /\ \A i \in DOMAIN x : Yield(x[i])
    BY <2>1, <2>2
  <2>4. VisitNode(n, v, context) = VisitCall(f, x)
    BY <1>5 DEF VisitNode
  <2> HIDE DEF f, x, S
  <2>5. ~ AllGood(visited) => Yield(FirstError(visited))
    BY <2>3, FirstErrorOf, YieldOf
  <2>6. Yield(Apply(f.name, x))
    BY <2>3, ApplyTyped
  <2> QED
    BY <2>4, <2>5, <2>6, YieldOf DEF VisitCall
<1>6. CASE n.node \notin {"Name", "Constant", "BinOp", "UnaryOp", "Call"}
  BY <1>6, YieldOf DEF VisitNode
<1> QED
  BY <1>1, <1>2, <1>3, <1>4, <1>5, <1>6

(* Hence an evaluated formula is a decimal, unless it is an error.         *)
LEMMA EvaluateTyped ==
  ASSUME NEW n \in Formula, NEW context, \A s \in DOMAIN context : context[s] \in Decimal
  PROVE  LET r == EvaluateFormula(n, context)
         IN  ~ IsError(r) => r.kind = "decimal" /\ r.value \in Decimal
<1> DEFINE S == {m \in Formula : Yield(Visitor(context)[m])}
<1>1. ASSUME NEW m \in Formula, Parts(m) \subseteq S PROVE m \in S
  BY <1>1, NodeTyped, Visited
<1> HIDE DEF S
<1>2. Formula \subseteq S
  BY <1>1, FromTheLeaves
<1>3. Yield(Visit(n, context))
  BY <1>2, Visited DEF S
<1> QED
  BY <1>3 DEF EvaluateFormula, AsDecimal, Yield, IsError, Raised

-----------------------------------------------------------------------------
(* What the amounts of an instance add up to.                              *)

(* n decimals that are whole in parts of D, and totals of results r and    *)
(* extras o as computed, and of what is paid, p, that are near each other. *)
Made(n, s, D) == \A i \in 1 .. n : \E a \in Int : Is(s[i], a, D)

TotalsNear(n, r, o, p, E) ==
  \E A, B, C \in Int :
     /\ Is(Total(r), A, 200 * E) /\ Is(Total(o), B, 200 * E) /\ Is(Total(p), C, 200 * E)
     /\ -(n * (2 * E)) <= C - (A + B) /\ C - (A + B) <= n * (2 * E)

(* Sums of amounts as computed and as stored differ by half a cent for     *)
(* each of them.                                                           *)
LEMMA PaidNear ==
  ASSUME NEW n \in Nat, NEW r \in [1 .. n -> Decimal], NEW o \in [1 .. n -> Decimal],
         NEW p \in [1 .. n -> Decimal], NEW E \in Positive,
         Made(n, r, 200 * E), Made(n, o, 200 * E),
         \A i \in 1 .. n : p[i] = Plus(Store(r[i]), Store(o[i]))
  PROVE  TotalsNear(n, r, o, p, E)
<1> DEFINE D == 200 * E
           F == 2 * E
<1>0. D \in Positive /\ E \in Nat /\ E # 0 /\ F \in Nat /\ F = 2 * E
  BY DEF Positive
<1> HIDE DEF F
<1>1. r \in Seq(Decimal) /\ o \in Seq(Decimal) /\ p \in Seq(Decimal)
      /\ Len(r) = n /\ Len(o) = n /\ Len(p) = n
  OBVIOUS
<1>2. PICK R : PartialSums(R, r) /\ Total(r) = R[n]
  BY <1>1, TotalOf
<1>3. PICK O : PartialSums(O, o) /\ Total(o) = O[n]
  BY <1>1, TotalOf
<1>4. PICK P : PartialSums(P, p) /\ Total(p) = P[n]
  BY <1>1, TotalOf
<1> DEFINE Near(k) == \E A, B, C \in Int :
             /\ Is(R[k], A, D) /\ Is(O[k], B, D) /\ Is(P[k], C, D)
             /\ -(k * F) <= C - (A + B) /\ C - (A + B) <= k * F
           T == {k \in Nat : k <= n => Near(k)}
<1>5. 0 \in T
  <2>1. R[0] = Zero /\ O[0] = Zero /\ P[0] = Zero
    BY <1>2, <1>3, <1>4 DEF PartialSums
  <2>2. Is(Zero, 0, D)
    BY <1>0 DEF Is, Zero, Whole
  <2>3. -(0 * F) <= 0 - (0 + 0) /\ 0 - (0 + 0) <= 0 * F
    BY <1>0
  <2> HIDE DEF D
  <2>4. Near(0)
    <3>1. Is(R[0], 0, D) /\ Is(O[0], 0, D) /\ Is(P[0], 0, D)
      BY <2>1, <2>2
    <3> QED
      BY <2>3, <3>1
  <2> QED
    BY <2>4
<1>6. ASSUME NEW k \in T PROVE k + 1 \in T
  <2>1. SUFFICES ASSUME k + 1 <= n PROVE Near(k + 1)
    OBVIOUS
  <2> DEFINE l == k + 1
  <2>2. l \in 1 .. n /\ k \in 0 .. n /\ l - 1 = k /\ k \in Nat
    BY <2>1
  <2>3. PICK A \in Int, B \in Int, C \in Int :
           /\ Is(R[k], A, D) /\ Is(O[k], B, D) /\ Is(P[k], C, D)
           /\ -(k * F) <= C - (A + B) /\ C - (A + B) <= k * F
    BY <2>2
  <2> HIDE DEF l, T, Near
  <2>4. PICK a \in Int : Is(r[l], a, D)
    BY <2>2 DEF Made
  <2>5. PICK b \in Int : Is(o[l], b, D)
    BY <2>2 DEF Made
  <2>6. /\ r[l] \in Decimal /\ o[l] \in Decimal
        /\ Store(r[l]) \in Decimal /\ Store(o[l]) \in Decimal
    <3>1. 100 \in Positive
      BY DEF Positive
    <3> QED
      BY <2>2, <3>1, PlacesOf DEF Store
  <2>7. PICK c \in Int : Is(Store(r[l]), c, D) /\ -E <= c - a /\ c - a <= E
    BY <2>4, <2>6, StoreNear
  <2>18. PICK e \in Int : Is(Store(o[l]), e, D) /\ -E <= e - b /\ e - b <= E
    BY <2>5, <2>6, StoreNear
  <2>8. /\ R[k] \in Decimal /\ O[k] \in Decimal /\ P[k] \in Decimal
        /\ R[l] = Plus(R[k], r[l]) /\ O[l] = Plus(O[k], o[l]) /\ P[l] = Plus(P[k], p[l])
    BY <1>1, <1>2, <1>3, <1>4, <2>2 DEF PartialSums
  <2>9. p[l] = Plus(Store(r[l]), Store(o[l])) /\ p[l] \in Decimal
    BY <2>2
  <2> HIDE DEF D
  <2>10. Is(p[l], c + e, D)
    BY <1>0, <2>6, <2>7, <2>9, <2>18, PartsOf
  <2>11. Is(R[l], A + a, D)
    <3>1. R[k] \in Decimal /\ r[l] \in Decimal /\ Is(R[k], A, D) /\ Is(r[l], a, D)
      BY <2>3, <2>4, <2>6, <2>8
    <3>2. Is(Plus(R[k], r[l]), A + a, D)
      BY <1>0, <3>1, PartsOf
    <3> QED
      BY <2>8, <3>2
  <2>17. Is(O[l], B + b, D)
    <3>1. O[k] \in Decimal /\ o[l] \in Decimal /\ Is(O[k], B, D) /\ Is(o[l], b, D)
      BY <2>3, <2>5, <2>6, <2>8
    <3>2. Is(Plus(O[k], o[l]), B + b, D)
      BY <1>0, <3>1, PartsOf
    <3> QED
      BY <2>8, <3>2
  <2>12. Is(P[l], C + (c + e), D)
    <3>1. c + e \in Int
      OBVIOUS
    <3> QED
      BY <1>0, <2>3, <2>8, <2>9, <2>10, <3>1, PartsOf
  <2>13. l * F = k * F + F /\ k * F \in Int
    BY <1>0, <2>2 DEF l
  <2> DEFINE z == k * F
             y == l * F
  <2>14. -y <= (C + (c + e)) - ((A + a) + (B + b)) /\ (C + (c + e)) - ((A + a) + (B + b)) <= y
    <3>1. y = z + F /\ z \in Int /\ -z <= C - (A + B) /\ C - (A + B) <= z
      BY <2>3, <2>13
    <3> HIDE DEF z, y
    <3> QED
      BY <1>0, <2>7, <2>18, <3>1
  <2>15. A + a \in Int /\ B + b \in Int /\ C + (c + e) \in Int
    OBVIOUS
  <2>16. Near(l)
    BY <2>11, <2>17, <2>12, <2>14, <2>15 DEF Near
  <2> QED
    BY <2>16 DEF l
<1>7. T = Nat
  <2>1. T \subseteq Nat
    OBVIOUS
  <2> HIDE DEF T
  <2> QED
    BY <1>5, <1>6, <2>1, NumbersFromZero
<1>8. n \in T
  <2> HIDE DEF T
  <2> QED
    BY <1>7
<1>9. Near(n)
  BY <1>8
<1> HIDE DEF T
<1> QED
  BY <1>0, <1>2, <1>3, <1>4, <1>9 DEF TotalsNear

(* Any four decimals are whole in finer parts of D.                        *)
LEMMA FourParts ==
  ASSUME NEW D \in Positive, NEW k \in Decimal, NEW l \in Decimal, NEW q \in Decimal, NEW w \in Decimal
  PROVE  \E e \in Positive, K, L, Q, W \in Int :
           /\ D * e \in Positive
           /\ Is(k, K, D * e) /\ Is(l, L, D * e) /\ Is(q, Q, D * e) /\ Is(w, W, D * e)
<1>1. \A x, y \in Positive : x * y \in Positive
  BY DEF Positive
<1>2. PICK e1 \in Positive, K1 \in Int : Is(k, K1, D * e1)
  BY PartsFor
<1>3. D * e1 \in Positive
  BY <1>1
<1>4. PICK e2 \in Positive, L1 \in Int : Is(l, L1, (D * e1) * e2)
  BY <1>3, PartsFor
<1>5. (D * e1) * e2 \in Positive
  BY <1>1, <1>3
<1>6. PICK e3 \in Positive, Q1 \in Int : Is(q, Q1, ((D * e1) * e2) * e3)
  BY <1>5, PartsFor
<1>7. ((D * e1) * e2) * e3 \in Positive
  BY <1>1, <1>5
<1>8. PICK e4 \in Positive, W \in Int : Is(w, W, (((D * e1) * e2) * e3) * e4)
  BY <1>7, PartsFor
<1> DEFINE e == ((e1 * e2) * e3) * e4
<1>9. e \in Positive /\ D * e \in Positive
  BY <1>1
<1>10. /\ D * e = (D * e1) * ((e2 * e3) * e4)
       /\ D * e = ((D * e1) * e2) * (e3 * e4)
       /\ D * e = (((D * e1) * e2) * e3) * e4
       /\ (e2 * e3) * e4 \in Positive /\ e3 * e4 \in Positive
  <2>1. e1 \in Int /\ e2 \in Int /\ e3 \in Int /\ e4 \in Int /\ D \in Int
    BY DEF Positive
  <2>2. \A x, y, z \in Int : (x * y) * z = x * (y * z)
    OBVIOUS
  <2>3. (e1 * e2) * e3 = e1 * (e2 * e3) /\ e = (e1 * (e2 * e3)) * e4
    BY <2>1, <2>2
  <2> QED
    BY <1>1, <2>1
<1> HIDE DEF e
<1>11. PICK K \in Int : Is(k, K, D * e)
  BY <1>2, <1>3, <1>10, FinerParts
<1>12. PICK L \in Int : Is(l, L, D * e)
  BY <1>4, <1>5, <1>10, FinerParts
<1>13. PICK Q \in Int : Is(q, Q, D * e)
  BY <1>6, <1>7, <1>10, FinerParts
<1>14. Is(w, W, D * e)
  BY <1>8, <1>10
<1> QED
  BY <1>9, <1>11, <1>12, <1>13, <1>14

(* What the rounded total of all amounts and the sum of the amounts as     *)
(* they are stored have to do with each other.                             *)
AddUp(n, r, o, k, l, q, w) ==
  LET paid == [i \in 1 .. n |-> Plus(Store(r[i]), Store(o[i]))]
      sum  == Plus(Total(paid), Plus(l, Store(w)))
      lost == Plus(Frac(2 * n + 2, 200), q)
      total == Store(Plus(Plus(Total(r), Total(o)), Plus(k, w)))
  IN  Leq(Minus(total, sum), lost) /\ Leq(Minus(sum, total), lost)

(* The amounts of one instance, however they were calculated: the salary   *)
(* part k, which is l when computed again, at most q away, and the         *)
(* overtime w besides the results r and the extras o.                      *)
LEMMA AmountsAddUp ==
  ASSUME NEW n \in Nat, NEW r \in [1 .. n -> Decimal], NEW o \in [1 .. n -> Decimal],
         NEW k \in Decimal, NEW l \in Decimal, NEW q \in Decimal, NEW w \in Decimal,
         Leq(Minus(k, l), q), Leq(Minus(l, k), q)
  PROVE  AddUp(n, r, o, k, l, q, w)
<1> DEFINE paid == [i \in 1 .. n |-> Plus(Store(r[i]), Store(o[i]))]
           sum  == Plus(Total(paid), Plus(l, Store(w)))
           half == Frac(2 * n + 2, 200)
           lost == Plus(half, q)
           exact == Plus(Plus(Total(r), Total(o)), Plus(k, w))
<1>1. 1 \in Positive /\ \A x, y \in Positive : x * y \in Positive
  BY DEF Positive
<1>2. PICK e1 \in Positive : \A i \in 1 .. n : \E a \in Int : Is(r[i], a, 200 * e1)
  BY CommonCents
<1>3. 200 * e1 \in Positive
  BY DEF Positive
<1>4. PICK e2 \in Positive : \A i \in 1 .. n : \E a \in Int : Is(o[i], a, (200 * e1) * e2)
  <2> DEFINE F == 200 * e1
  <2>1. F \in Positive
    BY <1>3
  <2> HIDE DEF F
  <2>2. \E e2 \in Positive : \A i \in 1 .. n : \E a \in Int : Is(o[i], a, F * e2)
    BY <2>1, CommonParts
  <2> QED
    BY <2>2 DEF F
<1>5. (200 * e1) * e2 \in Positive
  BY <1>1, <1>3
<1>6. PICK e3 \in Positive, K \in Int, L \in Int, Q \in Int, W \in Int :
         /\ ((200 * e1) * e2) * e3 \in Positive
         /\ Is(k, K, ((200 * e1) * e2) * e3) /\ Is(l, L, ((200 * e1) * e2) * e3)
         /\ Is(q, Q, ((200 * e1) * e2) * e3) /\ Is(w, W, ((200 * e1) * e2) * e3)
  <2> DEFINE F == (200 * e1) * e2
  <2>1. F \in Positive
    BY <1>5
  <2> HIDE DEF F
  <2>2. \E e3 \in Positive, K, L, Q, W \in Int :
          /\ F * e3 \in Positive
          /\ Is(k, K, F * e3) /\ Is(l, L, F * e3) /\ Is(q, Q, F * e3) /\ Is(w, W, F * e3)
    BY <2>1, FourParts
  <2> QED
    BY <2>2 DEF F
<1> DEFINE E == (e1 * e2) * e3
           D == 200 * E
<1>9. E \in Positive /\ D \in Positive /\ E \in Nat
  BY <1>1 DEF Positive
<1>10. /\ D = (200 * e1) * (e2 * e3)
       /\ D = ((200 * e1) * e2) * e3
       /\ e2 * e3 \in Positive
  <2>1. e1 \in Int /\ e2 \in Int /\ e3 \in Int
    BY DEF Positive
  <2> QED
    BY <1>1, <2>1
<1> HIDE DEF E, D
<1>11. Made(n, r, D)
  <2> SUFFICES ASSUME NEW i \in 1 .. n PROVE \E a \in Int : Is(r[i], a, D)
    BY DEF Made
  <2>1. PICK a \in Int : Is(r[i], a, 200 * e1)
    BY <1>2
  <2> QED
    BY <1>3, <1>10, <2>1, FinerParts
<1>12. Made(n, o, D)
  <2> SUFFICES ASSUME NEW i \in 1 .. n PROVE \E a \in Int : Is(o[i], a, D)
    BY DEF Made
  <2>1. PICK a \in Int : Is(o[i], a, (200 * e1) * e2)
    BY <1>4
  <2> QED
    BY <1>5, <1>10, <2>1, FinerParts
<1>13. Is(k, K, D) /\ Is(l, L, D) /\ Is(q, Q, D) /\ Is(w, W, D)
  BY <1>6, <1>10
<1>14. K - L <= Q /\ L - K <= Q
  <2>1. Is(Minus(k, l), K - L, D) /\ Is(Minus(l, k), L - K, D)
    BY <1>9, <1>13, PartsOf
  <2>2. Minus(k, l) \in Decimal /\ Minus(l, k) \in Decimal
    BY Closed
  <2>3. K - L \in Int /\ L - K \in Int
    OBVIOUS
  <2> QED
    BY <1>9, <1>13, <2>1, <2>2, <2>3, PartsOf
<1>15. \A x \in Decimal : Store(x) \in Decimal
  <2>1. 100 \in Positive
    BY DEF Positive
  <2> QED
    BY <2>1, PlacesOf DEF Store
<1>16. paid \in [1 .. n -> Decimal] /\ \A i \in 1 .. n : paid[i] = Plus(Store(r[i]), Store(o[i]))
  BY <1>15, Closed
<1> HIDE DEF paid
<1>17. PICK A \in Int, B \in Int, C \in Int :
          /\ Is(Total(r), A, D) /\ Is(Total(o), B, D) /\ Is(Total(paid), C, D)
          /\ -(n * (2 * E)) <= C - (A + B) /\ C - (A + B) <= n * (2 * E)
  <2>1. D = 200 * E
    BY DEF D
  <2>2. TotalsNear(n, r, o, paid, E)
    BY <1>9, <1>11, <1>12, <1>16, <2>1, PaidNear
  <2> QED
    BY <2>1, <2>2 DEF TotalsNear
<1>18. /\ Total(r) \in Decimal /\ Total(o) \in Decimal /\ Total(paid) \in Decimal
       /\ Store(w) \in Decimal
  BY <1>15, <1>16, TotalClosed
<1>19. PICK v \in Int : Is(Store(w), v, D) /\ -E <= v - W /\ v - W <= E
  BY <1>9, <1>13, StoreNear DEF D
<1>20. Is(exact, (A + B) + (K + W), D) /\ exact \in Decimal
  <2>1. Is(Plus(Total(r), Total(o)), A + B, D) /\ Plus(Total(r), Total(o)) \in Decimal
    BY <1>9, <1>17, <1>18, PartsOf, Closed
  <2>2. Is(Plus(k, w), K + W, D) /\ Plus(k, w) \in Decimal
    BY <1>9, <1>13, PartsOf, Closed
  <2>3. A + B \in Int /\ K + W \in Int
    OBVIOUS
  <2> QED
    BY <1>9, <2>1, <2>2, <2>3, PartsOf, Closed
<1>21. Is(sum, C + (L + v), D) /\ sum \in Decimal
  <2>1. Is(Plus(l, Store(w)), L + v, D) /\ Plus(l, Store(w)) \in Decimal
    BY <1>9, <1>13, <1>18, <1>19, PartsOf, Closed
  <2>2. L + v \in Int
    OBVIOUS
  <2> QED
    BY <1>9, <1>17, <1>18, <2>1, <2>2, PartsOf, Closed
<1> HIDE DEF exact, sum
<1>22. PICK t \in Int : Is(Store(exact), t, D) /\ -E <= t - ((A + B) + (K + W))
                        /\ t - ((A + B) + (K + W)) <= E
  <2>1. (A + B) + (K + W) \in Int
    OBVIOUS
  <2> QED
    BY <1>9, <1>20, <2>1, StoreNear DEF D
<1>23. half \in Decimal /\ Is(half, (2 * n + 2) * E, D) /\ (2 * n + 2) * E \in Int
       /\ (2 * n + 2) * E = n * (2 * E) + 2 * E
  <2>1. 2 * n + 2 \in Int /\ 200 \in Positive
    BY DEF Positive
  <2>2. half \in Decimal /\ Is(half, (2 * n + 2) * E, D)
    BY <1>9, <2>1, PartsOfFraction DEF D
  <2> HIDE DEF half
  <2>3. n * (2 * E) = (2 * n) * E /\ (2 * n + 2) * E = (2 * n) * E + 2 * E
    BY <1>9
  <2> QED
    BY <1>9, <2>2, <2>3
<1> HIDE DEF half
<1> DEFINE h == (2 * n + 2) * E
           m == n * (2 * E)
           s == C + (L + v)
<1>24. /\ Is(lost, h + Q, D) /\ lost \in Decimal /\ Store(exact) \in Decimal
       /\ Is(Minus(Store(exact), sum), t - s, D) /\ Minus(Store(exact), sum) \in Decimal
       /\ Is(Minus(sum, Store(exact)), s - t, D) /\ Minus(sum, Store(exact)) \in Decimal
  <2>1. s \in Int /\ h \in Int /\ Is(half, h, D) /\ Is(sum, s, D)
    BY <1>21, <1>23
  <2> HIDE DEF s, h
  <2>2. Is(lost, h + Q, D) /\ lost \in Decimal
    BY <1>9, <1>13, <1>23, <2>1, PartsOf, Closed
  <2>3. Store(exact) \in Decimal /\ Is(Store(exact), t, D)
    BY <1>15, <1>20, <1>22
  <2> QED
    BY <1>9, <1>21, <2>1, <2>2, <2>3, PartsOf, Closed
<1>25. t - s <= h + Q /\ s - t <= h + Q
  <2>1. m \in Int /\ h = m + 2 * E /\ -m <= C - (A + B) /\ C - (A + B) <= m
    BY <1>9, <1>17, <1>23
  <2> HIDE DEF h, m
  <2> QED
    BY <1>9, <1>14, <1>19, <1>22, <2>1
<1>26. h + Q \in Int /\ t - s \in Int /\ s - t \in Int
  BY <1>23
<1> HIDE DEF h, s, m, lost
<1>27. Leq(Minus(Store(exact), sum), lost) /\ Leq(Minus(sum, Store(exact)), lost)
  BY <1>9, <1>24, <1>25, <1>26, PartsOf
<1> QED
  BY <1>27 DEF AddUp, exact, sum, half, lost, paid

SalaryFields == [base : Decimal, share : Decimal, x1 : Decimal, x2 : Decimal]

(* What multiplying stored factors instead of posted ones makes of a       *)
(* product, in whole numbers.                                              *)
LEMMA ProductNear ==
  ASSUME NEW X \in Int, NEW Y \in Int, NEW B \in Int, NEW S \in Int, NEW E \in Nat,
         -E <= B - X, B - X <= E, -E <= S - Y, S - Y <= E
  PROVE  LET most == ((Abs(B) + Abs(S)) + E) * E
         IN  X * Y - B * S <= most /\ B * S - X * Y <= most
<1> DEFINE u == X - B
           v == Y - S
<1>1. u \in Int /\ v \in Int /\ -E <= u /\ u <= E /\ -E <= v /\ v <= E
  OBVIOUS
<1>2. X * Y - B * S = (B * v + S * u) + u * v
  <2>1. X = B + u /\ Y = S + v
    OBVIOUS
  <2>2. (B + u) * (S + v) = ((B * S + B * v) + u * S) + u * v
    BY <1>1
  <2> HIDE DEF u, v
  <2>3. u * S = S * u /\ B * S \in Int /\ B * v \in Int /\ S * u \in Int /\ u * v \in Int
    BY <1>1
  <2> QED
    BY <2>1, <2>2, <2>3
<1>3. ASSUME NEW a \in Int, NEW x \in Int, -E <= x, x <= E
      PROVE  -(Abs(a) * E) <= a * x /\ a * x <= Abs(a) * E /\ Abs(a) * E \in Int
  <2>1. CASE a >= 0
    <3>1. Abs(a) = a
      BY <2>1 DEF Abs
    <3>2. a * (E - x) >= 0 /\ a * (E + x) >= 0
      BY <1>3, <2>1
    <3>3. a * (E - x) = a * E - a * x /\ a * (E + x) = a * E + a * x /\ a * E \in Int /\ a * x \in Int
      OBVIOUS
    <3> QED
      BY <3>1, <3>2, <3>3
  <2>2. CASE a < 0
    <3> DEFINE c == -a
    <3>1. Abs(a) = c /\ c \in Int /\ c >= 0
      BY <2>2 DEF Abs
    <3>2. a * x = -(c * x)
      OBVIOUS
    <3> HIDE DEF c
    <3>3. c * (E - x) >= 0 /\ c * (E + x) >= 0
      BY <1>3, <3>1
    <3>4. c * (E - x) = c * E - c * x /\ c * (E + x) = c * E + c * x /\ c * E \in Int /\ c * x \in Int
      BY <3>1
    <3> QED
      BY <3>1, <3>2, <3>3, <3>4
  <2> QED
    BY <2>1, <2>2
<1> HIDE DEF u, v
<1>4. -(Abs(B) * E) <= B * v /\ B * v <= Abs(B) * E /\ Abs(B) * E \in Int
  BY <1>1, <1>3
<1>5. -(Abs(S) * E) <= S * u /\ S * u <= Abs(S) * E /\ Abs(S) * E \in Int
  BY <1>1, <1>3
<1>6. -(E * E) <= u * v /\ u * v <= E * E /\ E * E \in Int
  <2>1. -(Abs(u) * E) <= u * v /\ u * v <= Abs(u) * E
    BY <1>1, <1>3
  <2>2. Abs(u) \in Nat /\ Abs(u) <= E
    BY <1>1 DEF Abs
  <2>3. Abs(u) * E <= E * E
    BY <2>2
  <2> QED
    BY <1>1, <2>1, <2>2, <2>3
<1>7. ((Abs(B) + Abs(S)) + E) * E = (Abs(B) * E + Abs(S) * E) + E * E
  <2>1. Abs(B) \in Int /\ Abs(S) \in Int
    BY DEF Abs
  <2> QED
    BY <2>1
<1>8. B * v \in Int /\ S * u \in Int /\ u * v \in Int /\ X * Y \in Int /\ B * S \in Int
  BY <1>1
<1> QED
  BY <1>2, <1>4, <1>5, <1>6, <1>7, <1>8

(* The salary part as it was computed, and as it is of the stored columns. *)
LEMMA SalaryNear ==
  ASSUME NEW s \in SalaryFields
  PROVE  LET k == SalaryKpi(s)
             l == SalaryKpi(StoredSalary(s))
             q == SalarySlack(StoredSalary(s))
         IN  /\ k \in Decimal /\ l \in Decimal /\ q \in Decimal
             /\ Leq(Minus(k, l), q) /\ Leq(Minus(l, k), q)
<1> DEFINE b == s.base
           c == s.share
<1>1. b \in Decimal /\ c \in Decimal
  BY DEF SalaryFields
<1>2. /\ 100 \in Positive /\ 200 \in Positive /\ 20000 \in Positive
      /\ \A x, y \in Positive : x * y \in Positive
  BY DEF Positive
<1> HIDE DEF b, c
<1>3. PICK e1 \in Positive, X1 \in Int : Is(b, X1, 200 * e1)
  BY <1>1, <1>2, PartsFor
<1>4. 200 * e1 \in Positive
  BY <1>2
<1>5. PICK e2 \in Positive, Y \in Int : Is(c, Y, (200 * e1) * e2)
  BY <1>1, <1>4, PartsFor
<1> DEFINE E == e1 * e2
           D == 200 * E
           X == X1 * e2
           F == D * (100 * D)
<1>6. /\ E \in Positive /\ E \in Nat /\ E # 0 /\ D \in Positive /\ 100 * D \in Positive /\ F \in Positive
      /\ D = (200 * e1) * e2 /\ 100 * D = 20000 * E /\ 20000 * E \in Positive
  <2>1. e1 \in Int /\ e2 \in Int /\ E \in Positive
    BY <1>2 DEF Positive
  <2>2. 200 * (e1 * e2) = (200 * e1) * e2 /\ 100 * (200 * (e1 * e2)) = 20000 * (e1 * e2)
    BY <2>1
  <2>3. E \in Nat /\ E # 0
    BY <2>1 DEF Positive
  <2> QED
    BY <1>2, <2>1, <2>2, <2>3
<1>7. Is(b, X, D) /\ X \in Int /\ Is(c, Y, D)
  BY <1>1, <1>3, <1>4, <1>5, <1>6, FinerParts
<1>8. D = 200 * E
  OBVIOUS
<1> HIDE DEF X, D, E, F
<1>9. PICK B \in Int : Is(Store(b), B, D) /\ -E <= B - X /\ B - X <= E
  <2>1. E \in Positive /\ b \in Decimal /\ X \in Int /\ Is(b, X, 200 * E)
    BY <1>1, <1>6, <1>7, <1>8
  <2>2. \E z \in Int : Is(Store(b), z, 200 * E) /\ -E <= z - X /\ z - X <= E
    BY <2>1, StoreNear
  <2> QED
    BY <1>8, <2>2
<1>10. PICK S \in Int : Is(Store(c), S, D) /\ -E <= S - Y /\ S - Y <= E
  <2>1. E \in Positive /\ c \in Decimal /\ Y \in Int /\ Is(c, Y, 200 * E)
    BY <1>1, <1>6, <1>7, <1>8
  <2>2. \E z \in Int : Is(Store(c), z, 200 * E) /\ -E <= z - Y /\ z - Y <= E
    BY <2>1, StoreNear
  <2> QED
    BY <1>8, <2>2
<1>11. Store(b) \in Decimal /\ Store(c) \in Decimal
  BY <1>1, StoredAmount
<1> DEFINE k == SalaryKpi(s)
           l == SalaryKpi(StoredSalary(s))
           q == SalarySlack(StoredSalary(s))
           most == ((Abs(B) + Abs(S)) + E) * E
<1>12. k = Times(b, Divided(c, Whole(100))) /\ l = Times(Store(b), Divided(Store(c), Whole(100)))
  BY DEF SalaryKpi, StoredSalary, b, c
<1>13. k \in Decimal /\ Is(k, X * Y, F)
  <2>1. Divided(c, Whole(100)) \in Decimal /\ Is(Divided(c, Whole(100)), Y, 100 * D)
    BY <1>1, <1>6, <1>7, PartsOfHundredth
  <2> HIDE DEF k
  <2> QED
    BY <1>1, <1>6, <1>7, <1>12, <2>1, PartsOfProduct, Closed DEF F
<1>14. l \in Decimal /\ Is(l, B * S, F)
  <2>1. Divided(Store(c), Whole(100)) \in Decimal /\ Is(Divided(Store(c), Whole(100)), S, 100 * D)
    BY <1>6, <1>10, <1>11, PartsOfHundredth
  <2> HIDE DEF l
  <2> QED
    BY <1>6, <1>9, <1>11, <1>12, <2>1, PartsOfProduct, Closed DEF F
<1>15. ASSUME NEW x \in Decimal, NEW a \in Int, Is(x, a, D)
       PROVE  Magnitude(x) \in Decimal /\ Is(Magnitude(x), Abs(a), D)
  <2>1. x[1] \in Int /\ x[2] \in Nat /\ x[2] # 0 /\ x = <<x[1], x[2]>> /\ Gcd[<<Abs(x[1]), x[2]>>] = 1
    BY DEF Decimal
  <2>2. Magnitude(x)[1] = Abs(x[1]) /\ Magnitude(x)[2] = x[2] /\ Magnitude(x) = <<Abs(x[1]), x[2]>>
    BY DEF Magnitude
  <2>3. Abs(x[1]) \in Int /\ Abs(Abs(x[1])) = Abs(x[1])
    BY <2>1 DEF Abs
  <2>4. Magnitude(x) \in Decimal
    BY <2>1, <2>2, <2>3 DEF Decimal
  <2>5. x[1] * D = a * x[2] /\ D \in Nat /\ D # 0
    BY <1>6, <1>15 DEF Is, Positive
  <2>6. Abs(x[1]) * D = Abs(a) * x[2]
    <3>1. \A m \in Int, d \in Nat : Abs(m) * d = Abs(m * d)
      <4> SUFFICES ASSUME NEW m \in Int, NEW d \in Nat PROVE Abs(m) * d = Abs(m * d)
        OBVIOUS
      <4>1. CASE m >= 0
        <5>1. m * d >= 0 /\ m * d \in Int
          BY <4>1
        <5> QED
          BY <4>1, <5>1 DEF Abs
      <4>2. CASE m < 0
        <5>1. (-m) * d >= 0 /\ (-m) * d = -(m * d) /\ m * d \in Int
          BY <4>2
        <5> QED
          BY <4>2, <5>1 DEF Abs
      <4> QED
        BY <4>1, <4>2
    <3> QED
      BY <2>1, <2>5, <3>1
  <2> QED
    BY <2>2, <2>4, <2>6 DEF Is
<1>16. q \in Decimal /\ Is(q, most, F)
  <2> DEFINE v == Plus(Magnitude(Store(b)), Magnitude(Store(c)))
             h == Frac(1, 200)
             z == Frac(1, 20000)
  <2>1. /\ Magnitude(Store(b)) \in Decimal /\ Is(Magnitude(Store(b)), Abs(B), D)
        /\ Magnitude(Store(c)) \in Decimal /\ Is(Magnitude(Store(c)), Abs(S), D)
    BY <1>9, <1>10, <1>11, <1>15
  <2>2. Abs(B) \in Int /\ Abs(S) \in Int /\ Abs(B) + Abs(S) \in Int /\ (Abs(B) + Abs(S)) + E \in Int
    BY <1>6 DEF Abs
  <2>3. v \in Decimal /\ Is(v, Abs(B) + Abs(S), D)
    BY <1>6, <2>1, <2>2, PartsOf, Closed
  <2>4. h \in Decimal /\ Is(h, E, D)
    <3>1. h \in Decimal /\ Is(h, 1 * E, 200 * E)
      <4>1. 1 \in Int /\ 200 \in Positive /\ E \in Positive
        BY <1>2, <1>6
      <4> HIDE DEF h
      <4> QED
        BY <4>1, PartsOfFraction DEF h
    <3> QED
      BY <1>6, <1>8, <3>1
  <2>5. z \in Decimal /\ Is(z, E, 100 * D)
    <3>1. z \in Decimal /\ Is(z, 1 * E, 20000 * E)
      <4>1. 1 \in Int /\ 20000 \in Positive /\ E \in Positive
        BY <1>2, <1>6
      <4> QED
        BY <4>1, PartsOfFraction
    <3> QED
      BY <1>6, <3>1
  <2>6. q = Times(Plus(v, h), z)
    BY DEF SalarySlack, StoredSalary, b, c
  <2> HIDE DEF v, h, z, q
  <2>7. Plus(v, h) \in Decimal /\ Is(Plus(v, h), (Abs(B) + Abs(S)) + E, D)
    BY <1>6, <2>2, <2>3, <2>4, PartsOf, Closed
  <2>8. (Abs(B) + Abs(S)) + E \in Int /\ E \in Int /\ D \in Positive /\ 100 * D \in Positive
    BY <1>6, <2>2
  <2>9. Is(q, ((Abs(B) + Abs(S)) + E) * E, D * (100 * D))
    BY <2>5, <2>6, <2>7, <2>8, PartsOfProduct
  <2> QED
    BY <2>5, <2>6, <2>7, <2>9, Closed DEF F
<1>17. X * Y - B * S <= most /\ B * S - X * Y <= most
  <2>1. X \in Int /\ Y \in Int /\ B \in Int /\ S \in Int /\ E \in Nat
    BY <1>6, <1>7
  <2> QED
    BY <1>9, <1>10, <2>1, ProductNear
<1>18. X * Y \in Int /\ B * S \in Int /\ most \in Int
  <2>1. Abs(B) \in Int /\ Abs(S) \in Int
    BY DEF Abs
  <2> QED
    BY <1>6, <1>7, <2>1
<1> HIDE DEF k, l, q, most
<1>19. Leq(Minus(k, l), q) /\ Leq(Minus(l, k), q)
  <2> DEFINE y == X * Y
             a == B * S
  <2>1. y \in Int /\ a \in Int /\ most \in Int /\ y - a <= most /\ a - y <= most
        /\ Is(k, y, F) /\ Is(l, a, F)
    BY <1>13, <1>14, <1>17, <1>18
  <2> HIDE DEF y, a
  <2>2. Is(Minus(k, l), y - a, F) /\ Is(Minus(l, k), a - y, F)
    BY <1>6, <1>13, <1>14, <2>1, PartsOf
  <2>3. Minus(k, l) \in Decimal /\ Minus(l, k) \in Decimal /\ y - a \in Int /\ a - y \in Int
    BY <1>13, <1>14, <2>1, Closed
  <2> QED
    BY <1>6, <1>16, <2>1, <2>2, <2>3, PartsOf
<1> QED
  BY <1>13, <1>14, <1>16, <1>19 DEF k, l, q

-----------------------------------------------------------------------------
(* What the weights of a template add up to, and the shares of metrics.    *)

(* The check of the weights: weights that are not too heavy are at most    *)
(* 100.005 together, for their sum is rounded half to even.                *)
LEMMA NotTooHeavy ==
  ASSUME NEW x \in Decimal,
         Leq(Divided(Rounded(Times(Whole(100), x)), Whole(100)), Whole(100))
  PROVE  Leq(x, Frac(20001, 200))
<1> DEFINE y == Times(Whole(100), x)
           floor == y[1] \div y[2]
           twice == 2 * (y[1] - floor * y[2])
           R == IF twice > y[2] \/ (twice = y[2] /\ floor % 2 = 1) THEN floor + 1 ELSE floor
<1>1. Whole(100) \in Decimal /\ y \in Decimal
  BY WholeOf, Closed
<1>2. Rounded(y) = Whole(R)
  BY DEF Rounded
<1>3. y[1] \in Int /\ y[2] \in Nat /\ y[2] # 0 /\ x[1] \in Int /\ x[2] \in Nat /\ x[2] # 0
  <2> HIDE DEF y
  <2> QED
    BY <1>1, DecimalOf
<1>4. floor \in Int /\ floor * y[2] <= y[1] /\ y[1] < floor * y[2] + y[2]
  <2> DEFINE a == y[1]  b == y[2]
  <2>1. a \in Int /\ b \in Nat /\ b # 0
    BY <1>3
  <2>2. floor = a \div b
    OBVIOUS
  <2> HIDE DEF floor, a, b
  <2>3. \A n \in Int : \A d \in Nat \ {0} :
           n \div d \in Int /\ d * (n \div d) <= n /\ n < d * (n \div d) + d
    OBVIOUS
  <2>4. b * (a \div b) <= a /\ a < b * (a \div b) + b /\ a \div b \in Int
    BY <2>1, <2>3
  <2>5. b * (a \div b) = (a \div b) * b
    BY <2>1, <2>4
  <2> QED
    BY <2>2, <2>4, <2>5 DEF a, b
<1> DEFINE a == y[1]  b == y[2]
<1>5. R \in Int /\ 2 * a <= (2 * R + 1) * b
  <2>1. a \in Int /\ b \in Nat /\ twice = 2 * (a - floor * b)
    BY <1>3
  <2>2. floor \in Int /\ floor * b <= a /\ a < floor * b + b
    BY <1>4
  <2>3. R = floor + 1 \/ (R = floor /\ twice <= b)
    <3>1. twice \in Int
      BY <2>1, <2>2
    <3> HIDE DEF twice, floor
    <3> QED
      BY <2>1, <3>1
  <2> HIDE DEF a, b, floor, R, twice
  <2>4. (2 * floor + 1) * b = 2 * (floor * b) + b /\ (2 * (floor + 1) + 1) * b = 2 * (floor * b) + 3 * b
        /\ floor * b \in Int
    BY <2>1, <2>2
  <2>5. CASE R = floor + 1
    BY <2>1, <2>2, <2>4, <2>5
  <2>6. CASE R = floor /\ twice <= b
    BY <2>1, <2>2, <2>4, <2>6
  <2> QED
    BY <2>3, <2>5, <2>6
<1> HIDE DEF R, floor, twice
<1>6. R <= 10000
  <2>1. Whole(R) \in Decimal /\ 1 \in Positive /\ Is(Whole(R), R, 1) /\ Is(Whole(100), 100, 1)
    BY <1>5, WholeOf DEF Is, Whole, Positive
  <2>2. Is(Divided(Whole(R), Whole(100)), R, 100 * 1) /\ Divided(Whole(R), Whole(100)) \in Decimal
    BY <1>5, <2>1, PartsOfHundredth
  <2>3. Is(Whole(100), 100 * 100, 1 * 100) /\ 100 \in Positive
    BY DEF Is, Whole, Positive
  <2>4. Leq(Divided(Whole(R), Whole(100)), Whole(100))
    BY <1>2
  <2>5. 100 * 1 = 100 /\ 1 * 100 = 100 /\ 100 * 100 = 10000
    OBVIOUS
  <2>6. Is(Divided(Whole(R), Whole(100)), R, 100) /\ Is(Whole(100), 10000, 100) /\ 10000 \in Int
    BY <2>2, <2>3, <2>5
  <2> QED
    BY <1>1, <1>5, <2>2, <2>3, <2>4, <2>6, PartsOf
<1>7. 2 * a <= 20001 * b
  <2>1. 2 * R + 1 <= 20001 /\ 2 * R + 1 \in Int /\ a \in Int /\ b \in Nat /\ b \in Positive
    BY <1>3, <1>5, <1>6 DEF Positive
  <2>2. (2 * R + 1) * b <= 20001 * b /\ (2 * R + 1) * b \in Int /\ 20001 * b \in Int
    BY <2>1, Ordered
  <2> HIDE DEF a, b
  <2> QED
    BY <1>5, <2>1, <2>2
<1>8. a * x[2] = (100 * x[1]) * b
  <2>1. y = Frac(100 * x[1], 1 * x[2])
    BY DEF Times, Whole
  <2>2. 100 * x[1] \in Int /\ 1 * x[2] \in Int /\ 1 * x[2] # 0 /\ 1 * x[2] = x[2]
    BY <1>3
  <2> HIDE DEF y
  <2>3. y[1] * (1 * x[2]) = (100 * x[1]) * y[2]
    BY <2>1, <2>2, FracOf
  <2> QED
    BY <2>2, <2>3
<1>9. 200 * x[1] <= 20001 * x[2]
  <2> DEFINE u == x[1]  v == x[2]
  <2>1. u \in Int /\ v \in Nat /\ v # 0 /\ a \in Int /\ b \in Nat /\ b # 0 /\ v \in Positive /\ b \in Positive
        /\ a * v = (100 * u) * b
    BY <1>3, <1>8 DEF Positive
  <2> HIDE DEF u, v, a, b
  <2>2. (2 * a) * v <= (20001 * b) * v
    <3>1. 2 * a \in Int /\ 20001 * b \in Int
      BY <2>1
    <3> QED
      BY <1>7, <2>1, <3>1, Ordered
  <2>3. (2 * a) * v = (200 * u) * b /\ (20001 * b) * v = (20001 * v) * b
    <3>1. (2 * a) * v = 2 * (a * v) /\ 2 * ((100 * u) * b) = (200 * u) * b
      BY <2>1
    <3> QED
      BY <2>1, <3>1
  <2>4. 200 * u \in Int /\ 20001 * v \in Int
    BY <2>1
  <2>5. 200 * u <= 20001 * v
    BY <2>1, <2>2, <2>3, <2>4, Ordered
  <2> QED
    BY <2>5 DEF u, v
<1>10. QED
  <2> DEFINE z == Frac(20001, 200)
             f1 == z[1]
             f2 == z[2]
             u == x[1]
             v == x[2]
  <2>1. z \in Decimal /\ f1 * 200 = 20001 * f2
    BY FracOf
  <2>2. f1 \in Int /\ f2 \in Positive /\ f2 \in Nat /\ u \in Int /\ v \in Nat
    <3> HIDE DEF z
    <3> QED
      BY <1>3, <2>1, DecimalOf
  <2>3. 200 * u <= 20001 * v
    BY <1>9
  <2> HIDE DEF z, f1, f2, u, v
  <2>4. (200 * u) * f2 <= (20001 * v) * f2
    <3>1. 200 * u \in Int /\ 20001 * v \in Int
      BY <2>2
    <3> QED
      BY <2>2, <2>3, <3>1, Ordered
  <2>5. (200 * u) * f2 = 200 * (u * f2) /\ (20001 * v) * f2 = (20001 * f2) * v
        /\ (f1 * 200) * v = 200 * (f1 * v)
    BY <2>2
  <2>6. 200 * (u * f2) <= 200 * (f1 * v)
    BY <2>1, <2>4, <2>5
  <2>7. u * f2 <= f1 * v
    <3>1. u * f2 \in Int /\ f1 * v \in Int
      BY <2>2
    <3> QED
      BY <2>6, <3>1
  <2> QED
    BY <2>7 DEF Leq, f1, f2, u, v, z

(* The weight x is a of D parts, its share y in m is m * b of F, and b     *)
(* exceeds a by no more than e.                                            *)
NearShare(x, y, m, D, F, e) == \E a, b \in Int : Is(x, a, D) /\ Is(y, m * b, F) /\ b - a <= e

(* The share of a metric in the maximum amount is that of its stored       *)
(* weight, which may be half a hundredth more than the weight it was       *)
(* posted with.                                                            *)
LEMMA ShareNear ==
  ASSUME NEW x \in Decimal, NEW a \in Int, NEW E \in Positive, Is(x, a, 200 * E),
         NEW M \in Decimal, NEW P \in Positive, NEW m \in Int, Is(M, m, P)
  PROVE  NearShare(x, Times(M, Divided(Store(x), Whole(100))), m, 200 * E, P * (20000 * E), E)
<1> DEFINE D == 200 * E
           H == 100 * D
           s == Divided(Store(x), Whole(100))
<1>1. D \in Positive /\ H \in Positive /\ H = 20000 * E
  BY DEF Positive
<1>2. PICK b \in Int : Is(Store(x), b, D) /\ b - a <= E
  BY StoreNear
<1> HIDE DEF D
<1>3. s \in Decimal /\ Is(s, b, H)
  BY <1>1, <1>2, StoredAmount, PartsOfHundredth
<1> HIDE DEF H, s
<1>4. Is(Times(M, s), m * b, P * H)
  BY <1>1, <1>3, PartsOfProduct
<1>5. Is(Times(M, s), m * b, P * (20000 * E))
  BY <1>1, <1>4
<1> QED
  BY <1>2, <1>5 DEF NearShare, s, D

(* The same for all metrics together.                                      *)
LEMMA SharesNear ==
  ASSUME NEW N \in Nat, NEW p \in [1 .. N -> Decimal], NEW v \in [1 .. N -> Decimal],
         NEW D \in Positive, NEW F \in Positive, NEW E \in Positive, NEW m \in Int,
         \A j \in 1 .. N : NearShare(p[j], v[j], m, D, F, E)
  PROVE  NearShare(Total(p), Total(v), m, D, F, N * E)
<1>0. E \in Nat
  BY DEF Positive
<1>1. p \in Seq(Decimal) /\ v \in Seq(Decimal) /\ Len(p) = N /\ Len(v) = N
  OBVIOUS
<1>2. PICK R : PartialSums(R, p) /\ Total(p) = R[N]
  BY <1>1, TotalOf
<1>3. PICK V : PartialSums(V, v) /\ Total(v) = V[N]
  BY <1>1, TotalOf
<1> DEFINE Near(k) == NearShare(R[k], V[k], m, D, F, k * E)
           T == {k \in Nat : k <= N => Near(k)}
<1>4. 0 \in T
  <2>1. R[0] = Zero /\ V[0] = Zero
    BY <1>2, <1>3 DEF PartialSums
  <2>2. Is(Zero, 0, D) /\ Is(Zero, m * 0, F)
    BY DEF Is, Zero, Whole, Positive
  <2>3. 0 - 0 <= 0 * E /\ 0 \in Int
    BY <1>0
  <2> QED
    BY <2>1, <2>2, <2>3, Zenon DEF NearShare
<1>5. ASSUME NEW k \in T PROVE k + 1 \in T
  <2>1. SUFFICES ASSUME k + 1 <= N PROVE Near(k + 1)
    OBVIOUS
  <2> DEFINE l == k + 1
  <2>2. l \in 1 .. N /\ k \in 0 .. N /\ l - 1 = k /\ k \in Nat
    BY <2>1
  <2>3. PICK A \in Int, B \in Int : Is(R[k], A, D) /\ Is(V[k], m * B, F) /\ B - A <= k * E
    BY <2>2 DEF NearShare
  <2> HIDE DEF l, T, Near
  <2>4. PICK a \in Int, b \in Int : Is(p[l], a, D) /\ Is(v[l], m * b, F) /\ b - a <= E
    BY <2>2 DEF NearShare
  <2>5. p[l] \in Decimal /\ v[l] \in Decimal
    BY <2>2
  <2>6. /\ R[k] \in Decimal /\ V[k] \in Decimal
        /\ R[l] = Plus(R[k], p[l]) /\ V[l] = Plus(V[k], v[l])
    BY <1>1, <1>2, <1>3, <2>2 DEF PartialSums
  <2>7. Is(R[l], A + a, D)
    <3>1. R[k] \in Decimal /\ p[l] \in Decimal /\ Is(R[k], A, D) /\ Is(p[l], a, D)
      BY <2>3, <2>4, <2>5, <2>6
    <3>2. Is(Plus(R[k], p[l]), A + a, D)
      BY <3>1, PartsOf
    <3> QED
      BY <2>6, <3>2
  <2>8. Is(V[l], m * (B + b), F)
    <3> DEFINE c == m * B
               d == m * b
    <3>1. c \in Int /\ d \in Int /\ Is(V[k], c, F) /\ Is(v[l], d, F) /\ c + d = m * (B + b)
      BY <2>3, <2>4
    <3> HIDE DEF c, d
    <3>2. Is(V[l], c + d, F)
      BY <2>5, <2>6, <3>1, PartsOf
    <3> QED
      BY <3>1, <3>2
  <2>9. (B + b) - (A + a) <= l * E
    <3> DEFINE z == k * E
               y == l * E
    <3>1. y = z + E /\ z \in Int /\ B - A <= z
      BY <1>0, <2>2, <2>3 DEF l
    <3> HIDE DEF z, y
    <3>2. (B + b) - (A + a) <= y
      BY <1>0, <2>4, <3>1
    <3> QED
      BY <3>2 DEF y
  <2>10. A + a \in Int /\ B + b \in Int
    OBVIOUS
  <2>11. Near(l)
    BY <2>7, <2>8, <2>9, <2>10, Zenon DEF Near, NearShare
  <2> QED
    BY <2>11 DEF l
<1>6. T = Nat
  <2>1. T \subseteq Nat
    OBVIOUS
  <2> HIDE DEF T
  <2> QED
    BY <1>4, <1>5, <2>1, NumbersFromZero
<1>7. N \in T
  <2> HIDE DEF T
  <2> QED
    BY <1>6
<1>8. Near(N)
  BY <1>7
<1> HIDE DEF T
<1> QED
  BY <1>2, <1>3, <1>8

(* The weights p are at most 100.005 together, and v are their shares in   *)
(* the maximum amount M.                                                   *)
Weighed(p) == Leq(Total(p), Frac(20001, 200))

Shares(v, p, M) == \A j \in DOMAIN p : v[j] = Times(M, Divided(Store(p[j]), Whole(100)))

(* The shares of metrics whose weights passed the check.                   *)
LEMMA MetricsShare ==
  ASSUME NEW N \in Nat, NEW p \in [1 .. N -> Decimal], NEW v \in [1 .. N -> Decimal],
         NEW M \in Decimal, Leq(Zero, M), Weighed(p), Shares(v, p, M)
  PROVE  Leq(Total(v), Plus(M, Times(M, Frac(1 + N, 20000))))
<1>0. 1 \in Positive /\ 200 \in Positive /\ 20000 \in Positive /\ 1 + N \in Int
  BY DEF Positive
<1>1. PICK E \in Positive : \A j \in 1 .. N : \E a \in Int : Is(p[j], a, 200 * E)
  BY CommonCents
<1>2. PICK P \in Positive, m \in Int : Is(M, m, P)
  <2>1. PICK k \in Positive, m \in Int : Is(M, m, 1 * k)
    BY <1>0, PartsFor
  <2>2. 1 * k = k
    BY DEF Positive
  <2> QED
    BY <2>1, <2>2
<1>3. m >= 0
  <2>1. Zero \in Decimal /\ Is(Zero, 0, P)
    BY WholeOf DEF Is, Zero, Whole, Positive
  <2>2. 0 <= m
    BY <1>2, <2>1, PartsOf
  <2> QED
    BY <2>2
<1> DEFINE F == P * (20000 * E)
           D == 200 * E
<1>4. D \in Positive /\ F \in Positive /\ 20000 * E \in Positive /\ E \in Nat /\ E # 0
  BY DEF Positive
<1>5. PICK A \in Int, B \in Int : Is(Total(p), A, D) /\ Is(Total(v), m * B, F) /\ B - A <= N * E
  <2>1. ASSUME NEW j \in 1 .. N PROVE NearShare(p[j], v[j], m, D, F, E)
    <3> DEFINE x == p[j]
    <3>1. PICK a \in Int : Is(x, a, 200 * E)
      BY <1>1
    <3>2. x \in Decimal /\ v[j] = Times(M, Divided(Store(x), Whole(100)))
      BY DEF Shares
    <3> HIDE DEF x
    <3>3. NearShare(x, Times(M, Divided(Store(x), Whole(100))), m, D, F, E)
      BY <1>2, <3>1, <3>2, ShareNear
    <3> QED
      BY <3>2, <3>3 DEF x
  <2> HIDE DEF D, F
  <2>2. NearShare(Total(p), Total(v), m, D, F, N * E)
    BY <1>4, <2>1, SharesNear
  <2> QED
    BY <2>2, Zenon DEF NearShare
<1>6. Total(p) \in Decimal /\ Total(v) \in Decimal
  BY TotalClosed
<1>7. A <= 20001 * E /\ 20001 * E \in Int
  <2>1. Frac(20001, 200) \in Decimal /\ Is(Frac(20001, 200), 20001 * E, D)
    BY <1>0, PartsOfFraction
  <2>2. 20001 * E \in Int
    BY <1>4
  <2> QED
    BY <1>4, <1>5, <1>6, <2>1, <2>2, PartsOf DEF Weighed
<1> DEFINE f == Frac(1 + N, 20000)
           g == (1 + N) * E
           h == 20000 * E
<1>8. f \in Decimal /\ Is(f, g, h) /\ g \in Int /\ h \in Int /\ h \in Positive
  <2>1. g \in Int
    BY <1>4
  <2>2. f \in Decimal /\ Is(f, g, h)
    BY <1>0, PartsOfFraction
  <2> QED
    BY <1>4, <2>1, <2>2
<1>9. F = P * h
  OBVIOUS
<1>10. B <= h + g
  <2>1. N * E \in Int /\ g = E + N * E
    BY <1>4
  <2> DEFINE z == N * E
  <2>2. z \in Int /\ g = E + z /\ B - A <= z
    BY <1>5, <2>1
  <2> HIDE DEF z, g
  <2> QED
    BY <1>4, <1>7, <2>2
<1> HIDE DEF D, F, f, g, h
<1>11. Is(Times(M, f), m * g, F) /\ Times(M, f) \in Decimal
  BY <1>2, <1>8, <1>9, PartsOfProduct, Closed
<1>12. Is(M, m * h, F) /\ m * h \in Int /\ m * g \in Int
  BY <1>2, <1>8, <1>9, FinerParts
<1>13. Is(Plus(M, Times(M, f)), m * (h + g), F) /\ Plus(M, Times(M, f)) \in Decimal
  <2>1. m * h + m * g = m * (h + g)
    BY <1>8
  <2> DEFINE c == m * h
             d == m * g
  <2>2. c \in Int /\ d \in Int /\ Is(M, c, F) /\ Is(Times(M, f), d, F)
    BY <1>11, <1>12
  <2> HIDE DEF c, d
  <2>3. Is(Plus(M, Times(M, f)), c + d, F)
    BY <1>4, <1>11, <2>2, PartsOf
  <2> QED
    BY <1>11, <2>1, <2>3, Closed DEF c, d
<1>14. m * B <= m * (h + g) /\ m * B \in Int /\ m * (h + g) \in Int
  <2> DEFINE c == h + g
  <2>1. c \in Int /\ B <= c
    BY <1>8, <1>10
  <2> HIDE DEF c
  <2>2. m \in Nat
    BY <1>3
  <2>3. m * B <= m * c /\ m * B \in Int /\ m * c \in Int
    BY <2>1, <2>2, Multiples
  <2> QED
    BY <2>3 DEF c
<1>15. Leq(Total(v), Plus(M, Times(M, f)))
  <2> DEFINE c == m * B
             d == m * (h + g)
  <2>1. c \in Int /\ d \in Int /\ c <= d /\ Is(Total(v), c, F) /\ Is(Plus(M, Times(M, f)), d, F)
    BY <1>5, <1>13, <1>14
  <2> HIDE DEF c, d
  <2> QED
    BY <1>4, <1>6, <1>13, <2>1, PartsOf
<1> QED
  BY <1>15 DEF f

(* The share of a weight that is not negative is not negative.             *)
LEMMA ShareSign ==
  ASSUME NEW M \in Decimal, NEW w \in Decimal, Leq(Zero, M), Leq(Zero, w)
  PROVE  LET s == Times(M, Divided(w, Whole(100))) IN s \in Decimal /\ Leq(Zero, s)
<1> DEFINE s == Divided(w, Whole(100))
<1>1. PICK P \in Positive, a \in Int, y \in Int : Is(M, a, P) /\ Is(Zero, y, P)
  BY WithZero, PartsOfTwo
<1>2. PICK Q \in Positive, b \in Int, z \in Int : Is(w, b, Q) /\ Is(Zero, z, Q)
  BY WithZero, PartsOfTwo
<1>3. Is(Zero, 0, P) /\ Is(Zero, 0, Q) /\ \A D \in Positive : Is(Zero, 0, D)
  BY DEF Is, Zero, Whole, Positive
<1>4. a \in Nat /\ b \in Nat
  <2>1. 0 <= a /\ 0 <= b
    BY <1>1, <1>2, <1>3, WithZero, PartsOf
  <2> QED
    BY <2>1
<1>5. s \in Decimal /\ Is(s, b, 100 * Q)
  BY <1>2, PartsOfHundredth
<1> DEFINE H == 100 * Q
           F == P * H
<1>6. H \in Positive /\ F \in Positive
  BY DEF Positive
<1> HIDE DEF s
<1>7. Is(Times(M, s), a * b, F) /\ Times(M, s) \in Decimal
  <2>1. Is(s, b, H)
    BY <1>5
  <2> HIDE DEF H
  <2> QED
    BY <1>1, <1>5, <1>6, <2>1, PartsOfProduct, Closed
<1> HIDE DEF F
<1>8. 0 <= a * b /\ a * b \in Int
  BY <1>4
<1> DEFINE c == a * b
<1>9. c \in Int /\ 0 <= c /\ Is(Times(M, s), c, F) /\ Is(Zero, 0, F)
  BY <1>3, <1>6, <1>7, <1>8
<1> HIDE DEF c
<1>10. Leq(Zero, Times(M, s))
  BY <1>6, <1>7, <1>9, WithZero, PartsOf
<1> QED
  BY <1>7, <1>10 DEF s

-----------------------------------------------------------------------------
(* The handlers.                                                           *)

(* The salary fields of an instance.                                       *)
(* What is posted for a metric, and what is stored of it.                  *)
LEMMA MetricsPosted ==
  ASSUME NEW metrics \in Seq(PostedMetric)
  PROVE  /\ Len(metrics) \in Nat /\ DOMAIN metrics = 1 .. Len(metrics)
         /\ \A i \in DOMAIN metrics :
              /\ metrics[i].formula \in Formula
              /\ metrics[i].weight \in Decimal /\ metrics[i].plan \in Decimal
              /\ StoredMetric(metrics[i]).weight \in Decimal
              /\ StoredMetric(metrics[i]).plan \in Decimal
              /\ HasPlaces(StoredMetric(metrics[i]).weight, 100)
              /\ HasPlaces(StoredMetric(metrics[i]).plan, 10000)
<1>1. 100 \in Positive /\ 10000 \in Positive
  BY DEF Positive
<1>2. ASSUME NEW m \in PostedMetric
      PROVE  /\ m.formula \in Formula
             /\ m.weight \in Decimal /\ m.plan \in Decimal
             /\ StoredMetric(m).weight \in Decimal /\ HasPlaces(StoredMetric(m).weight, 100)
             /\ StoredMetric(m).plan \in Decimal /\ HasPlaces(StoredMetric(m).plan, 10000)
  <2>1. m.formula \in Formula /\ m.weight \in Decimal /\ m.plan \in Decimal
    BY DEF PostedMetric
  <2>2. StoredMetric(m).weight = ToPlaces(m.weight, 100)
        /\ StoredMetric(m).plan = ToPlaces(m.plan, 10000)
    BY DEF StoredMetric, Store
  <2> QED
    BY <1>1, <2>1, <2>2, PlacesOf DEF HasPlaces
<1>3. Len(metrics) \in Nat /\ DOMAIN metrics = 1 .. Len(metrics)
  OBVIOUS
<1>4. \A i \in DOMAIN metrics : metrics[i] \in PostedMetric
  OBVIOUS
<1> QED
  BY <1>2, <1>3, <1>4

(* Trial and calculation know the same five symbols, decimals all.         *)
LEMMA ContextOf ==
  ASSUME NEW m, NEW fact
  PROVE  /\ DOMAIN Context(m, fact) = Symbols
         /\ template.maximum \in Decimal /\ m.weight \in Decimal /\ m.plan \in Decimal
              /\ fact \in Decimal =>
              \A s \in Symbols : Context(m, fact)[s] \in Decimal
<1>1. Whole(100) \in Decimal /\ Whole(100) # Zero
  BY WholeOf DEF Whole, Zero
<1>2. ASSUME template.maximum \in Decimal, m.weight \in Decimal PROVE MaxMetricAmount(m) \in Decimal
  BY <1>1, <1>2, Closed DEF MaxMetricAmount
<1> QED
  BY <1>2 DEF Context, Symbols

(* The amounts of a salary are decimals.                                   *)
LEMMA SalaryAmounts ==
  ASSUME NEW s \in SalaryFields
  PROVE  SalaryKpi(s) \in Decimal /\ OvertimeAmount(s) \in Decimal
<1>1. /\ Whole(100) \in Decimal /\ Whole(100) # Zero /\ Whole(160) \in Decimal /\ Whole(160) # Zero
      /\ Whole(2) \in Decimal
  BY WholeOf DEF Whole, Zero
<1>2. s.base \in Decimal /\ s.share \in Decimal /\ s.x1 \in Decimal /\ s.x2 \in Decimal
  BY DEF SalaryFields
<1> QED
  BY <1>1, <1>2, Closed DEF SalaryKpi, OvertimeAmount

(* What is stored of a sound metric is sound.                              *)
LEMMA StoredSound ==
  ASSUME NEW m \in PostedMetric, Leq(Zero, m.weight), ~ IsError(Validation(m.formula))
  PROVE  m \in Sound /\ StoredMetric(m) \in Sound
<1>1. /\ m.formula \in Formula /\ m.weight \in Decimal /\ m.plan \in Decimal
  BY DEF PostedMetric
<1>2. Store(m.weight) \in Decimal /\ Leq(Zero, Store(m.weight)) /\ ToPlaces(m.plan, 10000) \in Decimal
  <2>1. 10000 \in Positive
    BY DEF Positive
  <2> QED
    BY <1>1, <2>1, StoredAmount, StoredSign, PlacesOf
<1>3. /\ StoredMetric(m) \in PostedMetric /\ StoredMetric(m).formula = m.formula
      /\ StoredMetric(m).weight = Store(m.weight)
  BY <1>1, <1>2 DEF StoredMetric, PostedMetric
<1> QED
  BY <1>2, <1>3 DEF Sound

(* The metrics of a template that is accepted are sound, and are stored so.*)
LEMMA AcceptedSound ==
  ASSUME NEW metrics \in MetricInputs \cup OtherInputs, AllGood(Validations(metrics))
  PROVE  /\ metrics \in Seq(Sound) /\ StoredMetrics(metrics) \in Seq(Sound)
         /\ DOMAIN StoredMetrics(metrics) = DOMAIN metrics
<1>1. metrics \in Seq(PostedMetric) /\ Len(metrics) \in Nat /\ DOMAIN metrics = 1 .. Len(metrics)
  BY EngineAssumption
<1>2. \A x \in Decimal : ~ Leq(x, Zero) => Leq(Zero, x)
  <2>1. Zero \in Decimal
    BY WholeOf DEF Zero
  <2> QED
    BY <2>1, LeqOrders
<1>3. ASSUME NEW i \in DOMAIN metrics
      PROVE  metrics[i] \in Sound /\ StoredMetric(metrics[i]) \in Sound
  <2>1. metrics[i] \in PostedMetric /\ metrics[i].weight \in Decimal
    BY <1>1, MetricsPosted
  <2>2. Leq(Zero, metrics[i].weight)
    BY <1>2, <2>1, EngineAssumption
  <2>3. ~ IsError(Validation(metrics[i].formula))
    BY DEF AllGood, Validations
  <2> QED
    BY <2>1, <2>2, <2>3, StoredSound
<1>4. StoredMetrics(metrics) = [i \in 1 .. Len(metrics) |-> StoredMetric(metrics[i])]
  BY <1>1 DEF StoredMetrics
<1>5. metrics \in [1 .. Len(metrics) -> Sound] /\ StoredMetrics(metrics) \in [1 .. Len(metrics) -> Sound]
  BY <1>1, <1>3, <1>4
<1> QED
  BY <1>1, <1>4, <1>5

(* create_template, for another template.                                  *)
LEMMA CreateOtherStep ==
  ASSUME EngineInv, reply = "none", NEW metrics \in OtherInputs, CreateOther(metrics)
  PROVE  EngineInv'
<1>1. others' \in Seq(Sound)
  BY AcceptedSound DEF CreateOther
<1>2. UNCHANGED <<posted, submitted, template, instance, reply>>
  BY DEF CreateOther
<1>3. AcceptedIsNeverInvalid' /\ RegularFormulasPay'
  BY <1>2 DEF AcceptedIsNeverInvalid, RegularFormulasPay
<1> QED
  BY <1>1, <1>2, <1>3 DEF EngineInv

(* create_template: every formula is tried before anything is stored, and  *)
(* every metric and amount is stored with the places of its column.        *)
LEMMA CreateTemplateStep ==
  ASSUME EngineInv, reply = "none", NEW metrics \in MetricInputs, NEW maximum \in Maximum,
         CreateTemplate(metrics, maximum)
  PROVE  EngineInv'
<1> DEFINE tried == Validations(metrics)
<1>1. posted' = metrics /\ metrics \in Seq(PostedMetric)
  BY EngineAssumption DEF CreateTemplate
<1>2. /\ reply' \in {"too_heavy", "invalid_formula", "internal_error", "created"}
      /\ reply' = "created" =>
           /\ AllGood(tried) /\ ~ TooHeavy(metrics)
           /\ template'.metrics = StoredMetrics(metrics)
           /\ template'.maximum = Store(maximum)
      /\ AllGood(tried) => reply' \in {"too_heavy", "created"}
      /\ instance' = instance /\ others' = others
  <2> HIDE DEF tried
  <2> QED
    BY DEF CreateTemplate, tried
<1>3. (\A i \in DOMAIN metrics : Regular(metrics[i].formula)) => AllGood(tried)
  <2>1. ASSUME NEW i \in DOMAIN metrics, Regular(metrics[i].formula)
        PROVE  ~ IsError(Validation(metrics[i].formula))
    <3>1. Validation(metrics[i].formula).kind = "decimal"
      BY <1>1, <2>1, MetricsPosted, RegularYields DEF Validation
    <3> QED
      BY <3>1 DEF IsError
  <2> QED
    BY <2>1 DEF AllGood, Validations
<1>4. Validations(posted)' = tried /\ TooHeavy(posted)' = TooHeavy(metrics)
  BY <1>1 DEF Validations, TooHeavy
<1>5. \A x \in Decimal : ~ Leq(x, Zero) => Leq(Zero, x)
  <2>1. Zero \in Decimal
    BY WholeOf DEF Zero
  <2> QED
    BY <2>1, LeqOrders
<1>6. AllGood(tried) => metrics \in Seq(Sound)
  BY AcceptedSound
<1>7. Store(maximum) \in Decimal /\ Leq(Zero, Store(maximum))
  BY <1>5, EngineAssumption, StoredAmount, StoredSign
<1>8. instance' = NoInstance /\ others' \in Seq(Sound)
  BY <1>2 DEF EngineInv
<1> HIDE DEF tried
<1> QED
  BY <1>1, <1>2, <1>3, <1>4, <1>6, <1>7, <1>8 DEF EngineInv, AcceptedIsNeverInvalid, RegularFormulasPay

(* The metrics there are: those of the template first, as they were        *)
(* posted, and all of them sound.                                          *)
LEMMA TableOf ==
  ASSUME EngineInv, reply = "created"
  PROVE  LET N == Len(posted)
         IN  /\ posted \in Seq(Sound) /\ N \in Nat /\ DOMAIN posted = 1 .. N
             /\ DOMAIN template.metrics = 1 .. N /\ Len(template.metrics) = N
             /\ \A k \in 1 .. N :
                  /\ k \in DOMAIN TemplateMetrics
                  /\ TemplateMetrics[k] = template.metrics[k]
                  /\ template.metrics[k] = StoredMetric(posted[k])
             /\ \A k \in DOMAIN TemplateMetrics :
                  /\ TemplateMetrics[k] \in Sound
                  /\ \/ \E j \in DOMAIN posted : TemplateMetrics[k].formula = posted[j].formula
                     \/ \E j \in DOMAIN others : TemplateMetrics[k].formula = others[j].formula
<1> DEFINE N == Len(posted)
           T == template.metrics
<1>1. posted \in Seq(Sound) /\ others \in Seq(Sound) /\ T = StoredMetrics(posted)
  BY DEF EngineInv
<1>2. N \in Nat /\ DOMAIN posted = 1 .. N
  BY <1>1
<1>3. T = [k \in 1 .. N |-> StoredMetric(posted[k])]
  BY <1>1, <1>2 DEF StoredMetrics
<1>4. ASSUME NEW k \in 1 .. N
      PROVE  /\ T[k] = StoredMetric(posted[k]) /\ T[k] \in Sound
             /\ T[k].formula = posted[k].formula
  <2>1. posted[k] \in Sound /\ T[k] = StoredMetric(posted[k])
    BY <1>1, <1>2, <1>3
  <2>2. posted[k] \in PostedMetric /\ Leq(Zero, posted[k].weight) /\ ~ IsError(Validation(posted[k].formula))
    BY <2>1 DEF Sound
  <2> QED
    BY <2>1, <2>2, StoredSound DEF StoredMetric
<1>5. T \in [1 .. N -> Sound] /\ DOMAIN T = 1 .. N
  BY <1>3, <1>4
<1>6. T \in Seq(Sound) /\ Len(T) = N
  BY <1>2, <1>5
<1> HIDE DEF T, N
<1>7. /\ TemplateMetrics = T \o others
  BY DEF TemplateMetrics, T
<1>8. /\ DOMAIN TemplateMetrics = 1 .. (N + Len(others)) /\ Len(others) \in Nat
      /\ \A k \in 1 .. N : TemplateMetrics[k] = T[k]
      /\ \A k \in N + 1 .. N + Len(others) :
           TemplateMetrics[k] = others[k - N] /\ k - N \in DOMAIN others /\ others[k - N] \in Sound
  <2> DEFINE L == Len(others)
  <2>1. L \in Nat /\ \A k \in 1 .. L : others[k] \in Sound
    BY <1>1
  <2>2. DOMAIN others = 1 .. L
    BY <1>1
  <2>3. /\ DOMAIN TemplateMetrics = 1 .. (N + L)
        /\ \A k \in 1 .. N : TemplateMetrics[k] = T[k]
    <3>1. T \o others \in Seq(Sound) /\ Len(T \o others) = N + L
      BY <1>1, <1>6
    <3>2. DOMAIN TemplateMetrics = 1 .. (N + L)
      BY <1>7, <3>1
    <3>3. ASSUME NEW k \in 1 .. N PROVE TemplateMetrics[k] = T[k]
      BY <1>1, <1>2, <1>6, <1>7, <2>1
    <3> QED
      BY <3>2, <3>3
  <2>4. \A k \in N + 1 .. N + L : TemplateMetrics[k] = others[k - N]
    BY <1>1, <1>2, <1>6, <1>7, <2>1
  <2> HIDE DEF L
  <2>5. \A k \in N + 1 .. N + L : k - N \in 1 .. L
    BY <1>2, <2>1
  <2> QED
    BY <2>1, <2>2, <2>3, <2>4, <2>5 DEF L
<1>9. ASSUME NEW k \in DOMAIN TemplateMetrics
      PROVE  /\ TemplateMetrics[k] \in Sound
             /\ \/ \E j \in DOMAIN posted : TemplateMetrics[k].formula = posted[j].formula
                \/ \E j \in DOMAIN others : TemplateMetrics[k].formula = others[j].formula
  <2>1. CASE k \in 1 .. N
    BY <1>2, <1>4, <1>8, <2>1
  <2>2. CASE k \in N + 1 .. N + Len(others)
    BY <1>8, <2>2
  <2> QED
    BY <1>2, <1>8, <2>1, <2>2
<1> QED
  BY <1>1, <1>2, <1>4, <1>5, <1>6, <1>8, <1>9 DEF N, T

(* What a submission holds of each metric, and that it names metrics there *)
(* are.                                                                    *)
InputFields == [metric : Int, fact : Decimal, overtime : Decimal]

Known(inputs) == \A i \in DOMAIN inputs : inputs[i].metric \in DOMAIN TemplateMetrics

(* The template metric that a metric of a submission is calculated by.     *)
LEMMA InputsOf ==
  ASSUME EngineInv, reply = "created", NEW n \in Nat, NEW inputs \in [1 .. n -> InputFields],
         Known(inputs), NEW i \in 1 .. n
  PROVE  LET m == TemplateMetrics[inputs[i].metric]
         IN  /\ inputs[i].metric \in DOMAIN TemplateMetrics /\ m \in Sound
             /\ m.formula \in Formula /\ m.weight \in Decimal /\ m.plan \in Decimal
             /\ inputs[i].fact \in Decimal /\ inputs[i].overtime \in Decimal
             /\ DOMAIN Context(m, inputs[i].fact) = Symbols
             /\ \A s \in Symbols : Context(m, inputs[i].fact)[s] \in Decimal
             /\ MetricResult(inputs[i]) = EvaluateFormula(m.formula, Context(m, inputs[i].fact))
<1> DEFINE m == TemplateMetrics[inputs[i].metric]
<1>1. inputs[i].metric \in DOMAIN TemplateMetrics
  BY DEF Known
<1>2. inputs[i].fact \in Decimal /\ inputs[i].overtime \in Decimal
  BY DEF InputFields
<1>3. m \in Sound
  BY <1>1, TableOf
<1>4. MetricResult(inputs[i]) = EvaluateFormula(m.formula, Context(m, inputs[i].fact))
  BY DEF MetricResult
<1>5. template.maximum \in Decimal
  BY DEF EngineInv
<1> HIDE DEF m
<1>6. m.formula \in Formula /\ m.weight \in Decimal /\ m.plan \in Decimal
  BY <1>3 DEF Sound, PostedMetric
<1>7. /\ DOMAIN Context(m, inputs[i].fact) = Symbols
      /\ \A s \in Symbols : Context(m, inputs[i].fact)[s] \in Decimal
  BY <1>2, <1>5, <1>6, ContextOf
<1> QED
  BY <1>1, <1>2, <1>3, <1>4, <1>6, <1>7 DEF m

(* What an instance is stored with: the values of the formulas are its     *)
(* results.                                                                *)
StoredWith(inputs, salary, results) ==
  /\ submitted' = [inputs |-> inputs, salary |-> salary]
  /\ instance' = [metrics  |-> [i \in DOMAIN inputs |-> StoredInput(inputs[i], results[i])],
                  salary   |-> StoredSalary(salary),
                  overtime |-> Store(OvertimeAmount(salary)),
                  total    |-> Store(TotalAmount(results, inputs, salary))]

(* calculate_instance: each formula is that of a metric that was accepted. *)
LEMMA StoreStep ==
  ASSUME EngineInv, reply = "created", NEW n \in Nat, NEW inputs \in [1 .. n -> InputFields],
         Known(inputs), NEW salary \in SalaryFields, StoreInstance(inputs, salary),
         UNCHANGED <<posted, template, others>>
  PROVE  /\ EngineInv'
         /\ instance' # NoInstance =>
              \E results \in [1 .. n -> Decimal] :
                /\ StoredWith(inputs, salary, results)
                /\ \A i \in 1 .. n : MetricResult(inputs[i]).value = results[i]
<1> DEFINE values == [i \in DOMAIN inputs |-> MetricResult(inputs[i])]
           results == [i \in DOMAIN inputs |-> values[i].value]
           AllRegular == /\ \A k \in DOMAIN posted : Regular(posted[k].formula)
                         /\ \A k \in DOMAIN others : Regular(others[k].formula)
<1>2. ASSUME NEW i \in 1 .. n
      PROVE  /\ values[i].kind \in {"decimal", "exception"}
             /\ AllRegular => values[i].kind = "decimal"
             /\ values[i].kind = "decimal" => values[i].value \in Decimal
  <2> DEFINE m == TemplateMetrics[inputs[i].metric]
             formula == m.formula
             context == Context(m, inputs[i].fact)
  <2>1. /\ formula \in Formula /\ m \in Sound /\ inputs[i].metric \in DOMAIN TemplateMetrics
        /\ DOMAIN context = Symbols /\ \A s \in Symbols : context[s] \in Decimal
        /\ MetricResult(inputs[i]) = EvaluateFormula(formula, context)
    BY InputsOf
  <2>2. values[i] = EvaluateFormula(formula, context)
    BY <2>1
  <2>3. ~ IsError(Validation(formula))
    BY <2>1 DEF Sound
  <2>7. AllRegular => Regular(formula)
    BY <2>1, TableOf
  <2> HIDE DEF formula, context, values, AllRegular
  <2>4. values[i].kind \in {"decimal", "exception"}
    BY <2>1, <2>2, <2>3, NeverInvalid
  <2>5. Regular(formula) => values[i].kind = "decimal"
    BY <2>1, <2>2, RegularYields DEF EvaluateFormula, AsDecimal
  <2>6. values[i].kind = "decimal" => values[i].value \in Decimal
    BY <2>1, <2>2, EvaluateTyped DEF IsError
  <2> QED
    BY <2>4, <2>5, <2>6, <2>7
<1>3. values \in Seq({values[i] : i \in 1 .. n}) /\ DOMAIN values = 1 .. n
  OBVIOUS
<1>4. /\ reply' = IF AllGood(values) THEN "stored"
                  ELSE IF FirstError(values) = Invalid THEN "formula_error"
                  ELSE "internal_error"
      /\ AllGood(values) => StoredWith(inputs, salary, results)
      /\ ~ AllGood(values) => instance' = instance
  <2> HIDE DEF values, results
  <2> QED
    BY DEF StoreInstance, values, results, StoredWith
<1>5. AllGood(values) => results \in [1 .. n -> Decimal]
  BY <1>2 DEF AllGood, IsError
<1>6. \A i \in 1 .. n : MetricResult(inputs[i]).value = results[i]
  OBVIOUS
<1>7. instance = NoInstance
  BY DEF EngineInv
<1> HIDE DEF values, results
<1>8. ~ AllGood(values) => FirstError(values) # Invalid
  BY <1>2, <1>3, FirstErrorOf DEF Invalid
<1>9. AllRegular => AllGood(values)
  <2> HIDE DEF AllRegular
  <2> QED
    BY <1>2, <1>3 DEF AllGood, IsError
<1>10. EngineInv'
  BY <1>4, <1>7, <1>8, <1>9 DEF EngineInv, AcceptedIsNeverInvalid, RegularFormulasPay
<1> QED
  BY <1>4, <1>5, <1>6, <1>7, <1>10

(* A submission that names no metric there is leaves nothing behind.       *)
LEMMA RefusedStep ==
  ASSUME EngineInv, reply = "created", reply' = "unknown_metric",
         UNCHANGED <<posted, submitted, template, others, instance>>
  PROVE  EngineInv' /\ instance' = NoInstance
BY DEF EngineInv, AcceptedIsNeverInvalid, RegularFormulasPay

(* The columns of an instance and of its metrics have their places.        *)
ColumnsHold(i) ==
  /\ HasPlaces(i.total, 100) /\ HasPlaces(i.overtime, 100)
  /\ \A field \in DOMAIN i.salary : HasPlaces(i.salary[field], 100)
  /\ \A j \in DOMAIN i.metrics :
       /\ HasPlaces(i.metrics[j].fact, 10000)
       /\ HasPlaces(i.metrics[j].result, 100)
       /\ HasPlaces(i.metrics[j].overtime, 100)

(* The stored amounts of an instance have their places and add up.         *)
LEMMA AmountsStored ==
  ASSUME NEW n \in Nat, NEW inputs \in [1 .. n -> InputFields],
         NEW salary \in SalaryFields, NEW results \in [1 .. n -> Decimal],
         StoredWith(inputs, salary, results)
  PROVE  ColumnsHold(instance') /\ StoredAmountsAddUp'
<1> DEFINE o == [i \in 1 .. n |-> inputs[i].overtime]
           k == SalaryKpi(salary)
           l == SalaryKpi(StoredSalary(salary))
           q == SalarySlack(StoredSalary(salary))
           w == OvertimeAmount(salary)
           exact == Plus(Plus(Total(results), Total(o)), Plus(k, w))
<1>1. DOMAIN inputs = 1 .. n /\ DOMAIN results = 1 .. n
  OBVIOUS
<1>2. o \in [1 .. n -> Decimal] /\ \A i \in 1 .. n : inputs[i].fact \in Decimal /\ inputs[i].overtime \in Decimal
  BY DEF InputFields
<1>3. /\ k \in Decimal /\ w \in Decimal /\ l \in Decimal /\ q \in Decimal
      /\ Leq(Minus(k, l), q) /\ Leq(Minus(l, k), q)
  BY SalaryAmounts, SalaryNear
<1>4. TotalAmount(results, inputs, salary) = exact
  BY <1>1 DEF TotalAmount
<1>5. exact \in Decimal
  <2>1. Total(results) \in Decimal /\ Total(o) \in Decimal
    <3> HIDE DEF o
    <3> QED
      BY <1>2, TotalClosed
  <2> HIDE DEF o, k, w
  <2> QED
    BY <1>3, <2>1, Closed
<1> DEFINE paid == [i \in 1 .. n |-> Plus(Store(results[i]), Store(o[i]))]
           sum  == Plus(Total(paid), Plus(l, Store(w)))
           lost == Plus(Frac(2 * n + 2, 200), q)
<1>6. Leq(Minus(Store(exact), sum), lost) /\ Leq(Minus(sum, Store(exact)), lost)
  <2> HIDE DEF o, k, w, l, q
  <2>1. AddUp(n, results, o, k, l, q, w)
    BY <1>2, <1>3, AmountsAddUp
  <2> QED
    BY <2>1 DEF AddUp
<1>7. /\ instance'.total = Store(exact) /\ instance'.overtime = Store(w)
      /\ instance'.metrics = [i \in 1 .. n |-> StoredInput(inputs[i], results[i])]
      /\ instance'.salary = StoredSalary(salary)
  <2> HIDE DEF exact, w
  <2> QED
    BY <1>1, <1>4 DEF StoredWith, w
<1>8. DOMAIN instance'.metrics = 1 .. n /\ Len(instance'.metrics) = n
  BY <1>7
<1>9. ASSUME NEW i \in 1 .. n
      PROVE  /\ instance'.metrics[i].result = Store(results[i])
             /\ instance'.metrics[i].overtime = Store(o[i]) /\ o[i] = inputs[i].overtime
             /\ instance'.metrics[i].fact = ToPlaces(inputs[i].fact, 10000)
  BY <1>7 DEF StoredInput
<1>10. [i \in DOMAIN instance'.metrics |->
          Plus(instance'.metrics[i].result, instance'.metrics[i].overtime)] = paid
  BY <1>8, <1>9
<1>11. StoredAmountsAddUp'
  <2>1. SalaryKpi(instance'.salary) = l /\ SalarySlack(instance'.salary) = q
    BY <1>7
  <2> HIDE DEF exact, sum, paid, k, w, o, l, q
  <2>2. Plus(Total(paid), Plus(SalaryKpi(instance'.salary), instance'.overtime)) = sum
    BY <1>7, <2>1 DEF sum
  <2>3. Plus(Frac(2 * Len(instance'.metrics) + 2, 200), SalarySlack(instance'.salary)) = lost
    BY <1>8, <2>1
  <2> HIDE DEF lost
  <2> QED
    BY <1>6, <1>7, <1>10, <2>2, <2>3 DEF StoredAmountsAddUp
<1>12. ASSUME NEW i \in 1 .. n
       PROVE  /\ HasPlaces(instance'.metrics[i].result, 100)
              /\ HasPlaces(instance'.metrics[i].overtime, 100)
              /\ HasPlaces(instance'.metrics[i].fact, 10000)
  <2>1. 10000 \in Positive
    BY DEF Positive
  <2>2. results[i] \in Decimal /\ o[i] \in Decimal /\ inputs[i].fact \in Decimal
    BY <1>2
  <2> HIDE DEF o
  <2> QED
    BY <1>9, <2>1, <2>2, StoredAmount, PlacesOf DEF HasPlaces
<1>13. \A field \in DOMAIN instance'.salary : HasPlaces(instance'.salary[field], 100)
  <2>1. salary.base \in Decimal /\ salary.share \in Decimal /\ salary.x1 \in Decimal /\ salary.x2 \in Decimal
    BY DEF SalaryFields
  <2>2. /\ HasPlaces(Store(salary.base), 100) /\ HasPlaces(Store(salary.share), 100)
        /\ HasPlaces(Store(salary.x1), 100) /\ HasPlaces(Store(salary.x2), 100)
    BY <2>1, StoredAmount DEF HasPlaces
  <2> QED
    BY <1>7, <2>2 DEF StoredSalary
<1> HIDE DEF exact, sum, lost, paid, k, w, o, l, q
<1> QED
  BY <1>3, <1>5, <1>7, <1>8, <1>11, <1>12, <1>13, StoredAmount DEF HasPlaces, ColumnsHold

-----------------------------------------------------------------------------
(* What an instance within its plan is paid.                               *)

(* The weights that were posted, and the shares of the stored ones.        *)
LEMMA SharesOf ==
  ASSUME EngineInv, reply = "created"
  PROVE  LET N == Len(posted)
             p == [j \in 1 .. N |-> posted[j].weight]
             v == [j \in 1 .. N |-> MaxMetricAmount(template.metrics[j])]
         IN  /\ N \in Nat /\ Len(template.metrics) = N /\ DOMAIN posted = 1 .. N
             /\ p \in [1 .. N -> Decimal] /\ v \in [1 .. N -> Decimal]
             /\ \A j \in 1 .. N : Leq(Zero, v[j])
             /\ Weighed(p) /\ Shares(v, p, template.maximum)
<1> DEFINE N == Len(posted)
           M == template.maximum
           p == [j \in 1 .. N |-> posted[j].weight]
           v == [j \in 1 .. N |-> MaxMetricAmount(template.metrics[j])]
<1>1. posted \in Seq(Sound) /\ ~ TooHeavy(posted) /\ M \in Decimal /\ Leq(Zero, M)
  BY DEF EngineInv
<1>2. N \in Nat /\ DOMAIN posted = 1 .. N
  BY <1>1
<1>3. Len(template.metrics) = N /\ \A j \in 1 .. N : template.metrics[j] = StoredMetric(posted[j])
  BY TableOf
<1>4. p \in [1 .. N -> Decimal] /\ \A j \in 1 .. N : Leq(Zero, posted[j].weight)
  <2>1. \A m \in Sound : m.weight \in Decimal /\ Leq(Zero, m.weight)
    BY DEF Sound, PostedMetric
  <2> QED
    BY <1>1, <1>2, <2>1
<1>5. ASSUME NEW j \in 1 .. N
      PROVE  /\ v[j] = Times(M, Divided(Store(p[j]), Whole(100)))
             /\ v[j] \in Decimal /\ Leq(Zero, v[j])
  <2>1. p[j] \in Decimal /\ Leq(Zero, p[j])
    BY <1>1, <1>2, <1>4
  <2>2. template.metrics[j].weight = Store(p[j])
    <3>1. template.metrics[j] = StoredMetric(posted[j]) /\ p[j] = posted[j].weight
      BY <1>3
    <3> QED
      BY <3>1 DEF StoredMetric
  <2>3. v[j] = Times(M, Divided(Store(p[j]), Whole(100)))
    BY <2>2 DEF MaxMetricAmount
  <2> HIDE DEF p, v, M
  <2> QED
    BY <1>1, <2>1, <2>3, StoredAmount, StoredSign, ShareSign
<1>6. Weighed(p)
  <2>1. Total(p) \in Decimal
    <3> HIDE DEF p
    <3> QED
      BY <1>2, <1>4, TotalClosed
  <2>2. [j \in DOMAIN posted |-> posted[j].weight] = p
    BY <1>2
  <2>3. Leq(Divided(Rounded(Times(Whole(100), Total(p))), Whole(100)), Whole(100))
    <3> HIDE DEF p
    <3> QED
      BY <1>1, <2>2 DEF TooHeavy
  <2> HIDE DEF p
  <2> QED
    BY <2>1, <2>3, NotTooHeavy DEF Weighed
<1>7. v \in [1 .. N -> Decimal] /\ Shares(v, p, M)
  <2>1. DOMAIN p = 1 .. N /\ DOMAIN v = 1 .. N
    OBVIOUS
  <2>2. v = [j \in 1 .. N |-> v[j]]
    OBVIOUS
  <2> HIDE DEF p, v, M, N
  <2> QED
    BY <1>5, <2>1, <2>2 DEF Shares
<1> QED
  BY <1>2, <1>3, <1>4, <1>5, <1>6, <1>7

(* The formula of the README pays the share of the metric in proportion to *)
(* the plan, and no more than the share while the fact is within the plan. *)
LEMMA ProportionalPay ==
  ASSUME ProportionalFormula \in Formula, NEW m, NEW fact \in Decimal, m.plan \in Decimal,
         Leq(Zero, fact), Leq(fact, m.plan), MaxMetricAmount(m) \in Decimal, Leq(Zero, MaxMetricAmount(m))
  PROVE  LET r == EvaluateFormula(ProportionalFormula, Context(m, fact))
         IN  r.value \in Decimal /\ Leq(r.value, MaxMetricAmount(m))
<1> DEFINE Symbol(s) == [node |-> "Name", id |-> s]
           Op(op, x, y) == [node |-> "BinOp", op |-> op, left |-> x, right |-> y]
           ratio == Op("Div", Symbol("fact_value"), Symbol("plan_value"))
           context == Context(m, fact)
           V == Visitor(context)
           most == MaxMetricAmount(m)
           formula == ProportionalFormula
<1>1. formula = Op("Mult", Symbol("max_metric_amount"), ratio)
  BY DEF ProportionalFormula
<1>2. ASSUME NEW n \in Formula, NEW p \in Parts(n) PROVE p \in Formula
  <2>1. PICK k \in DOMAIN Trees : n \in Trees[k]
    BY DEF Formula
  <2>2. \E j \in DOMAIN Trees : p \in Trees[j]
    BY <2>1, TreesAssumption
  <2> QED
    BY <2>2 DEF Formula
<1>3. Symbol("max_metric_amount") \in Formula /\ ratio \in Formula
  <2>1. formula.node = "BinOp" /\ formula.left = Symbol("max_metric_amount") /\ formula.right = ratio
    BY <1>1
  <2>2. Parts(formula) = {formula.left, formula.right}
    BY <2>1 DEF Parts
  <2> HIDE DEF formula, ratio
  <2> QED
    BY <1>2, <2>1, <2>2 DEF formula
<1>4. Symbol("fact_value") \in Formula /\ Symbol("plan_value") \in Formula
  <2>1. ratio.node = "BinOp" /\ ratio.left = Symbol("fact_value") /\ ratio.right = Symbol("plan_value")
    OBVIOUS
  <2>2. Parts(ratio) = {ratio.left, ratio.right}
    BY <2>1 DEF Parts
  <2> HIDE DEF ratio
  <2> QED
    BY <1>2, <1>3, <2>1, <2>2
<1>5. \A n \in Formula : Visit(n, context) = V[n] /\ V[n] = VisitNode(n, V, context)
  BY Visited
<1>6. /\ DOMAIN context = Symbols
      /\ context["fact_value"] = fact /\ context["plan_value"] = m.plan
      /\ context["max_metric_amount"] = most
  BY DEF Context, Symbols
<1>7. ASSUME NEW s \in Symbols, Symbol(s) \in Formula PROVE V[Symbol(s)] = Value(context[s])
  <2> DEFINE n == Symbol(s)
  <2>1. n.node = "Name" /\ n.id = s
    OBVIOUS
  <2> HIDE DEF n, V, context
  <2>2. VisitNode(n, V, context) = VisitName(s, context)
    BY <2>1 DEF VisitNode
  <2>3. VisitName(s, context) = Value(context[s])
    BY <1>6 DEF VisitName
  <2> QED
    BY <1>5, <1>7, <2>2, <2>3 DEF n
<1>8. ASSUME NEW op \in {"Mult", "Div"}, NEW x, NEW y
      PROVE  VisitBinOp(op, Value(x), Value(y)) = Operate(op, x, y)
  <2> DEFINE operands == <<AsDecimal(Value(x)), AsDecimal(Value(y))>>
  <2>1. Value(x).kind = "decimal" /\ Value(y).kind = "decimal" /\ Value(x).value = x /\ Value(y).value = y
    BY DEF Value
  <2>2. operands = <<Value(x), Value(y)>>
    BY <2>1 DEF AsDecimal
  <2>3. AllGood(operands)
    BY <2>1, <2>2 DEF AllGood, IsError
  <2> HIDE DEF operands
  <2>4. op \in AllowedBinOps
    BY DEF AllowedBinOps
  <2> QED
    BY <2>1, <2>3, <2>4 DEF VisitBinOp, operands
<1>9. PICK q \in Decimal : Quotient(fact, m.plan) = Value(q) /\ Leq(q, Whole(1))
  BY Proportion
<1>10. V[ratio] = Value(q)
  <2>1. V[Symbol("fact_value")] = Value(fact) /\ V[Symbol("plan_value")] = Value(m.plan)
    BY <1>4, <1>6, <1>7 DEF Symbols
  <2>2. ratio.node = "BinOp" /\ ratio.op = "Div"
        /\ ratio.left = Symbol("fact_value") /\ ratio.right = Symbol("plan_value")
    OBVIOUS
  <2> HIDE DEF ratio, V, context, Symbol
  <2>3. VisitNode(ratio, V, context) = VisitBinOp("Div", V[ratio.left], V[ratio.right])
    BY <2>2 DEF VisitNode
  <2>4. Operate("Div", fact, m.plan) = Quotient(fact, m.plan)
    BY DEF Operate
  <2>5. VisitBinOp("Div", Value(fact), Value(m.plan)) = Operate("Div", fact, m.plan)
    BY <1>8
  <2> QED
    BY <1>3, <1>5, <1>9, <2>1, <2>2, <2>3, <2>4, <2>5
<1>11. V[formula] = Value(Times(most, q))
  <2>1. V[Symbol("max_metric_amount")] = Value(most)
    BY <1>3, <1>6, <1>7 DEF Symbols
  <2>2. formula.node = "BinOp" /\ formula.op = "Mult"
        /\ formula.left = Symbol("max_metric_amount") /\ formula.right = ratio
    BY <1>1
  <2> HIDE DEF ratio, V, context, Symbol, formula, most
  <2>3. VisitNode(formula, V, context) = VisitBinOp("Mult", V[formula.left], V[formula.right])
    BY <2>2 DEF VisitNode
  <2>4. Operate("Mult", most, q) = Value(Times(most, q))
    BY DEF Operate
  <2>5. VisitBinOp("Mult", Value(most), Value(q)) = Operate("Mult", most, q)
    BY <1>8
  <2>6. formula \in Formula
    BY DEF formula
  <2> QED
    BY <1>5, <1>10, <2>1, <2>2, <2>3, <2>4, <2>5, <2>6
<1>12. EvaluateFormula(formula, context) = Value(Times(most, q))
  <2>1. formula \in Formula
    OBVIOUS
  <2> HIDE DEF V, context, formula, most
  <2> QED
    BY <1>5, <1>11, <2>1 DEF EvaluateFormula, AsDecimal, Value
<1>13. Times(most, q) \in Decimal /\ Leq(Times(most, q), most)
  BY <1>9, PartOfAmount, Closed
<1> HIDE DEF most, V, context, formula
<1> QED
  BY <1>12, <1>13 DEF Value, formula, context, most

(* A result within the plan is at most the share of its metric.            *)
LEMMA ResultWithinShare ==
  ASSUME EngineInv, reply = "created", NEW n \in Nat, NEW inputs \in [1 .. n -> InputFields],
         Known(inputs), NEW i \in 1 .. n,
         LET input == inputs[i]
             m     == TemplateMetrics[input.metric]
         IN  /\ m.formula = ProportionalFormula
             /\ Leq(Zero, input.fact) /\ Leq(input.fact, m.plan)
  PROVE  LET share == MaxMetricAmount(TemplateMetrics[inputs[i].metric])
         IN  share \in Decimal /\ Leq(MetricResult(inputs[i]).value, share)
<1> DEFINE m == TemplateMetrics[inputs[i].metric]
           fact == inputs[i].fact
           share == MaxMetricAmount(m)
<1>1. /\ m \in Sound /\ m.formula \in Formula /\ m.weight \in Decimal /\ m.plan \in Decimal
      /\ fact \in Decimal /\ MetricResult(inputs[i]) = EvaluateFormula(m.formula, Context(m, fact))
  BY InputsOf
<1>2. m.formula = ProportionalFormula /\ Leq(Zero, fact) /\ Leq(fact, m.plan)
  OBVIOUS
<1>3. template.maximum \in Decimal /\ Leq(Zero, template.maximum)
  BY DEF EngineInv
<1> HIDE DEF m, fact
<1>4. share \in Decimal /\ Leq(Zero, share)
  BY <1>1, <1>3, ShareSign DEF Sound, MaxMetricAmount
<1> HIDE DEF share
<1>5. Leq(MetricResult(inputs[i]).value, share)
  BY <1>1, <1>2, <1>4, ProportionalPay DEF share
<1> QED
  BY <1>4, <1>5 DEF m, share

(* An instance without extras: its total is that of its results, and at    *)
(* most half a cent more.                                                  *)
LEMMA TotalWithoutExtras ==
  ASSUME NEW n \in Nat, NEW inputs, DOMAIN inputs = 1 .. n, NEW results \in [1 .. n -> Decimal],
         \A i \in 1 .. n : inputs[i].overtime = Zero
  PROVE  /\ Total(results) \in Decimal
         /\ Leq(Store(TotalAmount(results, inputs, NoSalary)), Plus(Total(results), Frac(1, 200)))
<1> DEFINE o == [i \in DOMAIN inputs |-> inputs[i].overtime]
           R == Total(results)
           x == Plus(Plus(R, Zero), Zero)
           h == Frac(1, 200)
<1>1. Total(o) = Zero
  <2>1. o \in [1 .. n -> {Zero}]
    OBVIOUS
  <2> HIDE DEF o
  <2> QED
    BY <2>1, TotalOfZeros
<1>2. SalaryKpi(NoSalary) = Zero
  <2>1. Whole(100) \in Decimal /\ Whole(100) # Zero
    BY WholeOf DEF Whole, Zero
  <2>2. SalaryKpi(NoSalary) = Times(Zero, Divided(Zero, Whole(100)))
    BY DEF SalaryKpi, NoSalary
  <2> QED
    BY <2>1, <2>2, WithZero
<1>3. OvertimeAmount(NoSalary) = Zero
  <2>1. Whole(160) \in Decimal /\ Whole(160) # Zero /\ Whole(2) \in Decimal
    BY WholeOf DEF Whole, Zero
  <2>2. OvertimeAmount(NoSalary) = Times(Plus(Zero, Times(Whole(2), Zero)), Divided(Zero, Whole(160)))
    BY DEF OvertimeAmount, NoSalary
  <2> QED
    BY <2>1, <2>2, WithZero
<1>4. TotalAmount(results, inputs, NoSalary) = x
  <2> HIDE DEF o
  <2>1. TotalAmount(results, inputs, NoSalary)
          = Plus(Plus(R, Total(o)), Plus(SalaryKpi(NoSalary), OvertimeAmount(NoSalary)))
    BY DEF TotalAmount, o
  <2> QED
    BY <1>1, <1>2, <1>3, <2>1, WithZero
<1>5. R \in Decimal
  BY TotalClosed
<1>6. h \in Decimal
  <2>1. 200 \in Int /\ 200 # 0 /\ 1 \in Int
    OBVIOUS
  <2> QED
    BY <2>1, FracOf
<1> HIDE DEF R, h
<1>7. x \in Decimal /\ Plus(R, Zero) \in Decimal
  BY <1>5, WithZero, Closed
<1>8. Leq(x, R)
  BY <1>5, <1>7, WithZero, LeqOrders
<1> HIDE DEF x
<1>9. Leq(Store(x), Plus(x, h))
  BY <1>7, StoreAbove DEF h
<1>10. Leq(Plus(x, h), Plus(R, h)) /\ Plus(x, h) \in Decimal /\ Plus(R, h) \in Decimal /\ Store(x) \in Decimal
  BY <1>5, <1>6, <1>7, <1>8, PlusMonotone, LeqOrders, Closed, StoredAmount
<1>11. Leq(Store(x), Plus(R, h))
  BY <1>9, <1>10, LeqOrders
<1> QED
  BY <1>4, <1>5, <1>11 DEF R, h

(* An instance of proportional metrics within their plans is stored with a *)
(* total within their shares.                                              *)
LEMMA StoredWithinShares ==
  ASSUME EngineInv, reply = "created", NEW n \in Nat, NEW inputs \in [1 .. n -> InputFields],
         Known(inputs), NEW salary \in SalaryFields, NEW results \in [1 .. n -> Decimal],
         StoredWith(inputs, salary, results), \A i \in 1 .. n : MetricResult(inputs[i]).value = results[i],
         UNCHANGED <<template, others>>, WithinPlan'
  PROVE  LET b == [i \in 1 .. n |-> MaxMetricAmount(TemplateMetrics[inputs[i].metric])]
         IN  /\ b \in [1 .. n -> Decimal] /\ Total(b) \in Decimal /\ SubmittedShares' = Total(b)
             /\ instance'.total \in Decimal /\ Leq(instance'.total, Plus(Total(b), Frac(1, 200)))
<1> DEFINE b == [i \in 1 .. n |-> MaxMetricAmount(TemplateMetrics[inputs[i].metric])]
           h == Frac(1, 200)
<1>1. /\ submitted'.inputs = inputs /\ submitted'.salary = salary
      /\ instance'.total = Store(TotalAmount(results, inputs, salary))
  BY DEF StoredWith
<1>2. DOMAIN inputs = 1 .. n /\ salary = NoSalary /\ TemplateMetrics' = TemplateMetrics
  BY <1>1 DEF WithinPlan, TemplateMetrics
<1>3. ASSUME NEW i \in 1 .. n
      PROVE  /\ b[i] \in Decimal /\ Leq(results[i], b[i])
             /\ inputs[i].overtime = Zero
  <2>1. LET input == inputs[i]
            m     == TemplateMetrics[input.metric]
        IN  /\ m.formula = ProportionalFormula
            /\ Leq(Zero, input.fact) /\ Leq(input.fact, m.plan)
            /\ input.overtime = Zero
    BY <1>1, <1>2 DEF WithinPlan
  <2>2. LET share == MaxMetricAmount(TemplateMetrics[inputs[i].metric])
        IN  share \in Decimal /\ Leq(MetricResult(inputs[i]).value, share)
    BY <2>1, ResultWithinShare
  <2> QED
    BY <2>1, <2>2
<1>4. SubmittedShares' = Total(b)
  <2>1. \A m : MaxMetricAmount(m)' = MaxMetricAmount(m)'
    OBVIOUS
  <2>2. [i \in DOMAIN submitted'.inputs |-> MaxMetricAmount(TemplateMetrics[submitted.inputs[i].metric])'] = b
    BY <1>1, <1>2 DEF MaxMetricAmount
  <2> HIDE DEF b
  <2> QED
    BY <2>2 DEF SubmittedShares
<1>5. b \in [1 .. n -> Decimal] /\ \A i \in 1 .. n : Leq(results[i], b[i])
  BY <1>3
<1> HIDE DEF b
<1>6. Leq(Total(results), Total(b)) /\ Total(b) \in Decimal
  BY <1>5, TotalMonotone, TotalClosed
<1>7. h \in Decimal
  <2>1. 200 \in Int /\ 200 # 0 /\ 1 \in Int
    OBVIOUS
  <2> QED
    BY <2>1, FracOf
<1>8. /\ Total(results) \in Decimal
      /\ Leq(Store(TotalAmount(results, inputs, NoSalary)), Plus(Total(results), h))
  BY <1>2, <1>3, TotalWithoutExtras
<1> HIDE DEF h
<1> DEFINE total == Store(TotalAmount(results, inputs, NoSalary))
           R == Total(results)
<1>9. total \in Decimal
  <2>1. NoSalary \in SalaryFields
    BY <1>2
  <2>2. SalaryKpi(NoSalary) \in Decimal /\ OvertimeAmount(NoSalary) \in Decimal
    BY <2>1, SalaryAmounts
  <2> DEFINE o == [i \in DOMAIN inputs |-> inputs[i].overtime]
  <2>3. o \in [1 .. n -> Decimal]
    BY <1>2, <1>3, WithZero
  <2>4. TotalAmount(results, inputs, NoSalary)
          = Plus(Plus(R, Total(o)), Plus(SalaryKpi(NoSalary), OvertimeAmount(NoSalary)))
    BY DEF TotalAmount
  <2> HIDE DEF o
  <2>5. Total(o) \in Decimal
    BY <2>3, TotalClosed
  <2> QED
    BY <1>8, <2>2, <2>4, <2>5, Closed, StoredAmount
<1> HIDE DEF total, R
<1>10. R \in Decimal /\ Leq(total, Plus(R, h)) /\ Leq(R, Total(b))
  BY <1>6, <1>8 DEF total, R
<1>11. /\ Leq(Plus(R, h), Plus(Total(b), h)) /\ Plus(R, h) \in Decimal /\ Plus(Total(b), h) \in Decimal
  BY <1>6, <1>7, <1>10, PlusMonotone, LeqOrders, Closed
<1>12. Leq(total, Plus(Total(b), h))
  BY <1>9, <1>10, <1>11, LeqOrders
<1>13. instance'.total = total
  BY <1>1, <1>2 DEF total
<1> QED
  BY <1>4, <1>5, <1>6, <1>9, <1>12, <1>13 DEF b, h

(* The parts of a cent that rounding may lose.                             *)
LEMMA SmallParts == ASSUME NEW n \in Int PROVE Frac(1, 200) \in Decimal /\ Frac(n, 20000) \in Decimal
<1>1. 200 # 0 /\ 200 \in Int /\ 1 \in Int OBVIOUS
<1>2. 20000 # 0 /\ 20000 \in Int OBVIOUS
<1>3. Frac(1, 200) \in Decimal BY <1>1, FracOf
<1>4. Frac(n, 20000) \in Decimal BY <1>2, FracOf
<1>5. QED BY <1>3, <1>4

(* The shares of metrics of the template, each named once, are within the  *)
(* maximum amount.                                                         *)
LEMMA StoredWithinMaximum ==
  ASSUME EngineInv, reply = "created", NEW n \in Nat, NEW inputs \in [1 .. n -> InputFields],
         Known(inputs), NEW salary \in SalaryFields, NEW results \in [1 .. n -> Decimal],
         StoredWith(inputs, salary, results), \A i \in 1 .. n : MetricResult(inputs[i]).value = results[i],
         UNCHANGED <<template, others>>
  PROVE  MaximumHolds'
<1> DEFINE N == Len(posted)
           M == template.maximum
           p == [j \in 1 .. N |-> posted[j].weight]
           v == [j \in 1 .. N |-> MaxMetricAmount(template.metrics[j])]
           c == [i \in 1 .. n |-> inputs[i].metric]
           b == [i \in 1 .. n |-> MaxMetricAmount(TemplateMetrics[inputs[i].metric])]
           h == Frac(1, 200)
           s == Times(M, Frac(1 + N, 20000))
           total == instance'.total
<1>0. SUFFICES ASSUME WithinPlan'
               PROVE  /\ Leq(total, Plus(SubmittedShares', h))
                      /\ OwnMetricsOnce' => Leq(total, Plus(template'.maximum, Slack'))
  BY DEF MaximumHolds
<1>1. /\ b \in [1 .. n -> Decimal] /\ Total(b) \in Decimal /\ SubmittedShares' = Total(b)
      /\ total \in Decimal /\ Leq(total, Plus(Total(b), h))
  BY <1>0, StoredWithinShares
<1>2. SUFFICES ASSUME OwnMetricsOnce' PROVE Leq(total, Plus(template'.maximum, Slack'))
  BY <1>1
<1>3. submitted'.inputs = inputs /\ DOMAIN inputs = 1 .. n /\ c = [i \in DOMAIN inputs |-> inputs[i].metric]
  BY DEF StoredWith
<1>4. (\A i, j \in 1 .. n : c[i] = c[j] => i = j) /\ \A i \in 1 .. n : c[i] \in 1 .. N
  <2>1. IsInjective(c) /\ \A i \in DOMAIN c : c[i] \in DOMAIN template.metrics
    <3> HIDE DEF c
    <3> QED
      BY <1>2, <1>3 DEF OwnMetricsOnce
  <2>2. DOMAIN c = 1 .. n /\ DOMAIN template.metrics = 1 .. N
    BY TableOf
  <2> HIDE DEF c
  <2> QED
    BY <2>1, <2>2 DEF IsInjective
<1>5. /\ N \in Nat /\ Len(template.metrics) = N
      /\ p \in [1 .. N -> Decimal] /\ v \in [1 .. N -> Decimal] /\ \A j \in 1 .. N : Leq(Zero, v[j])
      /\ Weighed(p) /\ Shares(v, p, M)
  BY SharesOf
<1>6. c \in [1 .. n -> 1 .. N] /\ \A i \in 1 .. n : b[i] = v[c[i]]
  <2>1. \A k \in 1 .. N : TemplateMetrics[k] = template.metrics[k]
    BY TableOf
  <2> QED
    BY <1>4, <2>1
<1>7. M \in Decimal /\ Leq(Zero, M)
  BY DEF EngineInv
<1> HIDE DEF v, p, M, N, c, b, total
<1>10. Leq(Total(b), Total(v)) /\ Total(v) \in Decimal
  <2>1. v \in [1 .. N -> Decimal] /\ N \in Nat /\ (\A j \in 1 .. N : Leq(Zero, v[j]))
        /\ c \in [1 .. n -> 1 .. N]
    BY <1>5, <1>6
  <2>2. \A i \in 1 .. n : b[i] = v[c[i]]
    BY <1>6
  <2> QED
    BY <1>1, <1>4, <2>1, <2>2, SelectionTotal, TotalClosed
<1>12. Leq(Total(v), Plus(M, s))
  BY <1>5, <1>7, MetricsShare
<1>13. h \in Decimal /\ s \in Decimal
  <2>1. 1 + N \in Int BY <1>5
  <2>2. Frac(1, 200) \in Decimal /\ Frac(1 + N, 20000) \in Decimal BY <2>1, SmallParts
  <2> QED BY <1>7, <2>2, Closed
<1> HIDE DEF h, s
<1> DEFINE R == Total(b)
<1>17. R \in Decimal /\ Leq(total, Plus(R, h)) /\ total \in Decimal
  BY <1>1
<1>18. Leq(R, Plus(M, s)) /\ Plus(M, s) \in Decimal
  <2>1. Plus(M, s) \in Decimal
    BY <1>7, <1>13, Closed
  <2> QED
    BY <1>10, <1>12, <1>17, <2>1, LeqOrders
<1> HIDE DEF R
<1>19. Leq(Plus(R, h), Plus(Plus(M, s), h))
  BY <1>13, <1>17, <1>18, PlusMonotone, LeqOrders
<1>20. Leq(Plus(Plus(M, s), h), Plus(M, Plus(h, s)))
  BY <1>7, <1>13, AnyGrouping
<1>21. /\ Plus(R, h) \in Decimal /\ Plus(Plus(M, s), h) \in Decimal /\ Plus(M, Plus(h, s)) \in Decimal
  BY <1>7, <1>13, <1>17, <1>18, Closed
<1>22. Leq(total, Plus(M, Plus(h, s)))
  BY <1>17, <1>19, <1>20, <1>21, LeqOrders
<1>23. Slack' = Plus(h, s) /\ template'.maximum = M
  BY <1>5 DEF Slack, h, s, M
<1> QED
  BY <1>22, <1>23

-----------------------------------------------------------------------------
(* The theorems.                                                           *)

(* The steps there are: templates are posted, an instance is submitted, or *)
(* nothing happens.  The salary of a submission without one is of zeros.   *)
Storing ==
  /\ reply = "created" /\ UNCHANGED <<posted, template, others>>
  /\ \E n \in Nat, salary \in SalaryFields : \E inputs \in [1 .. n -> InputFields] :
       Known(inputs) /\ StoreInstance(inputs, salary)

Refusing ==
  /\ reply = "created" /\ reply' = "unknown_metric"
  /\ UNCHANGED <<posted, submitted, template, others, instance>>

LEMMA EngineSteps ==
  ASSUME EngineInv, [Next]_vars
  PROVE  \/ reply = "none" /\ \E metrics \in OtherInputs : CreateOther(metrics)
         \/ reply = "none" /\ \E metrics \in MetricInputs, maximum \in Maximum : CreateTemplate(metrics, maximum)
         \/ Storing
         \/ Refusing
         \/ UNCHANGED vars
<1>1. ASSUME reply = "created", Len(TemplateMetrics) \in DOMAIN Bodies,
             NEW inputs \in Bodies[Len(TemplateMetrics)], CreateInstance(inputs)
      PROVE  Storing \/ Refusing
  <2>1. inputs \in Seq(InputFields)
    BY <1>1, EngineAssumption DEF InputFields
  <2>2. Len(inputs) \in Nat /\ inputs \in [1 .. Len(inputs) -> InputFields]
    BY <2>1
  <2>3. NoSalary \in SalaryFields
    BY WithZero DEF NoSalary, SalaryFields
  <2>4. CASE Known(inputs)
    BY <1>1, <2>2, <2>3, <2>4 DEF CreateInstance, Known, Storing
  <2>5. CASE ~ Known(inputs)
    BY <1>1, <2>5 DEF CreateInstance, Known, Refusing
  <2> QED
    BY <2>4, <2>5
<1>2. ASSUME reply = "created", NEW salary \in Salary, CreateInstanceFromBot(salary)
      PROVE  Storing
  <2>1. <<>> \in [1 .. 0 -> InputFields] /\ 0 \in Nat /\ Known(<<>>)
    BY DEF Known
  <2>2. salary \in SalaryFields
    BY EngineAssumption DEF SalaryFields
  <2> QED
    BY <1>2, <2>1, <2>2 DEF CreateInstanceFromBot, Storing
<1> QED
  BY <1>1, <1>2 DEF Next

(* Templates and instances of any formulas, plans, facts and salaries keep *)
(* the invariant (app/api/kpi.py:34-69, app/services/kpi_engine.py).       *)
THEOREM Engine == Spec => []EngineInv
<1>1. Init => EngineInv
  BY DEF Init, EngineInv, AcceptedIsNeverInvalid, RegularFormulasPay
<1>2. EngineInv /\ [Next]_vars => EngineInv'
  <2> SUFFICES ASSUME EngineInv, [Next]_vars PROVE EngineInv'
    OBVIOUS
  <2>1. CASE UNCHANGED vars
    BY <2>1 DEF vars, EngineInv, AcceptedIsNeverInvalid, RegularFormulasPay, TooHeavy
  <2> QED
    BY <2>1, EngineSteps, CreateOtherStep, CreateTemplateStep, StoreStep, RefusedStep DEF Storing, Refusing
<1> QED
  BY <1>1, <1>2, PTL DEF Spec

(* A formula that a template was created with is never refused as invalid  *)
(* when an instance is submitted, whatever the formula, the plan and the   *)
(* facts (app/services/kpi_engine.py:79-87, 123-129).                      *)
THEOREM NeverRefusedLater == Spec => []AcceptedIsNeverInvalid
<1>1. EngineInv => AcceptedIsNeverInvalid
  BY DEF EngineInv
<1> QED
  BY <1>1, Engine, PTL

(* A formula of calls as they are meant, without remainders and powers, is *)
(* accepted and has a value for all plans and facts, 0 included            *)
(* (app/services/kpi_engine.py:50).                                        *)
THEOREM RegularAlwaysPay == Spec => []RegularFormulasPay
<1>1. EngineInv => RegularFormulasPay
  BY DEF EngineInv
<1> QED
  BY <1>1, Engine, PTL

(* Every amount, weight and plan that is stored has the places of its      *)
(* column (app/models/entities.py:115, 130-131, 151-152, 169).             *)
THEOREM EngineTypes == Spec => []TypeOK
<1>0. TypeOK <=> /\ reply \in Reply
                 /\ template # NoTemplate => HasPlaces(template.maximum, 100)
                 /\ \A i \in DOMAIN TemplateMetrics :
                      /\ HasPlaces(TemplateMetrics[i].weight, 100)
                      /\ HasPlaces(TemplateMetrics[i].plan, 10000)
                 /\ instance # NoInstance => ColumnsHold(instance)
  BY DEF TypeOK, ColumnsHold
<1> DEFINE Placed(s) == \A i \in DOMAIN s : HasPlaces(s[i].weight, 100) /\ HasPlaces(s[i].plan, 10000)
           PlacesInv ==
             /\ reply \in Reply
             /\ template # NoTemplate => HasPlaces(template.maximum, 100)
             /\ Placed(template.metrics) /\ Placed(others)
             /\ template.metrics \in Seq(Sound) /\ others \in Seq(Sound)
             /\ instance # NoInstance => ColumnsHold(instance)
<1>1. Init => PlacesInv
  BY DEF Init, NoTemplate, Reply
<1>2. EngineInv /\ PlacesInv /\ [Next]_vars => PlacesInv'
  <2> SUFFICES ASSUME EngineInv, PlacesInv, [Next]_vars PROVE PlacesInv'
    OBVIOUS
  <2>1. ASSUME NEW metrics \in MetricInputs \cup OtherInputs, AllGood(Validations(metrics))
        PROVE  Placed(StoredMetrics(metrics)) /\ StoredMetrics(metrics) \in Seq(Sound)
    <3>1. StoredMetrics(metrics) \in Seq(Sound) /\ metrics \in Seq(PostedMetric)
      BY <2>1, AcceptedSound, EngineAssumption
    <3>2. \A i \in DOMAIN metrics : /\ HasPlaces(StoredMetric(metrics[i]).weight, 100)
                                    /\ HasPlaces(StoredMetric(metrics[i]).plan, 10000)
      BY <3>1, MetricsPosted
    <3> QED
      BY <3>1, <3>2 DEF StoredMetrics
  <2> HIDE DEF Placed
  <2>2. ASSUME reply = "none", NEW metrics \in OtherInputs, CreateOther(metrics)
        PROVE  PlacesInv'
    <3>1. others' = StoredMetrics(metrics) /\ AllGood(Validations(metrics))
          /\ UNCHANGED <<template, instance, reply>>
      BY <2>2 DEF CreateOther
    <3>2. Placed(others') /\ others' \in Seq(Sound)
      BY <2>1, <3>1
    <3> QED
      BY <3>1, <3>2 DEF Placed
  <2>3. ASSUME reply = "none", NEW metrics \in MetricInputs, NEW maximum \in Maximum,
               CreateTemplate(metrics, maximum)
        PROVE  PlacesInv'
    <3>1. instance = NoInstance /\ UNCHANGED <<others, instance>> /\ reply' \in Reply
      BY <2>3 DEF EngineInv, CreateTemplate, Reply
    <3>2. CASE template' = template
      BY <3>1, <3>2 DEF Placed
    <3>3. CASE AllGood(Validations(metrics))
               /\ template' = [metrics |-> StoredMetrics(metrics), maximum |-> Store(maximum)]
      <4>1. HasPlaces(template'.maximum, 100)
        BY <3>3, EngineAssumption, StoredAmount DEF HasPlaces
      <4>2. Placed(template'.metrics) /\ template'.metrics \in Seq(Sound)
        BY <2>1, <3>3
      <4> QED
        BY <3>1, <4>1, <4>2 DEF Placed
    <3> QED
      BY <2>3, <3>2, <3>3 DEF CreateTemplate
  <2>4. ASSUME Storing PROVE PlacesInv'
    <3>1. PICK n \in Nat, salary \in SalaryFields : \E inputs \in [1 .. n -> InputFields] :
            Known(inputs) /\ StoreInstance(inputs, salary)
      BY <2>4 DEF Storing
    <3>2. PICK inputs \in [1 .. n -> InputFields] : Known(inputs) /\ StoreInstance(inputs, salary)
      BY <3>1
    <3>3. reply' \in Reply /\ UNCHANGED <<template, others>>
      BY <2>4, <3>2 DEF StoreInstance, Reply, Storing
    <3>4. instance' # NoInstance => ColumnsHold(instance')
      BY <2>4, <3>2, StoreStep, AmountsStored DEF Storing
    <3> QED
      BY <3>3, <3>4 DEF Placed
  <2>5. ASSUME Refusing PROVE PlacesInv'
    BY <2>5, RefusedStep DEF Refusing, Reply, Placed
  <2>6. CASE UNCHANGED vars
    BY <2>6 DEF vars, Placed, ColumnsHold
  <2> QED
    BY <2>2, <2>3, <2>4, <2>5, <2>6, EngineSteps
<1>3. PlacesInv => TypeOK
  <2> SUFFICES ASSUME PlacesInv PROVE TypeOK
    OBVIOUS
  <2>1. ASSUME NEW i \in DOMAIN TemplateMetrics
        PROVE  \/ i \in DOMAIN template.metrics /\ TemplateMetrics[i] = template.metrics[i]
               \/ \E j \in DOMAIN others : TemplateMetrics[i] = others[j]
    <3> DEFINE T == template.metrics
    <3>1. T \in Seq(Sound) /\ others \in Seq(Sound) /\ TemplateMetrics = T \o others
      BY DEF TemplateMetrics
    <3> HIDE DEF T
    <3>2. i \in 1 .. (Len(T) + Len(others)) /\ Len(T) \in Nat /\ Len(others) \in Nat
      BY <2>1, <3>1
    <3>3. CASE i \in 1 .. Len(T)
      BY <3>1, <3>3 DEF T
    <3>4. CASE i \in Len(T) + 1 .. Len(T) + Len(others)
      BY <3>1, <3>4
    <3> QED
      BY <3>2, <3>3, <3>4
  <2> QED
    BY <1>0, <2>1
<1> HIDE DEF PlacesInv
<1> QED
  BY <1>1, <1>2, <1>3, Engine, PTL DEF Spec

(* The stored total is the sum of the amounts as they are stored, but for  *)
(* what rounding each of them to its column loses: nothing is left out,    *)
(* and nothing counted twice (app/services/kpi_engine.py:113-141,          *)
(* app/models/entities.py:147-152, 168-170).                               *)
THEOREM NothingLost == Spec => []StoredAmountsAddUp
<1>1. Init => StoredAmountsAddUp
  BY DEF Init, StoredAmountsAddUp
<1>2. EngineInv /\ StoredAmountsAddUp /\ [Next]_vars => StoredAmountsAddUp'
  <2> SUFFICES ASSUME EngineInv, StoredAmountsAddUp, [Next]_vars PROVE StoredAmountsAddUp'
    OBVIOUS
  <2>1. instance' = NoInstance => StoredAmountsAddUp'
    BY DEF StoredAmountsAddUp
  <2>2. ASSUME reply = "none", instance' = instance PROVE StoredAmountsAddUp'
    BY <2>1, <2>2 DEF EngineInv
  <2>3. ASSUME Storing PROVE StoredAmountsAddUp'
    BY <2>1, <2>3, StoreStep, AmountsStored DEF Storing
  <2>4. CASE Refusing
    BY <2>1, <2>4, RefusedStep DEF Refusing
  <2>5. CASE UNCHANGED vars
    BY <2>5 DEF vars, StoredAmountsAddUp
  <2> QED
    BY <2>2, <2>3, <2>4, <2>5, EngineSteps DEF CreateOther, CreateTemplate
<1> QED
  BY <1>1, <1>2, Engine, PTL DEF Spec

(* Whatever the weights that were accepted, the plans and the facts, an    *)
(* instance within its plan is paid the shares of the metrics it names and *)
(* no more; and where these are metrics of its template, each named once,  *)
(* no more than the template's maximum, but for what rounding adds to the  *)
(* weights and to the total (app/api/kpi.py:40-42,                         *)
(* app/services/kpi_engine.py:113-141).                                    *)
THEOREM NoMoreThanTheMaximum == Spec => []MaximumHolds
<1>1. Init => MaximumHolds
  BY DEF Init, MaximumHolds
<1>2. EngineInv /\ MaximumHolds /\ [Next]_vars => MaximumHolds'
  <2> SUFFICES ASSUME EngineInv, MaximumHolds, [Next]_vars PROVE MaximumHolds'
    OBVIOUS
  <2>1. instance' = NoInstance => MaximumHolds'
    BY DEF MaximumHolds
  <2>2. ASSUME reply = "none", instance' = instance PROVE MaximumHolds'
    BY <2>1, <2>2 DEF EngineInv
  <2>3. ASSUME Storing PROVE MaximumHolds'
    BY <2>1, <2>3, StoreStep, StoredWithinMaximum DEF Storing
  <2>4. CASE Refusing
    BY <2>1, <2>4, RefusedStep DEF Refusing
  <2>5. CASE UNCHANGED vars
    <3>1. /\ WithinPlan' <=> WithinPlan
          /\ OwnMetricsOnce' <=> OwnMetricsOnce
          /\ Slack' = Slack
      BY <2>5 DEF vars, WithinPlan, OwnMetricsOnce, Slack, TemplateMetrics
    <3>2. SubmittedShares' = SubmittedShares
      BY <2>5 DEF vars, SubmittedShares, TemplateMetrics, MaxMetricAmount
    <3> QED
      BY <2>5, <3>1, <3>2 DEF vars, MaximumHolds
  <2> QED
    BY <2>2, <2>3, <2>4, <2>5, EngineSteps DEF CreateOther, CreateTemplate
<1> QED
  BY <1>1, <1>2, Engine, PTL DEF Spec
=============================================================================
