------------------------------ MODULE Formulas ------------------------------
(***************************************************************************)
(* The formula evaluator of app/services/kpi_engine.py.  A formula is the  *)
(* syntax tree that ast.parse makes of it.  A decimal is an exact fraction *)
(* <<n, d>> in lowest terms, where Decimal keeps 28 digits.                *)
(***************************************************************************)
EXTENDS Integers, SequencesExt

CONSTANT Trees   (* the formulas there are: Trees[k] are nested k deep     *)

Formula == UNION {Trees[k] : k \in DOMAIN Trees}

(* The nodes that a node is visited by way of.                             *)
Parts(n) ==
  CASE n.node = "BinOp"   -> {n.left, n.right}
    [] n.node = "UnaryOp" -> {n.operand}
    [] n.node = "Call"    -> {n.func} \cup {n.args[i] : i \in DOMAIN n.args}
    [] OTHER              -> {}

-----------------------------------------------------------------------------
(* Decimals.                                                               *)
Gcd[p \in Nat \X Nat] == IF p[2] = 0 THEN p[1] ELSE Gcd[<<p[2], p[1] % p[2]>>]

Abs(n) == IF n < 0 THEN -n ELSE n
Sign(n) == IF n < 0 THEN -1 ELSE 1

(* A decimal as a pair of numbers, in lowest terms.                        *)
Decimal == {x \in Int \X (Nat \ {0}) : Gcd[<<Abs(x[1]), x[2]>>] = 1}

(* n/d for any d that is not 0.                                            *)
Frac(n, d) ==
  LET g == Gcd[<<Abs(n), Abs(d)>>] IN <<(Sign(d) * n) \div g, Abs(d) \div g>>
Whole(n)   == <<n, 1>>
Zero       == Whole(0)

Plus(x, y)  == Frac(x[1] * y[2] + y[1] * x[2], x[2] * y[2])
Minus(x, y) == Plus(x, <<-y[1], y[2]>>)
Times(x, y) == Frac(x[1] * y[1], x[2] * y[2])
Divided(x, y) == Frac(x[1] * y[2], x[2] * y[1])
Leq(x, y)   == x[1] * y[2] <= y[1] * x[2]
Total(s)    == FoldLeft(Plus, Zero, s)

(* Rounding half away from zero, as a NUMERIC column does.                 *)
ToPlaces(x, scale) ==
  LET a == Abs(x[1]) * scale IN
  Frac(Sign(x[1]) * ((2 * a + x[2]) \div (2 * x[2])), scale)

(* Mutant: the column keeps every digit.                                   *)
StoreEveryDigit(x) == x

(* NUMERIC(_, 2), the type of every amount and weight.                     *)
Store(x) == ToPlaces(x, 100)

(* Rounding half to even, as round does.                                   *)
Rounded(x) ==
  LET floor == x[1] \div x[2]
      twice == 2 * (x[1] - floor * x[2])
  IN Whole(IF twice > x[2] \/ (twice = x[2] /\ floor % 2 = 1) THEN floor + 1 ELSE floor)

(* The remainder of a Decimal has the sign of the dividend.                *)
Remainder(x, y) ==
  LET q == Divided(x, y)
  IN Minus(x, Times(Whole(Sign(q[1]) * (Abs(q[1]) \div q[2])), y))

(* Trees are finitely deep, and the constants in them are numbers.  Left   *)
(* out are powers but of natural constants, and a number of digits for     *)
(* round that is an integer, which nothing but another call can yield.     *)
ASSUME TreesAssumption ==
  /\ DOMAIN Trees \subseteq Nat
  /\ \A k \in DOMAIN Trees : \A n \in Trees[k] :
       /\ \A p \in Parts(n) : \E j \in DOMAIN Trees : j < k /\ p \in Trees[j]
       /\ n.node = "Call" => n.args \in Seq(Formula)
       /\ n.node = "Constant" => n.value \in Decimal
       /\ n.node = "BinOp" /\ n.op = "Pow" =>
            n.right.node = "Constant" /\ n.right.value \in Nat \X {1}
       /\ n.node = "Call" /\ n.func = [node |-> "Name", id |-> "round"] /\ Len(n.args) = 2 =>
            n.args[2].node # "Call"

-----------------------------------------------------------------------------
(* The evaluator.  Visiting a node gives a decimal, a function, or an      *)
(* exception: a FormulaValidationError or any other.                       *)
Value(x)    == [kind |-> "decimal", value |-> x]
Function(f) == [kind |-> "function", name |-> f]
Invalid     == [kind |-> "FormulaValidationError"]
Raised      == [kind |-> "exception"]
IsDecimal(v) == v.kind = "decimal"
IsError(v)   == v.kind \in {"FormulaValidationError", "exception"}

AllowedFuncs    == {"min", "max", "round", "Decimal"}
AllowedBinOps   == {"Add", "Sub", "Mult", "Div", "Pow", "Mod"}
AllowedUnaryOps == {"UAdd", "USub"}

(* Decimal(str(v)): the text of a function is no decimal.                  *)
AsDecimal(v) == IF v.kind = "function" THEN Raised ELSE v

AllGood(s)    == \A i \in DOMAIN s : ~ IsError(s[i])
FirstError(s) == s[SelectInSeq(s, IsError)]

(* Mutant: a division by zero raises.                                      *)
RaisingQuotient(x, y) == IF y = Zero THEN Raised ELSE Value(Divided(x, y))

Quotient(x, y) == IF y = Zero THEN Value(Zero) ELSE Value(Divided(x, y))

(* 0 ** 0 is undefined.                                                    *)
Power(x, n) ==
  IF x = Zero /\ n = 0 THEN Raised
  ELSE Value(FoldLeft(Times, Whole(1), [i \in 1..n |-> x]))

Operate(op, x, y) ==
  CASE op = "Add"  -> Value(Plus(x, y))
    [] op = "Sub"  -> Value(Minus(x, y))
    [] op = "Mult" -> Value(Times(x, y))
    [] op = "Div"  -> Quotient(x, y)
    [] op = "Pow"  -> Power(x, y[1])
    [] op = "Mod"  -> IF y = Zero THEN Raised ELSE Value(Remainder(x, y))

VisitName(id, context) ==
  IF id \in DOMAIN context THEN Value(context[id])
  ELSE IF id \in AllowedFuncs THEN Function(id) ELSE Invalid

VisitBinOp(op, left, right) ==
  LET operands == <<AsDecimal(left), AsDecimal(right)>>
  IN IF op \notin AllowedBinOps THEN Invalid
     ELSE IF ~ AllGood(operands) THEN FirstError(operands)
     ELSE Operate(op, left.value, right.value)

VisitUnaryOp(op, operand) ==
  IF op \notin AllowedUnaryOps THEN Invalid
  ELSE IF ~ IsDecimal(operand) THEN AsDecimal(operand)
  ELSE IF op = "UAdd" THEN operand ELSE Value(Minus(Zero, operand.value))

(* Python's own functions, called on decimals: min and max compare at least *)
(* two, round takes no Decimal for its number of digits.                   *)
Apply(f, args) ==
  LET amounts == {args[i].value : i \in DOMAIN args}
  IN IF \E i \in DOMAIN args : ~ IsDecimal(args[i]) THEN Raised
     ELSE CASE f = "Decimal" /\ args = <<>>   -> Value(Zero)
            [] f = "Decimal" /\ Len(args) = 1 -> args[1]
            [] f = "round" /\ Len(args) = 1   -> Value(Rounded(args[1].value))
            [] f = "min" /\ Len(args) > 1     ->
                 Value(CHOOSE x \in amounts : \A y \in amounts : Leq(x, y))
            [] f = "max" /\ Len(args) > 1     ->
                 Value(CHOOSE x \in amounts : \A y \in amounts : Leq(y, x))
            [] OTHER                          -> Raised

VisitCall(func, args) ==
  LET visited == <<func>> \o args
  IN IF ~ AllGood(visited) THEN FirstError(visited)
     ELSE IF func.kind # "function" THEN Invalid
     ELSE Apply(func.name, args)

(* Any node without a visitor of its own is disallowed.                    *)
VisitNode(n, visit, context) ==
  CASE n.node = "Name"     -> VisitName(n.id, context)
    [] n.node = "Constant" -> Value(n.value)
    [] n.node = "BinOp"    -> VisitBinOp(n.op, visit[n.left], visit[n.right])
    [] n.node = "UnaryOp"  -> VisitUnaryOp(n.op, visit[n.operand])
    [] n.node = "Call"     ->
         VisitCall(visit[n.func], [i \in DOMAIN n.args |-> visit[n.args[i]]])
    [] OTHER               -> Invalid

Visit(formula, context) ==
  LET visit[n \in Formula] == VisitNode(n, visit, context) IN visit[formula]

Symbols == {"max_total_amount", "weight_percent", "plan_value", "fact_value", "max_metric_amount"}

(* validate_formula tries the formula with every symbol at 1, and looks at *)
(* nothing but whether that raises.                                        *)
Validation(formula) == Visit(formula, [s \in Symbols |-> Whole(1)])

EvaluateFormula(formula, context) == AsDecimal(Visit(formula, context))
=============================================================================
