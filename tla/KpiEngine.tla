------------------------------ MODULE KpiEngine ------------------------------
(***************************************************************************)
(* What a template is worth to the instances filled in for it: the weight  *)
(* check and the validation of create_template, and the calculation that a *)
(* submission to app/api/kpi.py and a message to the bot make and store.   *)
(* Each handler is one action, for none of them reads what another changes *)
(* (KpiInstances has the submissions of one instance, step by step).       *)
(***************************************************************************)
EXTENDS Formulas

CONSTANTS
  MetricInputs, (* the metrics of each template that may be posted: a      *)
                (* sequence of weights, plans and formulas                 *)
  OtherInputs,  (* those of the templates that may have been posted before *)
  Maximum,      (* the amounts max_total_amount of posted templates        *)
  Bodies,       (* the metrics of the submissions that may be made, by the *)
                (* number of template metrics there are: sequences of ids, *)
                (* facts and overtime results                              *)
  Salary        (* the salary fields of a message to the bot               *)

PostedMetric == [weight : Decimal, plan : Decimal, formula : Formula]

ASSUME EngineAssumption ==
  /\ \A metrics \in MetricInputs \cup OtherInputs :
       /\ metrics \in Seq(PostedMetric)
       /\ metrics # <<>>
       /\ \A i \in DOMAIN metrics :
            ~ Leq(metrics[i].weight, Zero) /\ Leq(metrics[i].weight, Whole(100))
  /\ Maximum \subseteq Decimal /\ \A a \in Maximum : ~ Leq(a, Zero)
  /\ \A n \in DOMAIN Bodies :
       Bodies[n] \subseteq Seq([metric : Int, fact : Decimal, overtime : Decimal])
  /\ Salary \subseteq [base : Decimal, share : Decimal, x1 : Decimal, x2 : Decimal]

VARIABLES
  posted,    (* the metrics of the template that was posted                *)
  submitted, (* the metrics and the salary the instance was submitted with *)
  template,  (* the template as the tables hold it                         *)
  others,    (* the metrics of another template, as the tables hold them   *)
  instance,  (* the amounts of the instance and of its metrics as stored   *)
  reply      (* the answer to the last request                             *)

vars == <<posted, submitted, template, others, instance, reply>>

NoSalary == [base |-> Zero, share |-> Zero, x1 |-> Zero, x2 |-> Zero]

NothingSubmitted == [inputs |-> <<>>, salary |-> NoSalary]
NoTemplate == [metrics |-> <<>>]
NoInstance == [metrics |-> <<>>]
Reply == {"none", "created", "stored", "too_heavy", "invalid_formula", "unknown_metric",
          "formula_error", "internal_error"}

Init ==
  /\ posted = <<>> /\ submitted = NothingSubmitted
  /\ template = NoTemplate /\ others = <<>>
  /\ instance = NoInstance /\ reply = "none"

-----------------------------------------------------------------------------
(* Mutant: every weight is compared on its own.                            *)
TooHeavyAlone(metrics) ==
  \E i \in DOMAIN metrics : ~ Leq(Store(metrics[i].weight), Whole(100))

(* The sum of the weights as posted, rounded half to even to two places.   *)
TooHeavy(metrics) ==
  LET total == Total([i \in DOMAIN metrics |-> metrics[i].weight])
  IN ~ Leq(Divided(Rounded(Times(Whole(100), total)), Whole(100)), Whole(100))

(* Mutant: the first formula is tried, and no other.                       *)
ValidationOfFirst(metrics) == <<Validation(metrics[1].formula)>>

(* What becomes of each formula when it is tried on every symbol at 1.     *)
Validations(metrics) == [i \in DOMAIN metrics |-> Validation(metrics[i].formula)]

StoredMetric(m) ==
  [weight |-> Store(m.weight), plan |-> ToPlaces(m.plan, 10000), formula |-> m.formula]

StoredMetrics(metrics) == [i \in DOMAIN metrics |-> StoredMetric(metrics[i])]

(* create_template                                                         *)
CreateTemplate(metrics, maximum) ==
  /\ posted' = metrics
  /\ UNCHANGED <<submitted, others, instance>>
  /\ LET tried == Validations(metrics) IN
     IF TooHeavy(metrics) THEN reply' = "too_heavy" /\ UNCHANGED template
     ELSE IF ~ AllGood(tried)
     THEN /\ reply' = IF FirstError(tried) = Invalid THEN "invalid_formula"
                                                     ELSE "internal_error"
          /\ UNCHANGED template
     ELSE /\ template' = [metrics |-> StoredMetrics(metrics), maximum |-> Store(maximum)]
          /\ reply' = "created"

(* create_template, for another template, when that was accepted.          *)
CreateOther(metrics) ==
  /\ ~ TooHeavy(metrics) /\ AllGood(Validations(metrics))
  /\ others' = StoredMetrics(metrics)
  /\ UNCHANGED <<posted, submitted, template, instance, reply>>

-----------------------------------------------------------------------------
(* calculate_instance                                                      *)

(* The id of a metric is its place in this table.                          *)
TemplateMetrics == template.metrics \o others

MaxMetricAmount(m) == Times(template.maximum, Divided(m.weight, Whole(100)))

(* Mutant: the plan is left out of the context of the evaluation.          *)
ContextWithoutPlan(m, fact) ==
  [s \in Symbols \ {"plan_value"} |->
     CASE s = "max_total_amount"  -> template.maximum
       [] s = "weight_percent"    -> m.weight
       [] s = "fact_value"        -> fact
       [] s = "max_metric_amount" -> MaxMetricAmount(m)]

Context(m, fact) ==
  [s \in Symbols |->
     CASE s = "max_total_amount"  -> template.maximum
       [] s = "weight_percent"    -> m.weight
       [] s = "plan_value"        -> m.plan
       [] s = "fact_value"        -> fact
       [] s = "max_metric_amount" -> MaxMetricAmount(m)]

(* A metric is calculated by the template metric it names, of whichever   *)
(* template that is.                                                       *)
MetricResult(input) ==
  LET m == TemplateMetrics[input.metric] IN EvaluateFormula(m.formula, Context(m, input.fact))

(* The settings: 160 working hours a month, overtime paid once and twice.  *)
SalaryKpi(s) == Times(s.base, Divided(s.share, Whole(100)))
OvertimeAmount(s) == Times(Plus(s.x1, Times(Whole(2), s.x2)), Divided(s.base, Whole(160)))

(* Mutant: the overtime results of the metrics are not added.              *)
TotalOfResults(results, inputs, salary) ==
  Plus(Total(results), Plus(SalaryKpi(salary), OvertimeAmount(salary)))

(* The total is of the amounts as they were posted and computed, not as   *)
(* the columns keep them.                                                  *)
TotalAmount(results, inputs, salary) ==
  Plus(Plus(Total(results), Total([i \in DOMAIN inputs |-> inputs[i].overtime])),
       Plus(SalaryKpi(salary), OvertimeAmount(salary)))

StoredInput(input, result) ==
  [fact |-> ToPlaces(input.fact, 10000), result |-> Store(result), overtime |-> Store(input.overtime)]

StoredSalary(s) ==
  [base |-> Store(s.base), share |-> Store(s.share), x1 |-> Store(s.x1), x2 |-> Store(s.x2)]

(* Calculated in the order of the metrics; the first error ends it, and    *)
(* the transaction with it.                                                *)
StoreInstance(inputs, salary) ==
  LET values  == [i \in DOMAIN inputs |-> MetricResult(inputs[i])]
      results == [i \in DOMAIN inputs |-> values[i].value]
  IN IF ~ AllGood(values)
     THEN /\ reply' = IF FirstError(values) = Invalid THEN "formula_error" ELSE "internal_error"
          /\ UNCHANGED <<submitted, instance>>
     ELSE /\ reply' = "stored"
          /\ submitted' = [inputs |-> inputs, salary |-> salary]
          /\ instance' =
               [metrics  |-> [i \in DOMAIN inputs |-> StoredInput(inputs[i], results[i])],
                salary   |-> StoredSalary(salary),
                overtime |-> Store(OvertimeAmount(salary)),
                total    |-> Store(TotalAmount(results, inputs, salary))]

(* create_kpi_instance.  The foreign key of the inserted metrics asks that *)
(* each names a metric of some template, and nothing asks which, or how    *)
(* often.  Bodies that name a salary field are refused whatever they hold. *)
CreateInstance(inputs) ==
  /\ UNCHANGED <<posted, template, others>>
  /\ IF \A i \in DOMAIN inputs : inputs[i].metric \in DOMAIN TemplateMetrics
     THEN StoreInstance(inputs, NoSalary)
     ELSE reply' = "unknown_metric" /\ UNCHANGED <<submitted, instance>>

(* The message to the bot has a salary and no metrics.                     *)
CreateInstanceFromBot(salary) ==
  /\ UNCHANGED <<posted, template, others>>
  /\ StoreInstance(<<>>, salary)

(* One template and the first instance of it are followed: the amounts of  *)
(* another, or of a resubmission, are calculated from its own inputs only. *)
Next ==
  \/ /\ reply = "none" /\ others = <<>>
     /\ \E metrics \in OtherInputs : CreateOther(metrics)
  \/ /\ reply = "none"
     /\ \E metrics \in MetricInputs, maximum \in Maximum : CreateTemplate(metrics, maximum)
  \/ /\ reply = "created" /\ Len(TemplateMetrics) \in DOMAIN Bodies
     /\ \E inputs \in Bodies[Len(TemplateMetrics)] : CreateInstance(inputs)
  \/ reply = "created" /\ \E salary \in Salary : CreateInstanceFromBot(salary)

Spec == Init /\ [][Next]_vars

-----------------------------------------------------------------------------
(* Every stored amount has the places of its column.                       *)
HasPlaces(x, scale) == scale % x[2] = 0

TypeOK ==
  /\ reply \in Reply
  /\ template # NoTemplate => HasPlaces(template.maximum, 100)
  /\ \A i \in DOMAIN TemplateMetrics :
       /\ HasPlaces(TemplateMetrics[i].weight, 100)
       /\ HasPlaces(TemplateMetrics[i].plan, 10000)
  /\ instance # NoInstance =>
       /\ HasPlaces(instance.total, 100) /\ HasPlaces(instance.overtime, 100)
       /\ \A field \in DOMAIN instance.salary : HasPlaces(instance.salary[field], 100)
       /\ \A i \in DOMAIN instance.metrics :
            /\ HasPlaces(instance.metrics[i].fact, 10000)
            /\ HasPlaces(instance.metrics[i].result, 100)
            /\ HasPlaces(instance.metrics[i].overtime, 100)

(* Validation and evaluation know the same symbols (kpi_engine.py:79-87,   *)
(* 123-129): a formula a template was created with is never refused as     *)
(* invalid when an instance is submitted.                                  *)
AcceptedIsNeverInvalid == reply # "formula_error"

(* A formula is regular if it calls functions as they are meant to be, and *)
(* takes no remainder and no power.                                        *)
RegularNode(n, regular) ==
  CASE n.node = "Name"     -> n.id \in Symbols
    [] n.node = "Constant" -> TRUE
    [] n.node = "BinOp"    ->
         n.op \in {"Add", "Sub", "Mult", "Div"} /\ regular[n.left] /\ regular[n.right]
    [] n.node = "UnaryOp"  -> n.op \in AllowedUnaryOps /\ regular[n.operand]
    [] n.node = "Call"     ->
         /\ n.func.node = "Name" /\ n.func.id \in AllowedFuncs
         /\ IF n.func.id \in {"min", "max"} THEN Len(n.args) >= 2 ELSE Len(n.args) = 1
         /\ \A i \in DOMAIN n.args : regular[n.args[i]]
    [] OTHER               -> FALSE

Regular(formula) ==
  LET regular[n \in Formula] == RegularNode(n, regular) IN regular[formula]

(* Where all formulas are regular, a template is accepted and a submission *)
(* of metrics there are has a result, whatever the plans and the facts     *)
(* are, a plan of 0 included (kpi_engine.py:50).                           *)
RegularFormulasPay ==
  reply \in {"invalid_formula", "formula_error", "internal_error"} =>
    \/ \E i \in DOMAIN posted : ~ Regular(posted[i].formula)
    \/ \E i \in DOMAIN others : ~ Regular(others[i].formula)

(* What the salary part loses, or gains, when it is computed from a salary *)
(* as stored: each factor is half a cent from what was posted.             *)
Magnitude(x) == <<Abs(x[1]), x[2]>>

SalarySlack(s) ==
  Times(Plus(Plus(Magnitude(s.base), Magnitude(s.share)), Frac(1, 200)), Frac(1, 20000))

(* The stored amounts add up, but for what each of them lost to rounding:  *)
(* half a cent for each result and each overtime result, the overtime      *)
(* amount and the total.                                                   *)
StoredAmountsAddUp ==
  instance # NoInstance =>
    LET paid == [i \in DOMAIN instance.metrics |->
                   Plus(instance.metrics[i].result, instance.metrics[i].overtime)]
        sum  == Plus(Total(paid), Plus(SalaryKpi(instance.salary), instance.overtime))
        lost == Plus(Frac(2 * Len(instance.metrics) + 2, 200), SalarySlack(instance.salary))
    IN Leq(Minus(instance.total, sum), lost) /\ Leq(Minus(sum, instance.total), lost)

(* The formula of the README (README.md:51).                               *)
ProportionalFormula ==
  LET Symbol(s) == [node |-> "Name", id |-> s]
      Op(op, a, b) == [node |-> "BinOp", op |-> op, left |-> a, right |-> b]
  IN Op("Mult", Symbol("max_metric_amount"), Op("Div", Symbol("fact_value"), Symbol("plan_value")))

(* The instance has proportional metrics, no fact beyond its plan and no   *)
(* extras: nothing but the results of its metrics.                         *)
WithinPlan ==
  /\ submitted.salary = NoSalary
  /\ \A i \in DOMAIN submitted.inputs :
       LET input == submitted.inputs[i]
           m     == TemplateMetrics[input.metric]
       IN /\ m.formula = ProportionalFormula
          /\ Leq(Zero, input.fact) /\ Leq(input.fact, m.plan)
          /\ input.overtime = Zero

(* The shares of all the metrics that were submitted, one for each mention.*)
SubmittedShares ==
  Total([i \in DOMAIN submitted.inputs |->
           MaxMetricAmount(TemplateMetrics[submitted.inputs[i].metric])])

(* The submission names metrics of its own template, none of them twice.   *)
OwnMetricsOnce ==
  LET named == [i \in DOMAIN submitted.inputs |-> submitted.inputs[i].metric]
  IN IsInjective(named) /\ \A i \in DOMAIN named : named[i] \in DOMAIN template.metrics

(* The most that rounding the total, the posted weights and their sum can  *)
(* add to the maximum amount.                                              *)
Slack == Plus(Frac(1, 200), Times(template.maximum, Frac(1 + Len(template.metrics), 20000)))

(* An employee who meets the plan is paid the shares of the metrics that   *)
(* were submitted and no more, whichever they are.  It is only where these *)
(* are metrics of the template, each named once, that the check of the     *)
(* weights (kpi.py:40-42) keeps that within max_total_amount.              *)
MaximumHolds ==
  instance # NoInstance /\ WithinPlan =>
    /\ Leq(instance.total, Plus(SubmittedShares, Frac(1, 200)))
    /\ OwnMetricsOnce => Leq(instance.total, Plus(template.maximum, Slack))

(* The inductive invariant behind all of these: each formula of a template *)
(* yielded a value when it was tried, the weights were weighed, and both   *)
(* are stored as they were posted; a template has at most one instance.    *)
Sound == {m \in PostedMetric : Leq(Zero, m.weight) /\ ~ IsError(Validation(m.formula))}

EngineInv ==
  /\ reply \in {"none", "created"} => others \in Seq(Sound)
  /\ reply = "none" => template = NoTemplate
  /\ reply = "created" =>
       /\ posted \in Seq(Sound) /\ ~ TooHeavy(posted)
       /\ template.metrics = StoredMetrics(posted)
       /\ template.maximum \in Decimal /\ Leq(Zero, template.maximum)
  /\ instance # NoInstance => reply = "stored"
  /\ AcceptedIsNeverInvalid /\ RegularFormulasPay
=============================================================================
