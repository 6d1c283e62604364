------------------------------ MODULE KpiSheets ------------------------------
(***************************************************************************)
(* What the service keeps to, however requests overlap: an instance is a   *)
(* sheet that a submission fills in or replaces as a whole, with the total *)
(* that follows from it, until an approval freezes it.  The exception is a *)
(* sheet on which a submission overlapped with another edit: from then on  *)
(* only its key and its approval are safe.                                 *)
(***************************************************************************)
EXTENDS Integers, FiniteSetsExt

CONSTANTS
  Sheet,      (* names of sheets                                           *)
  KpiKey,     (* (employee_id, month, template_id) triples                 *)
  Period,     (* (period_start, period_end) pairs                          *)
  Salary,     (* base salary with its share and overtime, as one amount    *)
  MetricInput,(* metric inputs                                             *)
  Score,      (* what the template's formula yields for a metric input     *)
  Amount      (* the totals a raced sheet may end up with                  *)

VARIABLES
  sheet,      (* the sheets there are: name -> contents                    *)
  raced       (* the names of those on which edits have overlapped         *)

contents == <<sheet, raced>>

Worth(salary, inputs) == salary + MapThenSumSet(LAMBDA f : Score[f], inputs)

Filled(key, period, salary, inputs) ==
  [key |-> key, period |-> period, salary |-> salary, inputs |-> inputs,
   total |-> Worth(salary, inputs), status |-> "submitted"]

Put(i, row) ==
  sheet' = [j \in DOMAIN sheet \cup {i} |-> IF j = i THEN row ELSE sheet[j]]

Frozen(i) == i \in DOMAIN sheet \ raced /\ sheet[i].status = "approved"

Init == sheet = [i \in {} |-> Filled(i, i, i, i)] /\ raced = {}

(* The API fills in a new sheet with metrics and without a salary.         *)
Enter(i, key, period, inputs) ==
  /\ i \notin DOMAIN sheet
  /\ Put(i, Filled(key, period, 0, inputs))
  /\ UNCHANGED raced

(* The wizard fills in a new sheet without metrics.                        *)
EnterByBot(i, key, period, salary) ==
  /\ i \notin DOMAIN sheet
  /\ Put(i, Filled(key, period, salary, {}))
  /\ UNCHANGED raced

(* Mutant: an approved sheet is replaced too, and so is its status.        *)
ReplaceAny(i, period, inputs) ==
  /\ i \notin raced
  /\ Put(i, Filled(sheet[i].key, period, 0, inputs))
  /\ UNCHANGED raced

(* A later submission replaces all but the key.                            *)
Replace(i, period, inputs) ==
  /\ i \notin raced
  /\ sheet[i].status = "submitted"
  /\ Put(i, Filled(sheet[i].key, period, 0, inputs))
  /\ UNCHANGED raced

Approve(i) ==
  /\ sheet[i].status = "submitted"
  /\ Put(i, [sheet[i] EXCEPT !.status = "approved"])
  /\ UNCHANGED raced

(* A submission overlaps with another edit of sheets that are not frozen.  *)
Overlap(I) ==
  /\ \A i \in I : ~Frozen(i)
  /\ raced' = raced \cup I
  /\ UNCHANGED sheet

(* What a raced sheet may become: old and new metrics, a total that fits   *)
(* neither, and that even after its approval.                              *)
Overwrite(i, period, salary, inputs, total) ==
  /\ i \in raced
  /\ Put(i, [key |-> sheet[i].key, period |-> period, salary |-> salary,
             inputs |-> inputs, total |-> total, status |-> sheet[i].status])
  /\ UNCHANGED raced

Next ==
  \/ \E i \in Sheet \ DOMAIN sheet, k \in KpiKey, p \in Period :
       \/ \E F \in SUBSET MetricInput : Enter(i, k, p, F)
       \/ \E s \in Salary : EnterByBot(i, k, p, s)
  \/ \E i \in DOMAIN sheet :
       \/ Approve(i)
       \/ \E p \in Period, F \in SUBSET MetricInput :
            \/ Replace(i, p, F)
            \/ \E s \in Salary, t \in Amount : Overwrite(i, p, s, F, t)
  \/ \E I \in SUBSET Sheet : Overlap(I)

Spec == Init /\ [][Next]_contents
=============================================================================
