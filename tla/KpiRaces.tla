------------------------------ MODULE KpiRaces ------------------------------
(***************************************************************************)
(* KpiInstances observed: which edits of an instance have overlapped.  The *)
(* observer steers nothing.  It lets the properties say of every schedule  *)
(* which overlap can break what, and that nothing else can: each property  *)
(* excepts the one pair of edits that breaks it, and no other.             *)
(***************************************************************************)
EXTENDS KpiInstances

VARIABLE raced   (* the edits of one instance, or of one key, that were    *)
                 (* under way at the same time                             *)

rvars == <<inst, metric, dispute, history, log, outbox, body, pc, ses, reply, raced>>

(* A session edits an instance from the SELECT that gave it the row, or    *)
(* found none, to its end.                                                 *)
Editing(r) ==
  pc[r] \in {"collection", "update", "delete", "insert", "calculate",
             "approve", "notify", "commit"} /\ body[r].op # "dispute"

Edit(r) == IF ses[r].id \in DOMAIN inst THEN body[r].op ELSE "insert"

Edits == {"insert", "create", "finalize"}

Overlap(q, r) ==
  /\ q # r /\ Editing(q) /\ Editing(r)
  /\ \/ ses[q].id = ses[r].id
     \/ Edit(q) = "insert" /\ Edit(r) = "insert" /\ ses[q].obj.key = ses[r].obj.key

Overlapping ==
  {[id |-> ses[p[1]].id, edits |-> {Edit(p[1]), Edit(p[2])}] :
     p \in {p \in Request \X Request : Overlap(p[1], p[2])}}

RInit == Init /\ raced = {}

RNext == Next /\ raced' = raced \cup Overlapping'

RSpec == RInit /\ [][RNext]_rvars

Raced(i, edits) == [id |-> i, edits |-> edits] \in raced

-----------------------------------------------------------------------------
(* Two instances share an employee, a month and a template only if the     *)
(* wizard inserted one of them (bot.py:113-125) or two submissions both    *)
(* found no instance and inserted theirs: a submission that comes later    *)
(* finds the one there is (kpi.py:79-84).                                  *)
DuplicatesExplained ==
  \A i, j \in DOMAIN inst : i # j /\ inst[i].key = inst[j].key =>
    \/ "bot" \in {body[i].op, body[j].op}
    \/ Raced(i, {"insert"}) /\ Raced(j, {"insert"})

(* total_amount is what calculate_instance yields for the instance's own   *)
(* columns and metrics ("final total", README.md:93), unless two           *)
(* resubmissions of it overlapped: each has summed a collection that lacks *)
(* the metrics of the other (kpi.py:129-130).  An approval, a dispute or   *)
(* whatever happens to another instance at the same time does no harm.     *)
TotalCurrent ==
  \A i \in DOMAIN inst :
    ~Raced(i, {"create"}) => inst[i].total = Calculate(inst[i].salary, MetricsOf(i))

(* The metrics of an instance come from one submission: a resubmission     *)
(* replaces all of them (kpi.py:114-126), those an overlapping one commits *)
(* after they were deleted excepted.                                       *)
MetricsFromOneSubmission ==
  \A m, n \in metric :
    m.inst = n.inst /\ ~Raced(m.inst, {"create"}) => m.by = n.by

(* Nothing of an approved instance changes ("immutable approved KPIs",     *)
(* README.md:13), unless a submission and a finalization of it overlapped: *)
(* then the one may still write what it loaded before the approval         *)
(* (kpi.py:86, 163).  Afterwards no submission gets hold of it again.      *)
ApprovedUnchanged ==
  [][\A i \in Request : IsApproved(i) /\ ~Raced(i, {"create", "finalize"}) =>
       /\ i \in DOMAIN inst' /\ inst'[i] = inst[i] /\ MetricsOf(i)' = MetricsOf(i)
       /\ ~Raced(i, {"create", "finalize"})']_rvars

(* "kpi_history stores immutable change snapshots" (README.md:59): the     *)
(* status an entry gives as the one before the change is the one the change *)
(* replaces, unless two finalizations overlapped (kpi.py:185-188).         *)
BeforeStateTrue ==
  [][\A e \in history' \ history :
       e.before # "none" /\ ~Raced(e.id, {"finalize"}) => e.before = inst[e.id].status]_rvars

(* However requests overlap the instances are sheets as KpiSheets has them: *)
(* replaced as a whole and frozen by the approval where no submission      *)
(* overlapped with another edit.                                           *)
SheetOf(i) ==
  [key |-> inst[i].key, period |-> inst[i].period, salary |-> inst[i].salary,
   inputs |-> {m.input : m \in MetricsOf(i)}, total |-> inst[i].total,
   status |-> inst[i].status]

RacedSheets == {o.id : o \in {e \in raced : "create" \in e.edits}}

Sheets == INSTANCE KpiSheets
            WITH Sheet <- Request, sheet <- [i \in DOMAIN inst |-> SheetOf(i)],
                 raced <- RacedSheets, Amount <- Total

ImplementsSheets == Sheets!Spec

-----------------------------------------------------------------------------
(* The inductive invariant behind these properties.                        *)

(* The metrics a submission leaves its instance with.                      *)
Submitted(r) == {[inst |-> ses[r].id, by |-> r, input |-> f] : f \in body[r].inputs}

(* The statements a submission is past.                                    *)
Updated(r)    == pc[r] \notin {"collection", "update"}
Deleted(r)    == Updated(r) /\ pc[r] # "delete"
Refreshed(r)  == Deleted(r) /\ pc[r] # "insert"
Summed(r)     == pc[r] \in {"notify", "commit"}

(* What a submission holds, whatever the others do: rows and metrics of its *)
(* own instance, and the total of the metrics it knows.                    *)
HoldingOf(r) ==
  /\ ses[r].obj.key = body[r].key
  /\ ses[r].id \in DOMAIN inst => inst[ses[r].id].key = body[r].key
  /\ \A m \in ses[r].metrics \cup ses[r].del : m.inst = ses[r].id
  /\ Updated(r) => ses[r].obj.period = body[r].period /\ ses[r].obj.salary = body[r].salary
  /\ Summed(r) => /\ ~body[r].salaried
                  /\ ses[r].obj.total = Calculate(ses[r].obj.salary, ses[r].metrics)

(* With no other submission at the instance, what it has not written is    *)
(* what is committed, and statement by statement its session comes to hold *)
(* what it will commit.                                                    *)
AloneOf(r) ==
  /\ ses[r].id \in DOMAIN inst =>
       \A c \in Column \ (ses[r].dirty \cup {"status"}) : ses[r].obj[c] = inst[ses[r].id][c]
  /\ pc[r] \in {"update", "delete"} => ses[r].metrics = MetricsOf(ses[r].id)
  /\ Deleted(r)   => ses[r].del = MetricsOf(ses[r].id)
  /\ Refreshed(r) => ses[r].metrics = Submitted(r) /\ ses[r].ins = Submitted(r)

(* Where it inserts, the rows that have its key by now are the wizard's or *)
(* those of submissions it overlapped with.                                *)
InsertionOf(r) ==
  ses[r].id \notin DOMAIN inst =>
    \A i \in Matches(r) :
      body[i].op = "bot" \/ (Raced(i, {"insert"}) /\ Raced(r, {"insert"}))

SubmissionOf(r) ==
  body[r].op = "create" /\ Editing(r) =>
    /\ HoldingOf(r) /\ InsertionOf(r)
    /\ ~Raced(ses[r].id, {"create"}) => AloneOf(r)
    /\ ses[r].id \in DOMAIN inst /\ ~Raced(ses[r].id, {"create", "finalize"}) =>
         inst[ses[r].id].status = "submitted"

(* A finalization finds its instance submitted, and with no other at it so *)
(* it stays until it commits.  What its audit entry gives as the status    *)
(* before is that.                                                         *)
FinalizationOf(r) ==
  body[r].op = "finalize" /\ Editing(r) =>
    /\ ~Raced(ses[r].id, {"finalize"}) => inst[ses[r].id].status = "submitted"
    /\ \A e \in ses[r].history : e.before = "submitted"

(* Only a submission deletes metrics, and only a finalization gives a      *)
(* status before its change.                                               *)
ChangesOf(r) ==
  /\ ses[r].del # {} => body[r].op = "create"
  /\ body[r].op # "finalize" => \A e \in ses[r].history : e.before = "none"

(* The observer has seen what overlaps, and nothing of rows that do not    *)
(* exist but that they were being inserted.                                *)
Observed ==
  /\ raced \subseteq [id : Request, edits : SUBSET Edits] /\ Overlapping \subseteq raced
  /\ \A o \in raced : o.edits # {"insert"} => o.id \in DOMAIN inst

RaceInv ==
  /\ Observed
  /\ \A r \in Request : SubmissionOf(r) /\ FinalizationOf(r) /\ ChangesOf(r)
  /\ DuplicatesExplained /\ TotalCurrent /\ MetricsFromOneSubmission
=============================================================================
