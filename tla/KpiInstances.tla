----------------------------- MODULE KpiInstances -----------------------------
(***************************************************************************)
(* The life of KPI instances under concurrent request handlers:            *)
(* create_kpi_instance, finalize_kpi_instance and create_dispute of        *)
(* app/api/kpi.py and the insert of the Telegram wizard of app/bot/bot.py. *)
(*                                                                         *)
(* Every request runs in one SQLAlchemy session, which is one PostgreSQL   *)
(* transaction at READ COMMITTED.  An action is one statement the handler  *)
(* awaits.  A SELECT reads the committed tables; a flush takes row locks   *)
(* and stays private to the session; COMMIT merges the private writes.     *)
(* SQLAlchemy writes only the columns whose value differs from the one it  *)
(* loaded, so a session carries the object it holds (obj) and the set of   *)
(* columns it has written (dirty).                                         *)
(***************************************************************************)
EXTENDS Integers, FiniteSets, FiniteSetsExt

CONSTANTS
  Request,      (* the requests; each is served at most once               *)
  Operation,    (* the kinds of request that arrive                        *)
  KpiKey,       (* (employee_id, month, template_id) triples               *)
  Period,       (* (period_start, period_end) pairs                        *)
  Salary,       (* base salary with its share and overtime, as one amount  *)
  MetricInput,  (* metric inputs: template metric, fact, overtime result   *)
  Score,        (* what the template's formula yields for a metric input   *)
  Delivery,     (* what notifier.send may report for a request's messages  *)
  Parallel      (* how many requests are served at the same time           *)

ASSUME ConstantsAssumption ==
  /\ IsFiniteSet(Request)
  /\ Operation \subseteq {"create", "finalize", "dispute", "bot"}
  /\ KpiKey # {} /\ Period # {}
  /\ Salary \subseteq Nat /\ 0 \in Salary
  /\ Score \in [MetricInput -> Int]
  /\ Delivery \subseteq SUBSET {"sent", "failed"}
  /\ Parallel \in Nat \ {0}

VARIABLES
  inst,     (* committed kpi_instances: row id -> row                      *)
  metric,   (* committed kpi_instance_metrics                              *)
  dispute,  (* committed kpi_disputes                                      *)
  history,  (* committed kpi_history                                       *)
  log,      (* committed notification_logs                                 *)
  outbox,   (* Telegram messages that left the process                     *)
  body,     (* the request each handler serves                             *)
  pc,       (* the statement each handler awaits next                      *)
  ses,      (* the session of each handler: its objects, uncommitted writes *)
  reply     (* how each request was answered                               *)

db   == <<inst, metric, dispute, history, log>>
vars == <<inst, metric, dispute, history, log, outbox, body, pc, ses, reply>>

-----------------------------------------------------------------------------
(* Rows.  An INSERT draws a fresh id from a sequence; a request inserts at *)
(* most one instance, so the request stands for the id it draws.           *)

KPIStatus == {"draft", "submitted", "disputed", "approved", "archived"}
(* Mutant: approved is left out of the check.                              *)
ClosedWithoutApproved == {"archived"}
Closed    == {"approved", "archived"}
Column    == {"key", "period", "salary", "total", "status"}

MetricRow == [inst : Request, by : Request, input : MetricInput]

(* calculate_instance: the metric results, the salary share and overtime.  *)
Calculate(salary, M) == salary + MapThenSumSet(LAMBDA m : Score[m.input], M)

(* The amounts a row can hold: what some calculation yields, or the default *)
Total == {0} \cup {Calculate(s, M) : s \in Salary, M \in SUBSET MetricRow}

Row == [key : KpiKey, period : Period, salary : Salary, total : Total,
        status : KPIStatus]

Dispute == [by : Request, inst : Request, metric : SUBSET MetricRow]
Action  == {"upsert", "finalize", "dispute", "create_from_bot"}
Entry   == [by : Request, id : Request, action : Action,
            before : KPIStatus \cup {"none"}]
Event   == {"kpi_submitted", "kpi_approved", "kpi_disputed"}
Message == [by : Request, id : Request, event : Event]
Notice  == [message : Message, status : {"sent", "failed"}]

(* salaried: the body names one of the salary fields, which the schema then *)
(* holds as a float; the fields it leaves out keep their int default 0.  A *)
(* body that names them as 0 is refused like any other that names them.    *)
(* own: the approver is the employee of the instance.                      *)
CreateBody   == {b \in [op : {"create"}, key : KpiKey, period : Period,
                        salary : Salary, salaried : BOOLEAN,
                        inputs : {F \in SUBSET MetricInput : IsFiniteSet(F)}] :
                   b.salaried <=> b.salary # 0}
FinalizeBody == [op : {"finalize"}, id : Request, own : BOOLEAN]
DisputeBody  == [op : {"dispute"}, id : Request, metric : SUBSET MetricRow]
BotBody      == [op : {"bot"}, key : KpiKey, period : Period, salary : Salary]
NoBody       == [op |-> "none"]
Body == CreateBody \cup FinalizeBody \cup DisputeBody \cup BotBody \cup {NoBody}

Step  == {"idle", "select", "collection", "update", "delete", "insert",
          "calculate", "get", "approve", "dispute", "bot", "notify",
          "commit", "done"}
Reply == {"pending", "ok", "not_found", "conflict", "multiple_rows",
          "type_error", "integrity", "failed"}

(* A session holds the instance row it works on, the instance's metrics as *)
(* it last loaded them, and its uncommitted writes.                        *)
Session == [id : Request, obj : Row, dirty : SUBSET Column,
            metrics : SUBSET MetricRow, del : SUBSET MetricRow,
            ins : SUBSET MetricRow, dispute : SUBSET Dispute,
            history : SUBSET Entry, log : SUBSET Notice]

NewRow(key, period, salary, status) ==
  [key |-> key, period |-> period, salary |-> salary, total |-> 0,
   status |-> status]

NoSession(r) ==
  [id |-> r, dirty |-> {}, metrics |-> {}, del |-> {}, ins |-> {},
   dispute |-> {}, history |-> {}, log |-> {},
   obj |-> NewRow(CHOOSE k \in KpiKey : TRUE, CHOOSE p \in Period : TRUE,
                  0, "draft")]

Init ==
  /\ inst = [i \in {} |-> NoSession(i).obj]
  /\ metric = {} /\ dispute = {} /\ history = {} /\ log = {} /\ outbox = {}
  /\ body = [r \in Request |-> NoBody]
  /\ pc = [r \in Request |-> "idle"]
  /\ ses = [r \in Request |-> NoSession(r)]
  /\ reply = [r \in Request |-> "pending"]

-----------------------------------------------------------------------------
(* Sessions and row locks.  A lock lasts from the flush that takes it to   *)
(* the end of the transaction, where the session is emptied.               *)

Open(r) == pc[r] \notin {"idle", "done"}

RowHolders(r) ==
  {q \in Request \ {r} : ses[q].id = ses[r].id /\ ses[q].dirty # {}}

(* Mutant: the foreign key takes no lock.                                  *)
ReferencersUnlocked(r, M) == {}

(* DELETE takes the metric rows exclusively; the INSERT of a dispute takes *)
(* a key-share lock on the metric row its foreign key names.               *)
Deleters(r, M) ==
  {q \in Request \ {r} : M \cap metric \cap ses[q].del # {}}
Referencers(r, M) ==
  {q \in Request \ {r} : \E d \in ses[q].dispute : M \cap d.metric # {}}

Goto(r, step) == pc' = [pc EXCEPT ![r] = step]

(* Mutant: the session is not closed, its locks stay.                      *)
AnswerKeepingSession(r, a) ==
  /\ Goto(r, "done")
  /\ reply' = [reply EXCEPT ![r] = a]
  /\ UNCHANGED <<body, outbox, ses>>

(* The end of a request: the session closes, its locks go, the client is   *)
(* answered.  Refuse is the end by an exception, which rolls back.         *)
Answer(r, a) ==
  /\ Goto(r, "done")
  /\ reply' = [reply EXCEPT ![r] = a]
  /\ ses' = [ses EXCEPT ![r] = NoSession(r)]
  /\ UNCHANGED <<body, outbox>>

Refuse(r, a) == Answer(r, a) /\ UNCHANGED db

(* Mutant: an UPDATE writes every column of the object held.               *)
ChangedEvery(r, new) == Column

(* The columns an UPDATE of the held object to new would write.            *)
Changed(r, new) == {c \in Column : new[c] # ses[r].obj[c]}

(* The flush of the held object: no UPDATE when no column changed, else it *)
(* waits for the row lock.  An audit entry added before is flushed with it. *)
Flush(r, new, entries, next) ==
  /\ Changed(r, new) # {} => RowHolders(r) = {}
  /\ ses' = [ses EXCEPT ![r].obj = new, ![r].dirty = @ \cup Changed(r, new),
                        ![r].history = @ \cup entries]
  /\ Goto(r, next)
  /\ UNCHANGED <<db, outbox, body, reply>>

-----------------------------------------------------------------------------
(* A request arrives.  A dispute may name a metric row, of any instance.   *)

Receive(r) ==
  /\ pc[r] = "idle"
  /\ Cardinality({q \in Request : Open(q)}) < Parallel
  /\ \/ \E b \in CreateBody   : body' = [body EXCEPT ![r] = b] /\ Goto(r, "select")
     \/ \E b \in FinalizeBody : body' = [body EXCEPT ![r] = b] /\ Goto(r, "get")
     \/ \E i \in Request, M \in {{}} \cup {{m} : m \in metric} :
          /\ body' = [body EXCEPT ![r] = [op |-> "dispute", id |-> i, metric |-> M]]
          /\ Goto(r, "dispute")
     \/ \E b \in BotBody      : body' = [body EXCEPT ![r] = b] /\ Goto(r, "bot")
  /\ body'[r].op \in Operation
  /\ UNCHANGED <<db, outbox, ses, reply>>

-----------------------------------------------------------------------------
(* create_kpi_instance                                                     *)

(* Mutant: rows are looked up by their period too.                         *)
MatchesPeriod(r) ==
  {i \in DOMAIN inst : inst[i].key = body[r].key /\ inst[i].period = body[r].period}

Matches(r) == {i \in DOMAIN inst : inst[i].key = body[r].key}

(* scalar_one_or_none raises when more than one row has the key.           *)
RejectDuplicates(r) ==
  /\ pc[r] = "select"
  /\ Cardinality(Matches(r)) > 1
  /\ Refuse(r, "multiple_rows")

RejectClosed(r) ==
  /\ pc[r] = "select"
  /\ \E i \in Matches(r) : Matches(r) = {i} /\ inst[i].status \in Closed
  /\ Refuse(r, "conflict")

LoadExisting(r) ==
  /\ pc[r] = "select"
  /\ \E i \in Matches(r) :
       /\ Matches(r) = {i}
       /\ inst[i].status \notin Closed
       /\ ses' = [ses EXCEPT ![r].id = i, ![r].obj = inst[i]]
  /\ Goto(r, "collection")
  /\ UNCHANGED <<db, outbox, body, reply>>

InsertNew(r) ==
  /\ pc[r] = "select"
  /\ Matches(r) = {}
  /\ ses' = [ses EXCEPT
       ![r].obj = NewRow(body[r].key, body[r].period, body[r].salary, "submitted"),
       ![r].dirty = Column]
  /\ Goto(r, "insert")
  /\ UNCHANGED <<db, outbox, body, reply>>

(* selectinload fetches the metrics in a statement of its own.             *)
LoadMetrics(r) ==
  /\ pc[r] = "collection"
  /\ ses' = [ses EXCEPT ![r].metrics = {m \in metric : m.inst = ses[r].id}]
  /\ Goto(r, "update")
  /\ UNCHANGED <<db, outbox, body, reply>>

(* Mutants: the salary is forgotten; the status is reset to its default.   *)
ResubmittedKeepingSalary(r) ==
  [ses[r].obj EXCEPT !.period = body[r].period, !.status = "submitted"]

ResubmittedAsDraft(r) ==
  [ses[r].obj EXCEPT !.period = body[r].period, !.salary = body[r].salary,
                     !.status = "draft"]

Resubmitted(r) ==
  [ses[r].obj EXCEPT !.period = body[r].period, !.salary = body[r].salary,
                     !.status = "submitted"]

UpdateExisting(r) == pc[r] = "update" /\ Flush(r, Resubmitted(r), {}, "delete")

(* Mutant: the old metrics stay.                                           *)
DeleteNothing(r) ==
  /\ pc[r] = "delete"
  /\ Goto(r, "insert")
  /\ UNCHANGED <<db, outbox, body, ses, reply>>

DeleteMetrics(r) ==
  /\ pc[r] = "delete"
  /\ Deleters(r, ses[r].metrics) = {} /\ Referencers(r, ses[r].metrics) = {}
  /\ \A d \in dispute : d.metric \cap ses[r].metrics = {}
  /\ ses' = [ses EXCEPT ![r].del = ses[r].metrics]
  /\ Goto(r, "insert")
  /\ UNCHANGED <<db, outbox, body, reply>>

(* A dispute that references an old metric makes the DELETE fail.          *)
DeleteDisputed(r) ==
  /\ pc[r] = "delete"
  /\ Deleters(r, ses[r].metrics) = {} /\ Referencers(r, ses[r].metrics) = {}
  /\ \E d \in dispute : d.metric \cap ses[r].metrics # {}
  /\ Refuse(r, "integrity")

(* Mutant: the collection is not refreshed, the old metrics are summed.    *)
InsertMetricsUnrefreshed(r) ==
  /\ pc[r] = "insert"
  /\ ses' = [ses EXCEPT ![r].ins =
       {[inst |-> ses[r].id, by |-> r, input |-> f] : f \in body[r].inputs}]
  /\ Goto(r, "calculate")
  /\ UNCHANGED <<db, outbox, body, reply>>

(* The new metrics are inserted, then refresh reloads the collection: what *)
(* others have committed by now and what this session wrote.               *)
InsertMetrics(r) ==
  /\ pc[r] = "insert"
  /\ LET new == {[inst |-> ses[r].id, by |-> r, input |-> f] : f \in body[r].inputs}
     IN ses' = [ses EXCEPT
          ![r].ins = new,
          ![r].metrics = {m \in metric \ ses[r].del : m.inst = ses[r].id} \cup new]
  /\ Goto(r, "calculate")
  /\ UNCHANGED <<db, outbox, body, reply>>

(* With a salary field in the body the second call of salary_components    *)
(* divides a float by a Decimal.                                           *)
RaiseTypeError(r) ==
  /\ pc[r] = "calculate"
  /\ body[r].salaried
  /\ Refuse(r, "type_error")

Calculated(r) ==
  [ses[r].obj EXCEPT !.total = Calculate(ses[r].obj.salary, ses[r].metrics)]

(* Mutants: the entry is not added; it names the wrong instance.           *)
AuditNothing(r, action, before) == {}

AuditRequest(r, action, before) ==
  {[by |-> r, id |-> r, action |-> action, before |-> before]}

Audit(r, action, before) ==
  {[by |-> r, id |-> ses[r].id, action |-> action, before |-> before]}

CalculateAndAudit(r) ==
  /\ pc[r] = "calculate"
  /\ ~body[r].salaried
  /\ Flush(r, Calculated(r), Audit(r, "upsert", "none"), "notify")

-----------------------------------------------------------------------------
(* finalize_kpi_instance                                                   *)

GetMissing(r) ==
  /\ pc[r] = "get"
  /\ body[r].id \notin DOMAIN inst
  /\ Refuse(r, "not_found")

(* Mutant: a submitted instance is answered as if it were approved.        *)
GetSubmitted(r) ==
  /\ pc[r] = "get"
  /\ body[r].id \in DOMAIN inst
  /\ inst[body[r].id].status # "draft"
  /\ Refuse(r, "ok")

GetApproved(r) ==
  /\ pc[r] = "get"
  /\ body[r].id \in DOMAIN inst
  /\ inst[body[r].id].status = "approved"
  /\ Refuse(r, "ok")

GetInstance(r) ==
  /\ pc[r] = "get"
  /\ body[r].id \in DOMAIN inst
  /\ inst[body[r].id].status # "approved"
  /\ ses' = [ses EXCEPT ![r].id = body[r].id, ![r].obj = inst[body[r].id]]
  /\ Goto(r, IF body[r].own THEN "notify" ELSE "approve")
  /\ UNCHANGED <<db, outbox, body, reply>>

(* The SELECT of the employee flushes the approval before the message goes *)
(* out.  When the approver is the employee, the session already holds that *)
(* user: no SELECT is sent, and the flush comes after the message.         *)
Approved(r) == [ses[r].obj EXCEPT !.status = "approved"]

(* Mutant: the state before is read after the assignment.                  *)
ApproveThenRead(r) ==
  /\ pc[r] = "approve"
  /\ Flush(r, Approved(r), Audit(r, "finalize", Approved(r).status),
           IF body[r].own THEN "commit" ELSE "notify")

Approve(r) ==
  /\ pc[r] = "approve"
  /\ Flush(r, Approved(r), Audit(r, "finalize", ses[r].obj.status),
           IF body[r].own THEN "commit" ELSE "notify")

-----------------------------------------------------------------------------
(* create_dispute: the INSERT checks both foreign keys, waiting for a      *)
(* session that has deleted the metric row and not yet ended.              *)

(* Mutant: metric_id is a plain integer.                                   *)
DisputeInstanceExists(r) == body[r].id \in DOMAIN inst

DisputeKeysExist(r) ==
  body[r].id \in DOMAIN inst /\ body[r].metric \subseteq metric

InsertDispute(r) ==
  /\ pc[r] = "dispute"
  /\ Deleters(r, body[r].metric) = {}
  /\ DisputeKeysExist(r)
  /\ ses' = [ses EXCEPT
       ![r].dispute = {[by |-> r, inst |-> body[r].id, metric |-> body[r].metric]},
       ![r].history = {[by |-> r, id |-> body[r].id, action |-> "dispute",
                        before |-> "none"]}]
  /\ Goto(r, "notify")
  /\ UNCHANGED <<db, outbox, body, reply>>

RejectDispute(r) ==
  /\ pc[r] = "dispute"
  /\ Deleters(r, body[r].metric) = {}
  /\ ~DisputeKeysExist(r)
  /\ Refuse(r, "integrity")

-----------------------------------------------------------------------------
(* TelegramNotifier.send, once per recipient, before the commit.  The row  *)
(* it adds to notification_logs belongs to the session's transaction.      *)

(* Mutant: an approval is sent under an event name nobody knows.           *)
EventOfFinalized(op) == IF op = "finalize" THEN "kpi_finalized" ELSE "kpi_disputed"

EventOf(op) == CASE op = "create"   -> "kpi_submitted"
                 [] op = "finalize" -> "kpi_approved"
                 [] OTHER           -> "kpi_disputed"

MessageOf(r) ==
  [by |-> r, event |-> EventOf(body[r].op),
   id |-> IF body[r].op = "create" THEN ses[r].id ELSE body[r].id]

Notify(r) ==
  /\ pc[r] = "notify"
  /\ \E results \in Delivery :
       /\ body[r].op = "finalize" => Cardinality(results) = 1
       /\ outbox' = outbox \cup (IF "sent" \in results THEN {MessageOf(r)} ELSE {})
       /\ ses' = [ses EXCEPT
            ![r].log = {[message |-> MessageOf(r), status |-> s] : s \in results}]
  /\ Goto(r, IF body[r].op = "finalize" /\ body[r].own THEN "approve"
             ELSE "commit")
  /\ UNCHANGED <<db, body, reply>>

-----------------------------------------------------------------------------
(* COMMIT.  The columns the session wrote replace those of the committed   *)
(* row, whatever others have committed to it since the session read it.    *)

Merged(r) ==
  [c \in Column |->
     IF c \in ses[r].dirty THEN ses[r].obj[c] ELSE inst[ses[r].id][c]]

(* Mutant: send adds its row to a session of its own, which nobody commits. *)
CommitUnlogged(r) ==
  /\ pc[r] = "commit"
  /\ inst' = IF ses[r].dirty = {} THEN inst
             ELSE [i \in DOMAIN inst \cup {ses[r].id} |->
                     IF i = ses[r].id THEN Merged(r) ELSE inst[i]]
  /\ metric' = (metric \ ses[r].del) \cup ses[r].ins
  /\ dispute' = dispute \cup ses[r].dispute
  /\ history' = history \cup ses[r].history
  /\ Answer(r, "ok")
  /\ UNCHANGED log

Commit(r) ==
  /\ pc[r] = "commit"
  /\ inst' = IF ses[r].dirty = {} THEN inst
             ELSE [i \in DOMAIN inst \cup {ses[r].id} |->
                     IF i = ses[r].id THEN Merged(r) ELSE inst[i]]
  /\ metric' = (metric \ ses[r].del) \cup ses[r].ins
  /\ dispute' = dispute \cup ses[r].dispute
  /\ history' = history \cup ses[r].history
  /\ log' = log \cup ses[r].log
  /\ Answer(r, "ok")

(* Mutant: the message is stored before the total is calculated.           *)
BotCreateUncalculated(r) ==
  /\ pc[r] = "bot"
  /\ inst' = [i \in DOMAIN inst \cup {r} |->
                IF i = r THEN NewRow(body[r].key, body[r].period, body[r].salary, "submitted")
                ELSE inst[i]]
  /\ history' = history \cup {[by |-> r, id |-> r, action |-> "create_from_bot",
                               before |-> "none"]}
  /\ Answer(r, "ok")
  /\ UNCHANGED <<metric, dispute, log>>

(* create_kpi_wizard inserts without looking for a row with the same key.  *)
(* It reads nothing another session can write: it is one step.             *)
BotCreate(r) ==
  /\ pc[r] = "bot"
  /\ LET row == NewRow(body[r].key, body[r].period, body[r].salary, "submitted")
     IN inst' = [i \in DOMAIN inst \cup {r} |->
                   IF i = r THEN [row EXCEPT !.total = Calculate(row.salary, {})]
                   ELSE inst[i]]
  /\ history' = history \cup {[by |-> r, id |-> r, action |-> "create_from_bot",
                               before |-> "none"]}
  /\ Answer(r, "ok")
  /\ UNCHANGED <<metric, dispute, log>>

(* Any statement may fail, the connection may drop and the process may     *)
(* die: the transaction is rolled back.                                    *)
Abort(r) == Open(r) /\ Refuse(r, "failed")

-----------------------------------------------------------------------------
(* Two sessions that wait for each other.  PostgreSQL aborts one of them.  *)

WaitsFor(r) ==
  CASE pc[r] = "update" /\ Changed(r, Resubmitted(r)) # {}   -> RowHolders(r)
    [] pc[r] = "approve" /\ Changed(r, Approved(r)) # {}     -> RowHolders(r)
    [] /\ pc[r] = "calculate" /\ ~body[r].salaried
       /\ Changed(r, Calculated(r)) # {}                     -> RowHolders(r)
    [] pc[r] = "delete"  -> Deleters(r, ses[r].metrics)
                            \cup Referencers(r, ses[r].metrics)
    [] pc[r] = "dispute" -> Deleters(r, body[r].metric)
    [] OTHER -> {}

Deadlocked(r) == \E q \in WaitsFor(r) : r \in WaitsFor(q)

BreakDeadlock(r) == Deadlocked(r) /\ Refuse(r, "failed")

-----------------------------------------------------------------------------

CreateStep(r) ==
  \/ RejectDuplicates(r) \/ RejectClosed(r) \/ LoadExisting(r) \/ InsertNew(r)
  \/ LoadMetrics(r) \/ UpdateExisting(r) \/ DeleteMetrics(r)
  \/ DeleteDisputed(r) \/ InsertMetrics(r) \/ RaiseTypeError(r)
  \/ CalculateAndAudit(r)

FinalizeStep(r) == GetMissing(r) \/ GetApproved(r) \/ GetInstance(r) \/ Approve(r)

DisputeStep(r) == InsertDispute(r) \/ RejectDispute(r)

(* What a handler does of its own accord.                                  *)
HandlerStep(r) ==
  \/ CreateStep(r) \/ FinalizeStep(r) \/ DisputeStep(r) \/ BotCreate(r)
  \/ Notify(r) \/ Commit(r)

Next == \E r \in Request :
          Receive(r) \/ HandlerStep(r) \/ Abort(r) \/ BreakDeadlock(r)

Spec == Init /\ [][Next]_vars

(* The event loop resumes a handler whose await has returned; Telegram and *)
(* the database answer or fail; PostgreSQL detects deadlocks.              *)
Fairness == \A r \in Request : /\ WF_vars(HandlerStep(r))
                               /\ WF_vars(BreakDeadlock(r))

FairSpec == Spec /\ Fairness

-----------------------------------------------------------------------------
(* The shape of the state: every variable has its type.                    *)
TypeOK ==
  /\ DOMAIN inst \subseteq Request /\ inst \in [DOMAIN inst -> Row]
  /\ metric \subseteq MetricRow /\ dispute \subseteq Dispute
  /\ history \subseteq Entry /\ log \subseteq Notice /\ outbox \subseteq Message
  /\ body \in [Request -> Body] /\ pc \in [Request -> Step]
  /\ ses \in [Request -> Session] /\ reply \in [Request -> Reply]

IsApproved(i) == i \in DOMAIN inst /\ inst[i].status = "approved"

MetricsOf(i) == {m \in metric : m.inst = i}

(* An approval is final, whatever runs at the same time: a resubmission    *)
(* that loaded the row while it was still submitted writes only the columns *)
(* it changes, and status is not one of them (kpi.py:113).                 *)
ApprovalPermanent == [][\A i \in Request : IsApproved(i) => IsApproved(i)']_vars

(* An instance is approved exactly when a finalization of it is on record  *)
(* in kpi_history: the change and its audit entry commit together, and no  *)
(* later request undoes one of them (kpi.py:187-188).                      *)
ApprovalAudited ==
  \A i \in Request :
    IsApproved(i) <=> \E e \in history : e.id = i /\ e.action = "finalize"

(* A client told that its finalization succeeded, by the one that commits  *)
(* or by the early return at kpi.py:183, can rely on it for ever.          *)
AcknowledgedApprovalHolds ==
  \A r \in Request :
    body[r].op = "finalize" /\ reply[r] = "ok" => IsApproved(body[r].id)

(* No committed row dangles: metrics name an instance, disputes an instance *)
(* and a metric row that still exist, though resubmissions delete metrics  *)
(* while disputes are being filed (kpi.py:115, 205).                       *)
ReferentialIntegrity ==
  /\ \A m \in metric : m.inst \in DOMAIN inst
  /\ \A d \in dispute : d.inst \in DOMAIN inst /\ d.metric \subseteq metric

(* Nothing of an approved instance changes: "immutable approved KPIs"      *)
(* (README.md:13), guarded by kpi.py:86-87.                                *)
ApprovedImmutable ==
  [][\A i \in Request : IsApproved(i) =>
       i \in DOMAIN inst' /\ inst'[i] = inst[i] /\ MetricsOf(i)' = MetricsOf(i)]_vars

(* One instance for each employee, month and template, as the              *)
(* scalar_one_or_none of kpi.py:84 takes for granted.                      *)
OneInstancePerKey ==
  \A i, j \in DOMAIN inst : inst[i].key = inst[j].key => i = j

(* notification_logs tells the truth about what left the process, though   *)
(* messages go out before the commit and cannot be taken back: what it     *)
(* calls sent was sent, and of the requests that succeeded it holds every  *)
(* message (telegram.py:26-37, kpi.py:161-163).                            *)
SendLogTrue ==
  /\ \A n \in log : n.status = "sent" => n.message \in outbox
  /\ \A m \in outbox : reply[m.by] = "ok" => [message |-> m, status |-> "sent"] \in log

(* Every request is answered in the end, however it is interleaved with    *)
(* the locks of others.                                                    *)
RequestAnswered(r) == Open(r) ~> pc[r] = "done"

(* Under any interleaving the instances follow the abstract life cycle.    *)
StatusOf == [i \in Request |-> IF i \in DOMAIN inst THEN inst[i].status ELSE "absent"]

ApprovalsOnRecord ==
  {<<e.id, e.by>> : e \in {h \in history : h.action = "finalize"}}

Lifecycle == INSTANCE KpiLifecycle
               WITH Instance <- Request, Approval <- Request,
                    status <- StatusOf, record <- ApprovalsOnRecord

ImplementsLifecycle == Lifecycle!Spec

-----------------------------------------------------------------------------
(* What the documents say and the code does not always do.                 *)

(* "you can now input only: base_salary ..." (README.md:84-88): naming a   *)
(* salary field is no reason to fail.                                      *)
SalaryAccepted == \A r \in Request : reply[r] # "type_error"

-----------------------------------------------------------------------------
(* The inductive invariant behind the approval properties.                 *)

(* The handler a body belongs to determines the statements it awaits.      *)
CreateSteps   == {"select", "collection", "update", "delete", "insert", "calculate"}
FinalizeSteps == {"get", "approve"}

ControlOf(r) ==
  /\ pc[r] \in CreateSteps   => body[r].op = "create"
  /\ pc[r] \in FinalizeSteps => body[r].op = "finalize"
  /\ pc[r] = "dispute"       => body[r].op = "dispute"
  /\ pc[r] = "bot"           => body[r].op = "bot"
  /\ pc[r] \in {"notify", "commit"} => body[r].op \in {"create", "finalize", "dispute"}

ControlInv == \A r \in Request : ControlOf(r)

(* A committed row was inserted by a request that has ended, so the id a   *)
(* running request would insert is still free.                             *)
FreshIds ==
  \A i \in DOMAIN inst :
    pc[i] = "done" /\ inst[i].status \in {"submitted", "approved"}

(* A session works on a row of its own or on a committed one; of its own   *)
(* row it writes every column.  Before its first and after its last        *)
(* statement it is empty.                                                  *)
SessionOf(r) ==
  /\ ses[r].id # r => ses[r].id \in DOMAIN inst
  /\ ses[r].dirty # {} => ses[r].id \in DOMAIN inst \/ ses[r].dirty = Column
  /\ pc[r] \in {"idle", "select", "get", "dispute", "bot", "done"} => ses[r] = NoSession(r)

SessionInv == \A r \in Request : SessionOf(r)

(* A resubmission of a committed row never writes its status; a submission *)
(* that inserts its row writes all of it.                                  *)
CreateWrites(r) ==
  body[r].op = "create" /\ pc[r] \in (CreateSteps \ {"select"}) \cup {"notify", "commit"} =>
    /\ ses[r].obj.status = "submitted"
    /\ IF ses[r].id \in DOMAIN inst THEN "status" \notin ses[r].dirty
                                    ELSE ses[r].dirty = Column
    /\ \A e \in ses[r].history : e.action = "upsert"

(* A finalization writes the status and its audit entry, or neither yet.   *)
FinalizeWrites(r) ==
  body[r].op = "finalize" /\ pc[r] \in {"approve", "notify", "commit"} =>
    /\ ses[r].id = body[r].id /\ ses[r].id \in DOMAIN inst
    /\ \/ /\ ses[r].dirty = {} /\ ses[r].history = {}
          /\ ses[r].obj.status = "submitted" /\ pc[r] # "commit"
          /\ pc[r] = "notify" => body[r].own
       \/ /\ ses[r].dirty = {"status"} /\ ses[r].obj.status = "approved"
          /\ \E e \in ses[r].history : e.action = "finalize"
          /\ \A e \in ses[r].history : e.id = ses[r].id /\ e.by = r
          /\ pc[r] # "approve" /\ (pc[r] = "notify" => ~body[r].own)

DisputeWrites(r) ==
  body[r].op = "dispute" =>
    ses[r].dirty = {} /\ \A e \in ses[r].history : e.action = "dispute"

StatusWrites ==
  \A r \in Request : CreateWrites(r) /\ FinalizeWrites(r) /\ DisputeWrites(r)

IInv ==
  /\ TypeOK /\ ControlInv /\ FreshIds /\ SessionInv /\ StatusWrites
  /\ ApprovalAudited

-----------------------------------------------------------------------------
(* The inductive invariant behind the answers, the rows that reference     *)
(* others and the log of messages.                                         *)

(* Only a request that has ended is answered.                              *)
AnswersInv == \A r \in Request : reply[r] # "pending" => pc[r] = "done"

(* Only a submission holds metrics to insert, and of the instance it works *)
(* on; only a dispute holds disputes.                                      *)
WritesOf(r) ==
  /\ ses[r].ins # {} => body[r].op = "create"
  /\ ses[r].dispute # {} => body[r].op = "dispute"
  /\ \A m \in ses[r].ins : m.inst = ses[r].id

WritesInv == \A r \in Request : WritesOf(r)

(* No dispute, filed or being filed, dangles, nor will it when a session   *)
(* that has deleted metrics commits: the locks of the foreign keys.        *)
References == dispute \cup UNION {ses[q].dispute : q \in Request}

ReferencesInv ==
  /\ \A m \in metric : m.inst \in DOMAIN inst
  /\ \A d \in References :
       /\ d.inst \in DOMAIN inst /\ d.metric \subseteq metric
       /\ \A r \in Request : d.metric \cap ses[r].del = {}

(* A request has its messages out before it commits, and before it changes *)
(* the instance when the approver is the employee.  From then on its       *)
(* session holds the log of them; before, none has left the process.       *)
Notified(r) == pc[r] = "commit" \/ (pc[r] = "approve" /\ body[r].own)

MessagesOf(r) == {m \in outbox : m.by = r}

SendsOf(r) ==
  /\ \A n \in ses[r].log : n.status = "sent" => n.message \in outbox
  /\ IF Notified(r)
     THEN \A m \in MessagesOf(r) : [message |-> m, status |-> "sent"] \in ses[r].log
     ELSE pc[r] # "done" => MessagesOf(r) = {}

SendsInv == \A r \in Request : SendsOf(r)

IntegrityInv ==
  /\ IInv /\ AnswersInv /\ WritesInv /\ ReferencesInv /\ SendsInv
  /\ AcknowledgedApprovalHolds /\ SendLogTrue

=============================================================================
