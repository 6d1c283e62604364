------------------------------- MODULE Reports -------------------------------
(***************************************************************************)
(* What clients are shown of the KPI instances: share links, exports and   *)
(* listings of app/api/kpi.py.  A reader takes several statements, at READ *)
(* COMMITTED each of them reads what is committed by then; in between the  *)
(* sheets change as KpiSheets says, which is what the submissions and      *)
(* approvals of KpiInstances implement, however they overlap.              *)
(***************************************************************************)
EXTENDS Integers, FiniteSets

CONSTANTS
  Sheet, Period, Salary, MetricInput, Score, Amount,   (* as in KpiSheets  *)
  KpiKey,     (* here records with an employee and a month                 *)
  Request,    (* the requests; a link is named by the request that made it *)
  None        (* no value, and a uuid that is no link's                    *)

ASSUME ReportsAssumption == None \notin Request \cup Sheet /\ 0 \in Salary

VARIABLES
  sheet,      (* the committed instances and their metrics                 *)
  raced,      (* the instances on which submissions have overlapped        *)
  link,       (* committed kpi_share_links: creating request -> row        *)
  audit,      (* committed kpi_history entries of links                    *)
  body,       (* the request each handler serves                           *)
  pc,         (* what each handler awaits, in the end its answer           *)
  rows,       (* the instances each handler has loaded                     *)
  inputs,     (* the metrics it has loaded for them                        *)
  known       (* the sheets somebody had been shown as approved when the   *)
              (* request arrived; it steers nothing                        *)

mine == <<link, audit, body, pc, rows, inputs, known>>
vars == <<sheet, raced, mine>>

Sheets == INSTANCE KpiSheets

Employee == {k.employee : k \in KpiKey}
Month    == {k.month : k \in KpiKey}

(* Of a link's three targets only that of its scope is ever read.          *)
TargetsOf(scope) == {None} \cup CASE scope = "single_kpi"   -> Sheet
                                  [] scope = "employee_all" -> Employee
                                  [] OTHER                  -> Month
ShareScope      == {"single_kpi", "employee_all", "month_all"}
SharePermission == {"view", "view_download"}
Link == UNION {[scope : {s}, target : TargetsOf(s), permission : SharePermission] :
               s \in ShareScope}

ShareBody  == [op : {"share"}, link : Link, expires : BOOLEAN]
OpenBody(L) == [op : {"view", "download"}, link : L]
ExportBody == [op : {"export"}, scope : {"single_kpi"}, target : Sheet]
              \cup [op : {"batch"}, scope : {"month_all"}, target : {None} \cup Month]
ListBody   == [op : {"list"}, scope : {"all"}, target : {None}]
              \cup [op : {"list"}, scope : {"month_all"}, target : Month]
              \cup [op : {"list"}, scope : {"employee_all"}, target : Employee]

Files == {"download", "export", "batch"}   (* answered with a file         *)

NoRows == [i \in {} |-> None]

Init ==
  /\ Sheets!Init
  /\ link = [l \in {} |-> None] /\ audit = {}
  /\ body = [r \in Request |-> [op |-> "none"]]
  /\ pc = [r \in Request |-> "idle"]
  /\ rows = [r \in Request |-> NoRows] /\ inputs = [r \in Request |-> NoRows]
  /\ known = [r \in Request |-> {}]

-----------------------------------------------------------------------------
Goto(r, step) == pc' = [pc EXCEPT ![r] = step]

(* The end by an exception: the transaction is rolled back, nothing shown. *)
Refuse(r, a) ==
  /\ Goto(r, a)
  /\ rows' = [rows EXCEPT ![r] = NoRows] /\ inputs' = [inputs EXCEPT ![r] = NoRows]
  /\ UNCHANGED <<sheet, raced, link, audit, body, known>>

ShownApproved ==
  {i \in Sheet : \E q \in Request : /\ pc[q] = "ok" /\ i \in DOMAIN rows[q]
                                    /\ rows[q][i].status = "approved"}

Acknowledged == {l \in DOMAIN link : pc[l] = "ok"}

(* A uuid is random: who opens a link was told of it, or mistypes it.      *)
Receive(r) ==
  /\ pc[r] = "idle"
  /\ \/ \E b \in ShareBody : body' = [body EXCEPT ![r] = b] /\ Goto(r, "insert")
     \/ \E b \in OpenBody(Acknowledged \cup {None}) :
          body' = [body EXCEPT ![r] = b] /\ Goto(r, "link")
     \/ \E b \in ExportBody \cup ListBody :
          body' = [body EXCEPT ![r] = b] /\ Goto(r, "rows")
  /\ known' = [known EXCEPT ![r] = ShownApproved]
  /\ UNCHANGED <<sheet, raced, link, audit, rows, inputs>>

-----------------------------------------------------------------------------
(* create_share_link: one flush inserts the link and its audit entry, which *)
(* calls the link "new": it has neither id nor uuid before the flush.      *)

(* Mutant: kpi_instance_id is a plain integer.                             *)
AnyTarget(r) == TRUE

(* The foreign key of kpi_instance_id.                                     *)
TargetExists(r) ==
  body[r].link.scope = "single_kpi" =>
    body[r].link.target \in DOMAIN sheet \cup {None}

CreateLink(r) ==
  /\ pc[r] = "insert"
  /\ ~body[r].expires /\ TargetExists(r)
  /\ link' = [l \in DOMAIN link \cup {r} |-> IF l = r THEN body[r].link ELSE link[l]]
  /\ audit' = audit \cup {[by |-> r, link |-> None, action |-> "create"]}
  /\ Goto(r, "refresh")
  /\ UNCHANGED <<sheet, raced, body, rows, inputs, known>>

(* The audit entry holds expires_at as a datetime, which the JSON column   *)
(* cannot encode: no link ever expires, because none with an expiry is made. *)
RejectLink(r) ==
  /\ pc[r] = "insert"
  /\ body[r].expires \/ ~TargetExists(r)
  /\ Refuse(r, IF body[r].expires THEN "type_error" ELSE "integrity")

Refresh(r) ==
  /\ pc[r] = "refresh"
  /\ Goto(r, "ok")
  /\ UNCHANGED <<sheet, raced, link, audit, body, rows, inputs, known>>

-----------------------------------------------------------------------------
(* shared_view and export_by_share_link, each from the link on.            *)

Downloadable(l) == link[l].permission = "view_download"

FindLink(r) ==
  /\ pc[r] = "link"
  /\ body[r].link \in DOMAIN link
  /\ body[r].op = "download" => Downloadable(body[r].link)
  /\ Goto(r, "rows")
  /\ UNCHANGED <<sheet, raced, link, audit, body, rows, inputs, known>>

RejectOpening(r) ==
  /\ pc[r] = "link"
  /\ \/ body[r].link \notin DOMAIN link /\ Refuse(r, "not_found")
     \/ /\ body[r].link \in DOMAIN link
        /\ body[r].op = "download" /\ ~Downloadable(body[r].link)
        /\ Refuse(r, "forbidden")

-----------------------------------------------------------------------------
(* The SELECT of instances: _instances_by_link, export_kpi and list_kpis.  *)
(* A target that is None equals no column.                                 *)

Selection(r) == IF body[r].op \in {"view", "download"} THEN link[body[r].link] ELSE body[r]

(* Mutant: the branch of employee_all adds no condition.                   *)
SelectedAnyEmployee(r) ==
  LET s == Selection(r)
  IN {i \in DOMAIN sheet : CASE s.scope = "single_kpi" -> i = s.target
                             [] s.scope = "month_all"  -> sheet[i].key.month = s.target
                             [] OTHER -> TRUE}

Selected(r) ==
  LET s == Selection(r)
  IN {i \in DOMAIN sheet : CASE s.scope = "single_kpi"   -> i = s.target
                             [] s.scope = "employee_all" -> sheet[i].key.employee = s.target
                             [] s.scope = "month_all"    -> sheet[i].key.month = s.target
                             [] s.scope = "all"          -> TRUE}

Columns(i) == [key |-> sheet[i].key, period |-> sheet[i].period,
               total |-> sheet[i].total, status |-> sheet[i].status]

(* A batch without a month is refused before anything is read.             *)
RejectBatch(r) ==
  /\ pc[r] = "rows"
  /\ body[r].op = "batch" /\ body[r].target = None
  /\ Refuse(r, "bad_request")

AfterRows(r) ==
  IF body[r].op = "list" THEN "ok"
  ELSE IF Selected(r) # {} THEN "metrics"
  ELSE CASE body[r].op \in {"view", "download"} -> "commit"
         [] body[r].op = "batch"                -> "ok"
         [] OTHER                               -> "not_found"

LoadRows(r) ==
  /\ pc[r] = "rows"
  /\ ~(body[r].op = "batch" /\ body[r].target = None)
  /\ rows' = [rows EXCEPT ![r] = [i \in Selected(r) |-> Columns(i)]]
  /\ Goto(r, AfterRows(r))
  /\ UNCHANGED <<sheet, raced, link, audit, body, inputs, known>>

(* Mutant: the statement of the metrics refreshes the status as well, and  *)
(* the total is that of the first statement.                               *)
LoadMetricsAndStatus(r) ==
  /\ pc[r] = "metrics"
  /\ inputs' = [inputs EXCEPT ![r] = [i \in DOMAIN rows[r] |-> sheet[i].inputs]]
  /\ rows' = [rows EXCEPT ![r] =
       [i \in DOMAIN rows[r] |-> [rows[r][i] EXCEPT !.status = sheet[i].status]]]
  /\ Goto(r, IF body[r].op \in {"view", "download"} THEN "commit" ELSE "ok")
  /\ UNCHANGED <<sheet, raced, link, audit, body, known>>

(* selectinload: the metrics of the loaded instances, by a second SELECT.  *)
LoadMetrics(r) ==
  /\ pc[r] = "metrics"
  /\ inputs' = [inputs EXCEPT ![r] = [i \in DOMAIN rows[r] |-> sheet[i].inputs]]
  /\ Goto(r, IF body[r].op \in {"view", "download"} THEN "commit" ELSE "ok")
  /\ UNCHANGED <<sheet, raced, link, audit, body, rows, known>>

-----------------------------------------------------------------------------
(* The audit entry of an opening is committed before the client is         *)
(* answered; a download that finds nothing is refused only afterwards.     *)

(* Mutant: the entry is named for the handler.                             *)
OpeningByOp(r) == [by |-> r, link |-> body[r].link, action |-> body[r].op]

Opening(r) == [by |-> r, link |-> body[r].link,
               action |-> IF body[r].op = "view" THEN "open" ELSE "download"]

AfterCommit(r) == IF body[r].op = "download" /\ rows[r] = NoRows THEN "not_found" ELSE "ok"

(* Mutant: only downloads are recorded.                                    *)
CommitDownload(r) ==
  /\ pc[r] = "commit"
  /\ audit' = audit \cup (IF body[r].op = "download" THEN {Opening(r)} ELSE {})
  /\ Goto(r, AfterCommit(r))
  /\ UNCHANGED <<sheet, raced, link, body, rows, inputs, known>>

Commit(r) ==
  /\ pc[r] = "commit"
  /\ audit' = audit \cup {Opening(r)}
  /\ Goto(r, AfterCommit(r))
  /\ UNCHANGED <<sheet, raced, link, body, rows, inputs, known>>

(* Any statement may fail and the process may die.  After the commit of a  *)
(* link this leaves a link that nobody was told of.                        *)
Awaiting == {"insert", "refresh", "link", "rows", "metrics", "commit"}
Abort(r) == pc[r] \in Awaiting /\ Refuse(r, "failed")

Handle(r) ==
  \/ CreateLink(r) \/ RejectLink(r) \/ Refresh(r)
  \/ FindLink(r) \/ RejectOpening(r)
  \/ RejectBatch(r) \/ LoadRows(r) \/ LoadMetrics(r) \/ Commit(r)

(* Submissions and approvals commit meanwhile.                             *)
Write == Sheets!Next /\ UNCHANGED mine

Next == Write \/ \E r \in Request : Receive(r) \/ Handle(r) \/ Abort(r)

Spec == Init /\ [][Next]_vars

-----------------------------------------------------------------------------
(* The shape of the state: every variable has its type.                    *)
Total == Amount \cup {Sheets!Worth(s, F) : s \in Salary, F \in SUBSET MetricInput}
RowType == [key : KpiKey, period : Period, total : Total,
            status : {"submitted", "approved"}]
SheetType == [key : KpiKey, period : Period, salary : Salary,
              inputs : SUBSET MetricInput, total : Total,
              status : {"submitted", "approved"}]
Entry == [by : Request, link : Request \cup {None}, action : {"create", "open", "download"}]
Answer == {"ok", "not_found", "forbidden", "bad_request", "type_error",
           "integrity", "failed"}
Body == {[op |-> "none"]} \cup ShareBody \cup OpenBody(Request \cup {None})
        \cup ExportBody \cup ListBody

(* What may be loaded of some of the sheets there are.                     *)
Loaded(T) == UNION {[S -> T] : S \in SUBSET DOMAIN sheet}

TypeOK ==
  /\ DOMAIN sheet \subseteq Sheet /\ sheet \in [DOMAIN sheet -> SheetType]
  /\ raced \subseteq Sheet
  /\ DOMAIN link \subseteq Request /\ link \in [DOMAIN link -> Link]
  /\ audit \subseteq Entry /\ known \in [Request -> SUBSET Sheet]
  /\ body \in [Request -> Body]
  /\ pc \in [Request -> {"idle"} \cup Awaiting \cup Answer]
  /\ rows \in [Request -> Loaded(RowType)]
  /\ inputs \in [Request -> Loaded(SUBSET MetricInput)]

(* A file says "Status: approved" only of an instance that is approved, and *)
(* then shows its final total and the metrics that total was made of, even *)
(* though rows and metrics are read by two statements with submissions and *)
(* approvals between them (kpi.py:244, 304-317, export.py:18-26).  Of an   *)
(* instance on which submissions have overlapped only the status is final. *)
FileOf(r, i) == [row |-> rows[r][i], inputs |-> inputs[r][i]]

ApprovedFileIsFinal ==
  \A r \in Request : pc[r] = "ok" /\ body[r].op \in Files =>
    \A i \in DOMAIN rows[r] : rows[r][i].status = "approved" =>
      /\ sheet[i].status = "approved"
      /\ i \notin raced =>
           FileOf(r, i) = [row |-> Columns(i), inputs |-> sheet[i].inputs]
      /\ i \notin raced =>
           rows[r][i].total = Sheets!Worth(sheet[i].salary, inputs[r][i])

(* "Audit trails in kpi_history for writes and share link openings"        *)
(* (README.md:37): whoever was shown something by a link, or got one, is on *)
(* record, and no entry tells of a link that there is not.                 *)
OpenedOnRecord ==
  /\ \A r \in Request : pc[r] = "ok" =>
       /\ body[r].op = "share" => [by |-> r, link |-> None, action |-> "create"] \in audit
       /\ body[r].op \in {"view", "download"} => Opening(r) \in audit
  /\ \A e \in audit : (IF e.action = "create" THEN e.by ELSE e.link) \in DOMAIN link

WithinLink(r) ==
  \A i \in DOMAIN rows[r] :
    LET l == link[body[r].link]
    IN CASE l.scope = "single_kpi"   -> l.target = i
         [] l.scope = "employee_all" -> l.target = rows[r][i].key.employee
         [] l.scope = "month_all"    -> l.target = rows[r][i].key.month

(* A link shows what its scope names and nothing else, whatever was written *)
(* between the lookup of the link and that of the instances; a link whose  *)
(* scope has no target shows nothing (kpi.py:243-251).                     *)
ShownWithinLink ==
  \A r \in Request : pc[r] = "ok" /\ body[r].op \in {"view", "download"} => WithinLink(r)

(* A link that its creator was told of keeps its word: it is always found, *)
(* and if it is a download link of one instance, so is its file.           *)
LinkKeepsItsWord ==
  \A r \in Request : body[r].op \in {"view", "download"} /\ body[r].link # None =>
    LET l == link[body[r].link]
    IN /\ pc[r] = "forbidden" => l.permission = "view"
       /\ pc[r] = "not_found" => /\ body[r].op = "download"
                                 /\ l.scope = "single_kpi" => l.target = None

(* Nobody is shown an instance as submitted by a request that came after   *)
(* somebody, by whatever view, listing or file, had been shown it approved. *)
NoStepBack ==
  \A r \in Request : \A i \in known[r] \cap DOMAIN rows[r] :
    rows[r][i].status = "approved"

-----------------------------------------------------------------------------
(* The inductive invariant behind these properties.                        *)

IsApproved(i) == i \in DOMAIN sheet /\ sheet[i].status = "approved"

(* A sheet's total is the worth of what it holds, but for a raced sheet.   *)
TotalsCurrent ==
  \A i \in DOMAIN sheet \ raced : sheet[i].total = Sheets!Worth(sheet[i].salary, sheet[i].inputs)

(* The handler a body belongs to determines the statements it awaits.  It  *)
(* has instances loaded only from their SELECT on, and not when it refuses. *)
ControlOf(r) ==
  /\ pc[r] \in {"insert", "refresh"} => body[r].op = "share"
  /\ pc[r] \in {"link", "commit"}    => body[r].op \in {"view", "download"}
  /\ pc[r] \in {"rows", "metrics"}   => body[r].op \in {"view", "list"} \cup Files
  /\ pc[r] \notin {"metrics", "commit", "ok"} => rows[r] = NoRows

(* A link was committed with its audit entry by a request that is past its *)
(* flush, and the instance it names exists.                                *)
LinkOf(r) ==
  /\ r \in DOMAIN link =>
       /\ body[r].op = "share" /\ pc[r] \notin {"idle", "insert"}
       /\ [by |-> r, link |-> None, action |-> "create"] \in audit
       /\ link[r].scope = "single_kpi" => link[r].target \in DOMAIN sheet \cup {None}
  /\ body[r].op = "share" /\ pc[r] \in {"refresh", "ok"} => r \in DOMAIN link

(* Who opens a link was told of it; what it names is what is loaded.       *)
OpeningOf(r) ==
  body[r].op \in {"view", "download"} =>
    /\ body[r].link \in DOMAIN link \cup {None}
    /\ pc[r] \in {"rows", "metrics", "commit", "ok"} =>
         body[r].link \in DOMAIN link /\ WithinLink(r)
    /\ pc[r] \in {"metrics", "commit"} =>
         LET l == link[body[r].link]
         IN l.scope = "single_kpi" /\ l.target # None => l.target \in DOMAIN rows[r]

(* What was loaded as approved is approved, and unless it was raced it was *)
(* final then: the row, and the metrics once they are loaded.  What was    *)
(* known to be approved still is.                                          *)
FinalOf(r) ==
  /\ \A i \in DOMAIN rows[r] : rows[r][i].status = "approved" => IsApproved(i)
  /\ \A i \in DOMAIN rows[r] \ raced : rows[r][i].status = "approved" =>
       /\ rows[r][i] = Columns(i)
       /\ pc[r] = "commit" \/ (pc[r] = "ok" /\ body[r].op \in {"view"} \cup Files) =>
            inputs[r][i] = sheet[i].inputs
  /\ \A i \in known[r] : IsApproved(i)

ReportsInv ==
  /\ TypeOK /\ TotalsCurrent
  /\ \A r \in Request : ControlOf(r) /\ LinkOf(r) /\ OpeningOf(r) /\ FinalOf(r)
  /\ OpenedOnRecord /\ LinkKeepsItsWord /\ NoStepBack
=============================================================================
