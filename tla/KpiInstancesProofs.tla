------------------------- MODULE KpiInstancesProofs -------------------------
(***************************************************************************)
(* Proofs about KpiInstances, for every value of its constants: the types, *)
(* the life cycle of an instance and its approvals; then what a client was *)
(* told holds, no row dangles, the log of messages is true.                *)
(***************************************************************************)
EXTENDS KpiInstances, TLAPS

(* A body is of the kind its op names.                                     *)
LEMMA BodyOfOp ==
  ASSUME NEW b \in Body
  PROVE  /\ b.op = "create"   => b \in CreateBody
         /\ b.op = "finalize" => b \in FinalizeBody
         /\ b.op = "dispute"  => b \in DisputeBody
         /\ b.op = "bot"      => b \in BotBody
<1>1. CASE b \in CreateBody   BY <1>1 DEF CreateBody
<1>2. CASE b \in FinalizeBody BY <1>2 DEF FinalizeBody
<1>3. CASE b \in DisputeBody  BY <1>3 DEF DisputeBody
<1>4. CASE b \in BotBody      BY <1>4 DEF BotBody
<1>5. CASE b = NoBody         BY <1>5 DEF NoBody
<1>6. QED BY <1>1, <1>2, <1>3, <1>4, <1>5 DEF Body

(* A calculated amount is one a row can hold.                              *)
LEMMA CalculateType ==
  ASSUME NEW s \in Salary, NEW M \in SUBSET MetricRow
  PROVE  Calculate(s, M) \in Total
BY DEF Total

LEMMA NewRowType ==
  ASSUME NEW k \in KpiKey, NEW p \in Period, NEW s \in Salary, NEW t \in KPIStatus
  PROVE  NewRow(k, p, s, t) \in Row
BY DEF NewRow, Row, Total

LEMMA NoSessionType ==
  ASSUME NEW r \in Request
  PROVE  NoSession(r) \in Session
<1>1. /\ (CHOOSE k \in KpiKey : TRUE) \in KpiKey
      /\ (CHOOSE p \in Period : TRUE) \in Period
      /\ 0 \in Salary
  BY ConstantsAssumption
<1>2. NoSession(r).obj \in Row
  BY <1>1, NewRowType DEF NoSession, KPIStatus
<1>3. QED BY <1>2 DEF NoSession, Session

LEMMA InitType == Init => TypeOK
<1>1. SUFFICES ASSUME Init PROVE TypeOK
  OBVIOUS
<1>2. DOMAIN inst = {} /\ inst \in [DOMAIN inst -> Row]
  BY <1>1 DEF Init
<1>3. ses \in [Request -> Session]
  BY <1>1, NoSessionType DEF Init
<1>4. QED BY <1>1, <1>2, <1>3 DEF Init, TypeOK, Body, Step, Reply

(* The end of a request keeps the types of what is not the database.       *)
LEMMA AnswerType ==
  ASSUME TypeOK, NEW r \in Request, NEW a \in Reply, Answer(r, a)
  PROVE  /\ outbox' \subseteq Message /\ body' \in [Request -> Body]
         /\ pc' \in [Request -> Step] /\ ses' \in [Request -> Session]
         /\ reply' \in [Request -> Reply]
<1>1. NoSession(r) \in Session BY NoSessionType
<1>2. QED BY <1>1 DEF TypeOK, Answer, Goto, Step

LEMMA RefuseType ==
  ASSUME TypeOK, NEW r \in Request, NEW a \in Reply, Refuse(r, a)
  PROVE  TypeOK'
BY AnswerType DEF TypeOK, Refuse, db

LEMMA FlushType ==
  ASSUME TypeOK, NEW r \in Request, NEW new \in Row, NEW E \in SUBSET Entry,
         NEW step \in Step, Flush(r, new, E, step)
  PROVE  TypeOK'
<1> DEFINE s == [ses[r] EXCEPT !.obj = new, !.dirty = @ \cup Changed(r, new),
                               !.history = @ \cup E]
<1>1. Changed(r, new) \subseteq Column BY DEF Changed
<1>2. ses[r] \in Session BY DEF TypeOK
<1>3. s \in Session BY <1>1, <1>2 DEF Session
<1>4. ses' = [ses EXCEPT ![r] = s] BY DEF Flush
<1>5. ses' \in [Request -> Session] BY <1>3, <1>4 DEF TypeOK
<1>6. QED BY <1>5 DEF TypeOK, Flush, Goto, db

(* A step that changes only the session of r and the statement it awaits.  *)
LEMMA SessionStepType ==
  ASSUME TypeOK, NEW r \in Request, NEW s \in Session, NEW step \in Step,
         ses' = [ses EXCEPT ![r] = s], Goto(r, step),
         UNCHANGED <<db, outbox, body, reply>>
  PROVE  TypeOK'
BY DEF TypeOK, Goto, db

LEMMA ReceiveType ==
  ASSUME TypeOK, NEW r \in Request, Receive(r)
  PROVE  TypeOK'
<1>1. /\ UNCHANGED <<db, outbox, ses, reply>>
      /\ \E b \in Body, step \in Step : body' = [body EXCEPT ![r] = b] /\ Goto(r, step)
  <2>1. CASE \E b \in CreateBody : body' = [body EXCEPT ![r] = b] /\ Goto(r, "select")
    BY <2>1 DEF Receive, Body, Step
  <2>2. CASE \E b \in FinalizeBody : body' = [body EXCEPT ![r] = b] /\ Goto(r, "get")
    BY <2>2 DEF Receive, Body, Step
  <2>3. CASE \E i \in Request, M \in {{}} \cup {{m} : m \in metric} :
               /\ body' = [body EXCEPT ![r] = [op |-> "dispute", id |-> i, metric |-> M]]
               /\ Goto(r, "dispute")
    <3>1. PICK i \in Request, M \in {{}} \cup {{m} : m \in metric} :
               /\ body' = [body EXCEPT ![r] = [op |-> "dispute", id |-> i, metric |-> M]]
               /\ Goto(r, "dispute")
      BY <2>3
    <3>2. M \subseteq MetricRow BY DEF TypeOK
    <3>3. [op |-> "dispute", id |-> i, metric |-> M] \in Body
      BY <3>2 DEF Body, DisputeBody
    <3>4. "dispute" \in Step BY DEF Step
    <3>5. QED BY <3>1, <3>3, <3>4 DEF Receive
  <2>4. CASE \E b \in BotBody : body' = [body EXCEPT ![r] = b] /\ Goto(r, "bot")
    BY <2>4 DEF Receive, Body, Step
  <2>5. QED BY <2>1, <2>2, <2>3, <2>4 DEF Receive
<1>2. QED BY <1>1 DEF TypeOK, Goto, db

LEMMA CreateType ==
  ASSUME TypeOK, ControlInv, NEW r \in Request, CreateStep(r)
  PROVE  TypeOK'
<1> USE DEF Step
<1>1. ses[r] \in Session /\ body[r] \in Body BY DEF TypeOK
<1>2. pc[r] \in CreateSteps => body[r] \in CreateBody
  BY <1>1, BodyOfOp DEF ControlInv, ControlOf
<1>3. CASE RejectDuplicates(r) \/ RejectClosed(r) \/ DeleteDisputed(r) \/ RaiseTypeError(r)
  BY <1>3, RefuseType DEF RejectDuplicates, RejectClosed, DeleteDisputed, RaiseTypeError, Reply
<1>4. CASE LoadExisting(r)
  <2>1. PICK i \in DOMAIN inst : ses' = [ses EXCEPT ![r].id = i, ![r].obj = inst[i]]
    BY <1>4 DEF LoadExisting, Matches
  <2> DEFINE s == [ses[r] EXCEPT !.id = i, !.obj = inst[i]]
  <2>2. s \in Session BY <1>1 DEF TypeOK, Session
  <2>3. ses' = [ses EXCEPT ![r] = s] BY <2>1
  <2>4. QED BY <1>4, <2>2, <2>3, SessionStepType DEF LoadExisting
<1>5. CASE InsertNew(r)
  <2>1. body[r] \in CreateBody BY <1>2, <1>5 DEF InsertNew, CreateSteps
  <2>2. NewRow(body[r].key, body[r].period, body[r].salary, "submitted") \in Row
    BY <2>1, NewRowType DEF CreateBody, KPIStatus
  <2> DEFINE s == [ses[r] EXCEPT
       !.obj = NewRow(body[r].key, body[r].period, body[r].salary, "submitted"),
       !.dirty = Column]
  <2>3. s \in Session BY <1>1, <2>2 DEF Session
  <2>4. ses' = [ses EXCEPT ![r] = s] BY <1>5 DEF InsertNew
  <2>5. QED BY <1>5, <2>3, <2>4, SessionStepType DEF InsertNew
<1>6. CASE LoadMetrics(r)
  <2> DEFINE s == [ses[r] EXCEPT !.metrics = {m \in metric : m.inst = ses[r].id}]
  <2>1. s \in Session BY <1>1 DEF TypeOK, Session
  <2>2. ses' = [ses EXCEPT ![r] = s] BY <1>6 DEF LoadMetrics
  <2>3. QED BY <1>6, <2>1, <2>2, SessionStepType DEF LoadMetrics
<1>7. CASE UpdateExisting(r)
  <2>1. body[r] \in CreateBody BY <1>2, <1>7 DEF UpdateExisting, CreateSteps
  <2>2. Resubmitted(r) \in Row
    BY <1>1, <2>1 DEF Resubmitted, CreateBody, Row, Session, KPIStatus
  <2>3. QED BY <1>7, <2>2, FlushType DEF UpdateExisting
<1>8. CASE DeleteMetrics(r)
  <2> DEFINE s == [ses[r] EXCEPT !.del = ses[r].metrics]
  <2>1. s \in Session BY <1>1 DEF Session
  <2>2. ses' = [ses EXCEPT ![r] = s] BY <1>8 DEF DeleteMetrics
  <2>3. QED BY <1>8, <2>1, <2>2, SessionStepType DEF DeleteMetrics
<1>9. CASE InsertMetrics(r)
  <2> DEFINE new == {[inst |-> ses[r].id, by |-> r, input |-> f] : f \in body[r].inputs}
             s == [ses[r] EXCEPT
                    !.ins = new,
                    !.metrics = {m \in metric \ ses[r].del : m.inst = ses[r].id} \cup new]
  <2>1. body[r] \in CreateBody BY <1>2, <1>9 DEF InsertMetrics, CreateSteps
  <2>2. new \subseteq MetricRow BY <1>1, <2>1 DEF CreateBody, Session, MetricRow
  <2>3. s \in Session BY <1>1, <2>2 DEF TypeOK, Session
  <2>4. ses' = [ses EXCEPT ![r] = s] BY <1>9 DEF InsertMetrics
  <2>5. QED BY <1>9, <2>3, <2>4, SessionStepType DEF InsertMetrics
<1>10. CASE CalculateAndAudit(r)
  <2>1. Calculated(r) \in Row
    BY <1>1, CalculateType DEF Calculated, Row, Session
  <2>2. Audit(r, "upsert", "none") \subseteq Entry
    BY <1>1 DEF Audit, Entry, Action, Session
  <2>3. QED BY <1>10, <2>1, <2>2, FlushType DEF CalculateAndAudit
<1>11. QED BY <1>3, <1>4, <1>5, <1>6, <1>7, <1>8, <1>9, <1>10 DEF CreateStep

LEMMA FinalizeType ==
  ASSUME TypeOK, ControlInv, NEW r \in Request, FinalizeStep(r)
  PROVE  TypeOK'
<1> USE DEF Step
<1>1. ses[r] \in Session /\ body[r] \in Body BY DEF TypeOK
<1>2. pc[r] \in FinalizeSteps => body[r] \in FinalizeBody
  BY <1>1, BodyOfOp DEF ControlInv, ControlOf
<1>3. CASE GetMissing(r) \/ GetApproved(r)
  BY <1>3, RefuseType DEF GetMissing, GetApproved, Reply
<1>4. CASE GetInstance(r)
  <2> DEFINE s == [ses[r] EXCEPT !.id = body[r].id, !.obj = inst[body[r].id]]
  <2>1. s \in Session BY <1>1, <1>4 DEF GetInstance, TypeOK, Session
  <2>2. ses' = [ses EXCEPT ![r] = s] BY <1>4 DEF GetInstance
  <2>3. QED BY <1>4, <2>1, <2>2, SessionStepType DEF GetInstance
<1>5. CASE Approve(r)
  <2>1. Approved(r) \in Row BY <1>1 DEF Approved, Row, Session, KPIStatus
  <2>2. Audit(r, "finalize", ses[r].obj.status) \subseteq Entry
    BY <1>1 DEF Audit, Entry, Action, Session, Row
  <2>3. QED BY <1>5, <2>1, <2>2, FlushType DEF Approve
<1>6. QED BY <1>3, <1>4, <1>5 DEF FinalizeStep

LEMMA DisputeType ==
  ASSUME TypeOK, ControlInv, NEW r \in Request, DisputeStep(r)
  PROVE  TypeOK'
<1> USE DEF Step
<1>1. ses[r] \in Session /\ body[r] \in Body BY DEF TypeOK
<1>2. CASE InsertDispute(r)
  <2> DEFINE d == [by |-> r, inst |-> body[r].id, metric |-> body[r].metric]
             e == [by |-> r, id |-> body[r].id, action |-> "dispute", before |-> "none"]
             s == [ses[r] EXCEPT !.dispute = {d}, !.history = {e}]
  <2>1. body[r] \in DisputeBody
    BY <1>1, <1>2, BodyOfOp DEF ControlInv, ControlOf, InsertDispute
  <2>2. d \in Dispute /\ e \in Entry
    BY <2>1 DEF DisputeBody, Dispute, Entry, Action
  <2>3. s \in Session BY <1>1, <2>2 DEF Session
  <2>4. ses' = [ses EXCEPT ![r] = s] BY <1>2 DEF InsertDispute
  <2>5. QED BY <1>2, <2>3, <2>4, SessionStepType DEF InsertDispute
<1>3. CASE RejectDispute(r)
  BY <1>3, RefuseType DEF RejectDispute, Reply
<1>4. QED BY <1>2, <1>3 DEF DisputeStep

LEMMA NotifyType ==
  ASSUME TypeOK, ControlInv, NEW r \in Request, Notify(r)
  PROVE  TypeOK'
<1>1. ses[r] \in Session /\ body[r] \in Body BY DEF TypeOK
<1>2. PICK results \in Delivery :
        /\ outbox' = outbox \cup (IF "sent" \in results THEN {MessageOf(r)} ELSE {})
        /\ ses' = [ses EXCEPT
             ![r].log = {[message |-> MessageOf(r), status |-> t] : t \in results}]
  BY DEF Notify
<1> DEFINE new == {[message |-> MessageOf(r), status |-> t] : t \in results}
           s == [ses[r] EXCEPT !.log = new]
<1>3. MessageOf(r) \in Message
  <2>1. body[r].op = "create" \/ body[r].id \in Request
    BY <1>1, BodyOfOp DEF ControlInv, ControlOf, Notify, FinalizeBody, DisputeBody
  <2>2. (IF body[r].op = "create" THEN ses[r].id ELSE body[r].id) \in Request
    BY <1>1, <2>1 DEF Session
  <2>3. EventOf(body[r].op) \in Event BY DEF EventOf, Event
  <2>4. QED BY <2>2, <2>3 DEF MessageOf, Message
<1>4. new \subseteq Notice
  <2>1. results \subseteq {"sent", "failed"} BY ConstantsAssumption
  <2>2. ASSUME NEW t \in results PROVE [message |-> MessageOf(r), status |-> t] \in Notice
    BY <1>3, <2>1 DEF Notice
  <2>3. QED BY <2>2
<1>5. s \in Session BY <1>1, <1>4 DEF Session
<1>6. ses' = [ses EXCEPT ![r] = s] BY <1>2
<1>7. outbox' \subseteq Message BY <1>2, <1>3 DEF TypeOK
<1>8. QED BY <1>5, <1>6, <1>7 DEF TypeOK, Notify, Goto, Step, db

(* What a session merges into the row it works on is a row.                *)
LEMMA MergedType ==
  ASSUME TypeOK, SessionInv, NEW r \in Request, ses[r].dirty # {}
  PROVE  Merged(r) \in Row
<1>1. ses[r] \in Session /\ ses[r].obj \in Row BY DEF TypeOK, Session
<1>2. CASE ses[r].id \in DOMAIN inst
  <2>1. inst[ses[r].id] \in Row BY <1>2 DEF TypeOK
  <2>2. QED BY <1>1, <2>1 DEF Merged, Row, Column
<1>3. CASE ses[r].dirty = Column
  BY <1>1, <1>3 DEF Merged, Row, Column
<1>4. QED BY <1>2, <1>3 DEF SessionInv, SessionOf

LEMMA CommitType ==
  ASSUME TypeOK, SessionInv, NEW r \in Request, Commit(r)
  PROVE  TypeOK'
<1>1. ses[r] \in Session BY DEF TypeOK
<1>2. DOMAIN inst' \subseteq Request /\ inst' \in [DOMAIN inst' -> Row]
  <2>1. CASE ses[r].dirty = {} BY <2>1 DEF Commit, TypeOK
  <2>2. CASE ses[r].dirty # {}
    <3>1. Merged(r) \in Row BY <2>2, MergedType
    <3>2. inst' = [i \in DOMAIN inst \cup {ses[r].id} |->
                     IF i = ses[r].id THEN Merged(r) ELSE inst[i]]
      BY <2>2 DEF Commit
    <3>3. QED BY <1>1, <3>1, <3>2 DEF TypeOK, Session
  <2>3. QED BY <2>1, <2>2
<1>3. /\ metric' \subseteq MetricRow /\ dispute' \subseteq Dispute
      /\ history' \subseteq Entry /\ log' \subseteq Notice
  BY <1>1 DEF Commit, TypeOK, Session
<1>4. Answer(r, "ok") /\ "ok" \in Reply BY DEF Commit, Reply
<1>5. QED BY <1>2, <1>3, <1>4, AnswerType DEF TypeOK

LEMMA BotCreateType ==
  ASSUME TypeOK, ControlInv, NEW r \in Request, BotCreate(r)
  PROVE  TypeOK'
<1> DEFINE row == NewRow(body[r].key, body[r].period, body[r].salary, "submitted")
           filled == [row EXCEPT !.total = Calculate(row.salary, {})]
<1>1. body[r] \in BotBody
  BY BodyOfOp DEF TypeOK, ControlInv, ControlOf, BotCreate
<1>2. row \in Row BY <1>1, NewRowType DEF BotBody, KPIStatus
<1>3. row.salary \in Salary BY <1>2 DEF Row
<1>4. Calculate(row.salary, {}) \in Total BY <1>3, CalculateType
<1>5. filled \in Row BY <1>2, <1>4 DEF Row
<1>6. inst' = [i \in DOMAIN inst \cup {r} |-> IF i = r THEN filled ELSE inst[i]]
  BY DEF BotCreate
<1>7. DOMAIN inst' \subseteq Request /\ inst' \in [DOMAIN inst' -> Row]
  BY <1>5, <1>6 DEF TypeOK
<1>8. history' \subseteq Entry BY DEF BotCreate, TypeOK, Entry, Action
<1>9. Answer(r, "ok") /\ "ok" \in Reply BY DEF BotCreate, Reply
<1>10. QED BY <1>7, <1>8, <1>9, AnswerType DEF TypeOK, BotCreate

LEMMA TypeStep ==
  ASSUME TypeOK, ControlInv, SessionInv, [Next]_vars
  PROVE  TypeOK'
<1>1. CASE UNCHANGED vars BY <1>1 DEF vars, TypeOK
<1>2. ASSUME NEW r \in Request,
             Receive(r) \/ HandlerStep(r) \/ Abort(r) \/ BreakDeadlock(r)
      PROVE  TypeOK'
  <2>1. CASE Receive(r)       BY <2>1, ReceiveType
  <2>2. CASE CreateStep(r)    BY <2>2, CreateType
  <2>3. CASE FinalizeStep(r)  BY <2>3, FinalizeType
  <2>4. CASE DisputeStep(r)   BY <2>4, DisputeType
  <2>5. CASE BotCreate(r)     BY <2>5, BotCreateType
  <2>6. CASE Notify(r)        BY <2>6, NotifyType
  <2>7. CASE Commit(r)        BY <2>7, CommitType
  <2>8. CASE Abort(r) \/ BreakDeadlock(r)
    BY <2>8, RefuseType DEF Abort, BreakDeadlock, Reply
  <2>9. QED BY <1>2, <2>1, <2>2, <2>3, <2>4, <2>5, <2>6, <2>7, <2>8 DEF HandlerStep
<1>3. QED BY <1>1, <1>2 DEF Next

-----------------------------------------------------------------------------
(* The steps of one request, and what they leave alone.                    *)
StepOf(r) == Receive(r) \/ HandlerStep(r) \/ Abort(r) \/ BreakDeadlock(r)

LEMMA Frame ==
  ASSUME TypeOK, NEW r \in Request, StepOf(r)
  PROVE  /\ \A q \in Request \ {r} :
              pc'[q] = pc[q] /\ body'[q] = body[q] /\ ses'[q] = ses[q]
         /\ Commit(r) \/ BotCreate(r) \/ (inst' = inst /\ history' = history)
<1> USE DEF TypeOK, Goto, db
<1>1. CASE Receive(r) BY <1>1 DEF Receive
<1>2. CASE Abort(r) \/ BreakDeadlock(r)
  BY <1>2 DEF Abort, BreakDeadlock, Refuse, Answer
<1>3. CASE CreateStep(r)
  <2>1. CASE RejectDuplicates(r) \/ RejectClosed(r) \/ DeleteDisputed(r) \/ RaiseTypeError(r)
    BY <2>1 DEF RejectDuplicates, RejectClosed, DeleteDisputed, RaiseTypeError, Refuse, Answer
  <2>2. CASE LoadExisting(r)      BY <2>2 DEF LoadExisting
  <2>3. CASE InsertNew(r)         BY <2>3 DEF InsertNew
  <2>4. CASE LoadMetrics(r)       BY <2>4 DEF LoadMetrics
  <2>5. CASE UpdateExisting(r)    BY <2>5 DEF UpdateExisting, Flush
  <2>6. CASE DeleteMetrics(r)     BY <2>6 DEF DeleteMetrics
  <2>7. CASE InsertMetrics(r)     BY <2>7 DEF InsertMetrics
  <2>8. CASE CalculateAndAudit(r) BY <2>8 DEF CalculateAndAudit, Flush
  <2>9. QED BY <1>3, <2>1, <2>2, <2>3, <2>4, <2>5, <2>6, <2>7, <2>8 DEF CreateStep
<1>4. CASE FinalizeStep(r)
  BY <1>4 DEF FinalizeStep, GetMissing, GetApproved, GetInstance, Approve, Flush, Refuse, Answer
<1>5. CASE DisputeStep(r)
  BY <1>5 DEF DisputeStep, InsertDispute, RejectDispute, Refuse, Answer
<1>6. CASE Notify(r)    BY <1>6 DEF Notify
<1>7. CASE Commit(r)    BY <1>7 DEF Commit, Answer
<1>8. CASE BotCreate(r) BY <1>8 DEF BotCreate, Answer
<1>9. QED BY <1>1, <1>2, <1>3, <1>4, <1>5, <1>6, <1>7, <1>8 DEF StepOf, HandlerStep

(* No step removes a row, and the only row it may add is that of r.        *)
LEMMA Growth ==
  ASSUME TypeOK, SessionInv, NEW r \in Request, StepOf(r)
  PROVE  DOMAIN inst \subseteq DOMAIN inst' /\ DOMAIN inst' \subseteq DOMAIN inst \cup {r}
<1>1. CASE Commit(r) BY <1>1 DEF Commit, SessionInv, SessionOf
<1>2. CASE BotCreate(r) BY <1>2 DEF BotCreate
<1>3. CASE inst' = inst BY <1>3
<1>4. QED BY <1>1, <1>2, <1>3, Frame

(* What the invariant says of one request.                                 *)
RequestInv(r) ==
  /\ ControlOf(r) /\ SessionOf(r)
  /\ CreateWrites(r) /\ FinalizeWrites(r) /\ DisputeWrites(r)

(* The session of an ended or refused request is empty.                    *)
LEMMA EndedStep ==
  ASSUME TypeOK, NEW r \in Request, NEW a, Answer(r, a)
  PROVE  RequestInv(r)'
<1>1. pc'[r] = "done" /\ ses'[r] = NoSession(r) BY DEF TypeOK, Answer, Goto
<1>2. NoSession(r)' = NoSession(r) BY DEF NoSession, NewRow
<1>3. NoSession(r).id = r /\ NoSession(r).dirty = {} /\ NoSession(r).history = {}
  BY DEF NoSession
<1>4. QED BY <1>1, <1>2, <1>3 DEF RequestInv, ControlOf, SessionOf, CreateWrites, FinalizeWrites,
            DisputeWrites, CreateSteps, FinalizeSteps

LEMMA ReceiveStep ==
  ASSUME TypeOK, SessionInv, NEW r \in Request, Receive(r)
  PROVE  RequestInv(r)'
<1>1. ses' = ses /\ inst' = inst /\ pc[r] = "idle" BY DEF Receive, db
<1>2. ses[r] = NoSession(r) BY <1>1 DEF SessionInv, SessionOf
<1>3. ses'[r] = NoSession(r)' BY <1>1, <1>2 DEF NoSession, NewRow
<1>4. NoSession(r)'.id = r /\ NoSession(r)'.dirty = {} /\ NoSession(r)'.history = {}
  BY DEF NoSession
<1>5. \/ pc'[r] = "select"  /\ body'[r].op = "create"
      \/ pc'[r] = "get"     /\ body'[r].op = "finalize"
      \/ pc'[r] = "dispute" /\ body'[r].op = "dispute"
      \/ pc'[r] = "bot"     /\ body'[r].op = "bot"
  BY DEF Receive, TypeOK, Goto, CreateBody, FinalizeBody, BotBody
<1>6. QED BY <1>3, <1>4, <1>5 DEF RequestInv, ControlOf, SessionOf, CreateWrites,
            FinalizeWrites, DisputeWrites, CreateSteps, FinalizeSteps

LEMMA CreateOwnStep ==
  ASSUME TypeOK, FreshIds, NEW r \in Request, RequestInv(r), CreateStep(r)
  PROVE  RequestInv(r)'
<1> USE DEF RequestInv, ControlOf, SessionOf, CreateWrites, FinalizeWrites,
            DisputeWrites, CreateSteps, FinalizeSteps
<1>1. ses[r] \in Session BY DEF TypeOK
<1>2. CASE RejectDuplicates(r) \/ RejectClosed(r) \/ DeleteDisputed(r) \/ RaiseTypeError(r)
  BY <1>2, EndedStep DEF RejectDuplicates, RejectClosed, DeleteDisputed, RaiseTypeError, Refuse
<1>3. CASE LoadExisting(r)
  <2>1. PICK i \in DOMAIN inst :
          /\ inst[i].status \notin Closed
          /\ ses' = [ses EXCEPT ![r].id = i, ![r].obj = inst[i]]
    BY <1>3 DEF LoadExisting, Matches
  <2>2. ses[r] = NoSession(r) /\ inst' = inst /\ body' = body
    BY <1>3 DEF LoadExisting, db
  <2>3. /\ ses'[r].id = i /\ ses'[r].obj = inst[i]
        /\ ses'[r].dirty = {} /\ ses'[r].history = {}
    BY <1>1, <2>1, <2>2 DEF TypeOK, Session, NoSession
  <2>4. inst[i].status = "submitted" BY <2>1 DEF FreshIds, Closed
  <2>5. pc'[r] = "collection" /\ body'[r].op = "create"
    BY <1>3 DEF LoadExisting, TypeOK, Goto
  <2>6. QED BY <2>2, <2>3, <2>4, <2>5
<1>4. CASE InsertNew(r)
  <2>1. ses[r] = NoSession(r) /\ inst' = inst /\ body' = body
    BY <1>4 DEF InsertNew, db
  <2>2. /\ ses'[r].id = r /\ ses'[r].obj.status = "submitted"
        /\ ses'[r].dirty = Column /\ ses'[r].history = {}
    BY <1>1, <1>4, <2>1 DEF InsertNew, TypeOK, Session, NoSession, NewRow
  <2>3. r \notin DOMAIN inst BY <1>4 DEF InsertNew, FreshIds
  <2>4. pc'[r] = "insert" /\ body'[r].op = "create"
    BY <1>4 DEF InsertNew, TypeOK, Goto
  <2>5. QED BY <2>1, <2>2, <2>3, <2>4
<1>5. CASE LoadMetrics(r) \/ DeleteMetrics(r) \/ InsertMetrics(r)
  <2>1. /\ ses'[r].id = ses[r].id /\ ses'[r].obj = ses[r].obj
        /\ ses'[r].dirty = ses[r].dirty /\ ses'[r].history = ses[r].history
    BY <1>1, <1>5 DEF LoadMetrics, DeleteMetrics, InsertMetrics, TypeOK, Session
  <2>2. inst' = inst /\ body' = body /\ body[r].op = "create" /\ pc[r] # "select"
        /\ pc[r] \in CreateSteps
    BY <1>5 DEF LoadMetrics, DeleteMetrics, InsertMetrics, db
  <2>3. pc'[r] \in {"update", "insert", "calculate"}
    BY <1>5 DEF LoadMetrics, DeleteMetrics, InsertMetrics, TypeOK, Goto
  <2>4. ControlOf(r)' BY <2>2, <2>3
  <2>5. SessionOf(r)' BY <2>1, <2>2, <2>3
  <2>6. CreateWrites(r)' BY <2>1, <2>2, <2>3
  <2>7. FinalizeWrites(r)' /\ DisputeWrites(r)' BY <2>2
  <2>8. QED BY <2>4, <2>5, <2>6, <2>7, Zenon
<1>6. CASE UpdateExisting(r)
  <2>1. /\ ses'[r].id = ses[r].id /\ ses'[r].obj = Resubmitted(r)
        /\ ses'[r].dirty = ses[r].dirty \cup Changed(r, Resubmitted(r))
        /\ ses'[r].history = ses[r].history
    BY <1>1, <1>6 DEF UpdateExisting, Flush, TypeOK, Session
  <2>2. inst' = inst /\ body' = body /\ body[r].op = "create" /\ pc[r] = "update"
    BY <1>6 DEF UpdateExisting, Flush, db
  <2>3. Resubmitted(r).status = "submitted"
    BY <1>1 DEF Resubmitted, Session, Row
  <2>4. "status" \notin Changed(r, Resubmitted(r)) /\ Changed(r, Resubmitted(r)) \subseteq Column
    BY <2>2, <2>3 DEF Changed
  <2>5. pc'[r] = "delete" BY <1>6 DEF UpdateExisting, Flush, TypeOK, Goto
  <2>6. ControlOf(r)' /\ SessionOf(r)' BY <1>1, <2>1, <2>2, <2>4, <2>5 DEF Session
  <2>7. CreateWrites(r)' BY <2>1, <2>2, <2>3, <2>4, <2>5
  <2>8. FinalizeWrites(r)' /\ DisputeWrites(r)' BY <2>2
  <2>9. QED BY <2>6, <2>7, <2>8, Zenon
<1>7. CASE CalculateAndAudit(r)
  <2>1. /\ ses'[r].id = ses[r].id /\ ses'[r].obj = Calculated(r)
        /\ ses'[r].dirty = ses[r].dirty \cup Changed(r, Calculated(r))
        /\ ses'[r].history = ses[r].history \cup Audit(r, "upsert", "none")
    BY <1>1, <1>7 DEF CalculateAndAudit, Flush, TypeOK, Session
  <2>2. inst' = inst /\ body' = body /\ body[r].op = "create" /\ pc[r] = "calculate"
    BY <1>7 DEF CalculateAndAudit, Flush, db
  <2>3. Calculated(r).status = "submitted"
    BY <1>1, <2>2 DEF Calculated, Session, Row
  <2>4. "status" \notin Changed(r, Calculated(r)) /\ Changed(r, Calculated(r)) \subseteq Column
    BY <2>2, <2>3 DEF Changed
  <2>5. pc'[r] = "notify" BY <1>7 DEF CalculateAndAudit, Flush, TypeOK, Goto
  <2>6. \A e \in Audit(r, "upsert", "none") : e.action = "upsert" BY DEF Audit
  <2>7. ControlOf(r)' /\ SessionOf(r)'
    BY <1>1, <2>1, <2>2, <2>4, <2>5 DEF Session
  <2>8. CreateWrites(r)' BY <2>1, <2>2, <2>3, <2>4, <2>5, <2>6
  <2>9. FinalizeWrites(r)' /\ DisputeWrites(r)' BY <2>2
  <2>10. QED BY <2>7, <2>8, <2>9, Zenon
<1>8. QED BY <1>2, <1>3, <1>4, <1>5, <1>6, <1>7 DEF CreateStep

LEMMA FinalizeOwnStep ==
  ASSUME TypeOK, FreshIds, NEW r \in Request, RequestInv(r), FinalizeStep(r)
  PROVE  RequestInv(r)'
<1> USE DEF RequestInv, ControlOf, SessionOf, CreateWrites, FinalizeWrites,
            DisputeWrites, CreateSteps, FinalizeSteps
<1>1. ses[r] \in Session BY DEF TypeOK
<1>2. CASE GetMissing(r) \/ GetApproved(r)
  BY <1>2, EndedStep DEF GetMissing, GetApproved, Refuse
<1>3. CASE GetInstance(r)
  <2>1. ses[r] = NoSession(r) /\ inst' = inst /\ body' = body /\ body[r].op = "finalize"
    BY <1>3 DEF GetInstance, db
  <2>2. /\ ses'[r].id = body[r].id /\ ses'[r].obj = inst[body[r].id]
        /\ ses'[r].dirty = {} /\ ses'[r].history = {}
    BY <1>1, <1>3, <2>1 DEF GetInstance, TypeOK, Session, NoSession
  <2>3. body[r].id \in DOMAIN inst /\ inst[body[r].id].status = "submitted"
    BY <1>3 DEF GetInstance, FreshIds
  <2>4. \/ pc'[r] = "notify" /\ body[r].own
        \/ pc'[r] = "approve"
    BY <1>3 DEF GetInstance, TypeOK, Goto
  <2>5. ControlOf(r)' /\ SessionOf(r)' BY <2>1, <2>2, <2>3, <2>4
  <2>6. FinalizeWrites(r)' BY <2>1, <2>2, <2>3, <2>4
  <2>7. CreateWrites(r)' /\ DisputeWrites(r)' BY <2>1
  <2>8. QED BY <2>5, <2>6, <2>7, Zenon
<1>4. CASE Approve(r)
  <2>1. /\ ses'[r].id = ses[r].id /\ ses'[r].obj = Approved(r)
        /\ ses'[r].dirty = ses[r].dirty \cup Changed(r, Approved(r))
        /\ ses'[r].history = ses[r].history \cup Audit(r, "finalize", ses[r].obj.status)
    BY <1>1, <1>4 DEF Approve, Flush, TypeOK, Session
  <2>2. inst' = inst /\ body' = body /\ body[r].op = "finalize" /\ pc[r] = "approve"
    BY <1>4 DEF Approve, Flush, db
  <2>3. /\ ses[r].dirty = {} /\ ses[r].history = {} /\ ses[r].obj.status = "submitted"
        /\ ses[r].id = body[r].id /\ ses[r].id \in DOMAIN inst
    BY <2>2
  <2>4. Approved(r).status = "approved" /\ Changed(r, Approved(r)) = {"status"}
    BY <1>1, <2>3 DEF Approved, Changed, Session, Row, Column
  <2>5. \/ pc'[r] = "commit"
        \/ pc'[r] = "notify" /\ ~body[r].own
    BY <1>4 DEF Approve, Flush, TypeOK, Goto
  <2>6. /\ \E e \in ses'[r].history : e.action = "finalize"
        /\ \A e \in ses'[r].history : e.id = ses[r].id /\ e.by = r
    BY <2>1, <2>3 DEF Audit
  <2>7. ControlOf(r)' /\ SessionOf(r)' BY <2>1, <2>2, <2>3, <2>5
  <2>8. FinalizeWrites(r)' BY <2>1, <2>2, <2>3, <2>4, <2>5, <2>6
  <2>9. CreateWrites(r)' /\ DisputeWrites(r)' BY <2>2
  <2>10. QED BY <2>7, <2>8, <2>9, Zenon
<1>5. QED BY <1>2, <1>3, <1>4 DEF FinalizeStep

LEMMA DisputeOwnStep ==
  ASSUME TypeOK, NEW r \in Request, RequestInv(r), DisputeStep(r)
  PROVE  RequestInv(r)'
<1> USE DEF RequestInv, ControlOf, SessionOf, CreateWrites, FinalizeWrites,
            DisputeWrites, CreateSteps, FinalizeSteps
<1>1. ses[r] \in Session BY DEF TypeOK
<1>2. CASE RejectDispute(r)
  BY <1>2, EndedStep DEF RejectDispute, Refuse
<1>3. CASE InsertDispute(r)
  <2>1. inst' = inst /\ body' = body /\ body[r].op = "dispute" /\ pc'[r] = "notify"
    BY <1>3 DEF InsertDispute, TypeOK, Goto, db
  <2>2. /\ ses'[r].id = ses[r].id /\ ses'[r].dirty = ses[r].dirty
        /\ \A e \in ses'[r].history : e.action = "dispute"
    BY <1>1, <1>3 DEF InsertDispute, TypeOK, Session
  <2>3. ControlOf(r)' /\ SessionOf(r)' BY <2>1, <2>2
  <2>4. DisputeWrites(r)' BY <2>1, <2>2
  <2>5. CreateWrites(r)' /\ FinalizeWrites(r)' BY <2>1
  <2>6. QED BY <2>3, <2>4, <2>5, Zenon
<1>4. QED BY <1>2, <1>3 DEF DisputeStep

LEMMA NotifyOwnStep ==
  ASSUME TypeOK, NEW r \in Request, RequestInv(r), Notify(r)
  PROVE  RequestInv(r)'
<1> USE DEF RequestInv, ControlOf, SessionOf, CreateWrites, FinalizeWrites,
            DisputeWrites, CreateSteps, FinalizeSteps
<1>1. ses[r] \in Session BY DEF TypeOK
<1>2. /\ ses'[r].id = ses[r].id /\ ses'[r].obj = ses[r].obj
      /\ ses'[r].dirty = ses[r].dirty /\ ses'[r].history = ses[r].history
  BY <1>1 DEF Notify, TypeOK, Session
<1>3. inst' = inst /\ body' = body /\ pc[r] = "notify" BY DEF Notify, db
<1>4. IF body[r].op = "finalize" /\ body[r].own THEN pc'[r] = "approve"
                                               ELSE pc'[r] = "commit"
  BY DEF Notify, TypeOK, Goto
<1>5. ControlOf(r)' /\ SessionOf(r)' BY <1>2, <1>3, <1>4
<1>6. CreateWrites(r)' BY <1>2, <1>3, <1>4
<1>7. FinalizeWrites(r)' BY <1>2, <1>3, <1>4
<1>8. DisputeWrites(r)' BY <1>2, <1>3
<1>9. QED BY <1>5, <1>6, <1>7, <1>8, Zenon

(* A step of r keeps what the invariant says of r ...                      *)
LEMMA OwnStep ==
  ASSUME TypeOK, FreshIds, SessionInv, NEW r \in Request, RequestInv(r), StepOf(r)
  PROVE  RequestInv(r)'
<1>1. CASE Receive(r)      BY <1>1, ReceiveStep
<1>2. CASE CreateStep(r)   BY <1>2, CreateOwnStep
<1>3. CASE FinalizeStep(r) BY <1>3, FinalizeOwnStep
<1>4. CASE DisputeStep(r)  BY <1>4, DisputeOwnStep
<1>5. CASE Notify(r)       BY <1>5, NotifyOwnStep
<1>6. CASE Commit(r) \/ BotCreate(r)
  BY <1>6, EndedStep DEF Commit, BotCreate
<1>7. CASE Abort(r) \/ BreakDeadlock(r)
  BY <1>7, EndedStep DEF Abort, BreakDeadlock, Refuse
<1>8. QED BY <1>1, <1>2, <1>3, <1>4, <1>5, <1>6, <1>7 DEF StepOf, HandlerStep

(* ... and what it says of the others.                                     *)
LEMMA OtherStep ==
  ASSUME TypeOK, SessionInv, NEW r \in Request, StepOf(r),
         NEW q \in Request \ {r}, RequestInv(q)
  PROVE  RequestInv(q)'
<1>1. pc'[q] = pc[q] /\ body'[q] = body[q] /\ ses'[q] = ses[q] BY Frame
<1>2. DOMAIN inst \subseteq DOMAIN inst' /\ DOMAIN inst' \subseteq DOMAIN inst \cup {r}
  BY Growth
<1>3. ses[q].id \in DOMAIN inst' <=> ses[q].id \in DOMAIN inst
  BY <1>2 DEF RequestInv, SessionOf
<1>4. NoSession(q)' = NoSession(q) BY DEF NoSession, NewRow
<1>5. ControlOf(q)' BY <1>1 DEF RequestInv, ControlOf
<1>6. SessionOf(q)' BY <1>1, <1>3, <1>4 DEF RequestInv, SessionOf
<1>7. CreateWrites(q)' BY <1>1, <1>3 DEF RequestInv, CreateWrites
<1>8. FinalizeWrites(q)' BY <1>1, <1>3 DEF RequestInv, FinalizeWrites
<1>9. DisputeWrites(q)' BY <1>1 DEF RequestInv, DisputeWrites
<1>10. QED BY <1>5, <1>6, <1>7, <1>8, <1>9 DEF RequestInv

-----------------------------------------------------------------------------
(* What a step does to the life cycle: nothing, or a step of KpiLifecycle. *)
LEMMA SameLifecycle ==
  ASSUME inst' = inst, history' = history
  PROVE  UNCHANGED <<StatusOf, ApprovalsOnRecord>>
BY DEF StatusOf, ApprovalsOnRecord

(* The handlers that write no approval add no approval to the record.      *)
LEMMA SameRecord ==
  ASSUME NEW E, history' = history \cup E, \A e \in E : e.action # "finalize"
  PROVE  ApprovalsOnRecord' = ApprovalsOnRecord
BY DEF ApprovalsOnRecord

LEMMA BotCreateLifecycle ==
  ASSUME TypeOK, FreshIds, NEW r \in Request, BotCreate(r)
  PROVE  Lifecycle!Submit(r)
<1>1. r \notin DOMAIN inst BY DEF BotCreate, FreshIds
<1> DEFINE row == NewRow(body[r].key, body[r].period, body[r].salary, "submitted")
           filled == [row EXCEPT !.total = Calculate(row.salary, {})]
<1>2. inst' = [i \in DOMAIN inst \cup {r} |-> IF i = r THEN filled ELSE inst[i]]
  BY DEF BotCreate
<1>3. filled.status = "submitted" BY DEF NewRow
<1>4. StatusOf' = [StatusOf EXCEPT ![r] = "submitted"]
  BY <1>1, <1>2, <1>3 DEF StatusOf, TypeOK
<1>5. StatusOf[r] = "absent" BY <1>1 DEF StatusOf
<1>6. ApprovalsOnRecord' = ApprovalsOnRecord
  <2> DEFINE E == {[by |-> r, id |-> r, action |-> "create_from_bot", before |-> "none"]}
  <2>1. history' = history \cup E BY DEF BotCreate
  <2>2. \A e \in E : e.action # "finalize" OBVIOUS
  <2> HIDE DEF E
  <2>3. QED BY <2>1, <2>2, SameRecord
<1>7. QED BY <1>4, <1>5, <1>6 DEF Lifecycle!Submit

LEMMA CommitLifecycle ==
  ASSUME TypeOK, ControlInv, FreshIds, SessionInv, StatusWrites,
         NEW r \in Request, Commit(r)
  PROVE  \/ UNCHANGED <<StatusOf, ApprovalsOnRecord>>
         \/ Lifecycle!Submit(r)
         \/ \E i \in Request : Lifecycle!Approve(i, r)
<1> DEFINE i == ses[r].id
<1>1. /\ pc[r] = "commit" /\ history' = history \cup ses[r].history
      /\ ses[r] \in Session /\ i \in Request
  BY DEF Commit, TypeOK, Session
<1>2. ses[r].dirty # {} =>
        /\ inst' = [j \in DOMAIN inst \cup {i} |-> IF j = i THEN Merged(r) ELSE inst[j]]
        /\ Merged(r).status = IF "status" \in ses[r].dirty THEN ses[r].obj.status
                                                         ELSE inst[i].status
  BY DEF Commit, Merged, Column
<1>3. CASE body[r].op = "dispute"
  <2>1. ses[r].dirty = {} /\ \A e \in ses[r].history : e.action # "finalize"
    BY <1>3 DEF StatusWrites, DisputeWrites
  <2>2. inst' = inst BY <2>1 DEF Commit
  <2>3. StatusOf' = StatusOf BY <2>2 DEF StatusOf
  <2>4. ApprovalsOnRecord' = ApprovalsOnRecord BY <1>1, <2>1, SameRecord
  <2>5. QED BY <2>3, <2>4
<1>4. CASE body[r].op = "create"
  <2>1. /\ ses[r].obj.status = "submitted"
        /\ IF i \in DOMAIN inst THEN "status" \notin ses[r].dirty
                               ELSE ses[r].dirty = Column
        /\ \A e \in ses[r].history : e.action # "finalize"
    BY <1>1, <1>4 DEF StatusWrites, CreateWrites
  <2>2. ApprovalsOnRecord' = ApprovalsOnRecord BY <1>1, <2>1, SameRecord
  <2>3. CASE i \in DOMAIN inst
    <3>1. CASE ses[r].dirty = {} BY <3>1, <2>2 DEF Commit, StatusOf
    <3>2. CASE ses[r].dirty # {}
      <4>1. StatusOf' = StatusOf BY <1>2, <2>1, <2>3, <3>2 DEF StatusOf
      <4>2. QED BY <2>2, <4>1
    <3>3. QED BY <3>1, <3>2
  <2>4. CASE i \notin DOMAIN inst
    <3>1. i = r /\ "status" \in ses[r].dirty
      BY <2>1, <2>4 DEF SessionInv, SessionOf, Column
    <3>2. StatusOf' = [StatusOf EXCEPT ![r] = "submitted"]
      BY <1>2, <2>1, <2>4, <3>1 DEF StatusOf
    <3>3. StatusOf[r] = "absent" BY <2>4, <3>1 DEF StatusOf
    <3>4. QED BY <2>2, <3>2, <3>3 DEF Lifecycle!Submit
  <2>5. QED BY <2>3, <2>4
<1>5. CASE body[r].op = "finalize"
  <2>1. /\ i \in DOMAIN inst /\ ses[r].dirty = {"status"}
        /\ ses[r].obj.status = "approved"
        /\ \E e \in ses[r].history : e.action = "finalize"
        /\ \A e \in ses[r].history : e.id = i /\ e.by = r
    BY <1>1, <1>5 DEF StatusWrites, FinalizeWrites
  <2>2. StatusOf' = [StatusOf EXCEPT ![i] = "approved"]
    BY <1>1, <1>2, <2>1 DEF StatusOf
  <2>3. ApprovalsOnRecord' = ApprovalsOnRecord \cup {<<i, r>>}
    BY <1>1, <2>1 DEF ApprovalsOnRecord
  <2>4. StatusOf[i] \in {"submitted", "approved"}
    BY <1>1, <2>1 DEF StatusOf, FreshIds
  <2>5. Lifecycle!Approve(i, r) BY <2>2, <2>3, <2>4 DEF Lifecycle!Approve
  <2>6. QED BY <1>1, <2>5
<1>6. QED BY <1>1, <1>3, <1>4, <1>5 DEF ControlInv, ControlOf

LEMMA StepLifecycle ==
  ASSUME IInv, NEW r \in Request, StepOf(r)
  PROVE  UNCHANGED <<StatusOf, ApprovalsOnRecord>> \/ Lifecycle!Next
<1>1. CASE Commit(r)
  BY <1>1, CommitLifecycle DEF IInv, Lifecycle!Next
<1>2. CASE BotCreate(r)
  BY <1>2, BotCreateLifecycle DEF IInv, Lifecycle!Next
<1>3. CASE inst' = inst /\ history' = history BY <1>3, SameLifecycle
<1>4. QED BY <1>1, <1>2, <1>3, Frame DEF IInv

LEMMA LifecycleStep ==
  ASSUME IInv, [Next]_vars
  PROVE  [Lifecycle!Next]_<<StatusOf, ApprovalsOnRecord>>
<1>1. CASE UNCHANGED vars BY <1>1, SameLifecycle DEF vars
<1>2. CASE Next BY <1>2, StepLifecycle DEF Next, StepOf
<1>3. QED BY <1>1, <1>2

(* The approval properties, told in terms of the life cycle.               *)
LEMMA ApprovedStatus ==
  ASSUME NEW i \in Request
  PROVE  IsApproved(i) <=> StatusOf[i] = "approved"
BY DEF IsApproved, StatusOf

LEMMA RecordedApproval ==
  ASSUME NEW i \in Request, history \subseteq Entry
  PROVE  (\E e \in history : e.id = i /\ e.action = "finalize")
           <=> \E a \in Request : <<i, a>> \in ApprovalsOnRecord
BY DEF ApprovalsOnRecord, Entry

LEMMA AuditStep ==
  ASSUME IInv, [Next]_vars, TypeOK'
  PROVE  ApprovalAudited'
<1>1. SUFFICES ASSUME NEW i \in Request
               PROVE  (IsApproved(i) <=> \E e \in history : e.id = i /\ e.action = "finalize")'
  BY DEF ApprovalAudited
<1> SUFFICES StatusOf'[i] = "approved"
               <=> \E a \in Request : <<i, a>> \in ApprovalsOnRecord'
  <2>1. IsApproved(i)' <=> StatusOf'[i] = "approved" BY DEF IsApproved, StatusOf
  <2>2. (\E e \in history' : e.id = i /\ e.action = "finalize")
          <=> \E a \in Request : <<i, a>> \in ApprovalsOnRecord'
    BY DEF TypeOK, ApprovalsOnRecord, Entry
  <2>3. QED BY <2>1, <2>2
<1>2. StatusOf[i] = "approved" <=> \E a \in Request : <<i, a>> \in ApprovalsOnRecord
  BY ApprovedStatus, RecordedApproval DEF IInv, TypeOK, ApprovalAudited
<1>3. CASE UNCHANGED <<StatusOf, ApprovalsOnRecord>> BY <1>2, <1>3
<1>4. CASE Lifecycle!Next
  BY <1>2, <1>4 DEF Lifecycle!Next, Lifecycle!Submit, Lifecycle!Approve, StatusOf
<1>5. QED BY <1>3, <1>4, LifecycleStep

(* A step that adds a row is the last one of its request.                  *)
LEMMA FreshStep ==
  ASSUME IInv, NEW r \in Request, StepOf(r), TypeOK'
  PROVE  FreshIds'
<1>1. SUFFICES ASSUME NEW i \in DOMAIN inst'
               PROVE  pc'[i] = "done" /\ inst'[i].status \in {"submitted", "approved"}
  BY DEF FreshIds
<1>2. i \in Request BY DEF TypeOK
<1>3. inst'[i].status \in {"submitted", "approved"}
  <2>1. StatusOf[i] \in {"absent", "submitted", "approved"}
    BY <1>2 DEF IInv, FreshIds, StatusOf
  <2>2. StatusOf'[i] \in {"absent", "submitted", "approved"}
    <3>1. CASE UNCHANGED <<StatusOf, ApprovalsOnRecord>> BY <2>1, <3>1
    <3>2. CASE Lifecycle!Next
      BY <1>2, <2>1, <3>2 DEF Lifecycle!Next, Lifecycle!Submit, Lifecycle!Approve, StatusOf
    <3>3. QED BY <3>1, <3>2, StepLifecycle
  <2>3. StatusOf'[i] = inst'[i].status BY <1>2 DEF StatusOf
  <2>4. inst'[i].status # "absent" BY DEF TypeOK, Row, KPIStatus
  <2>5. QED BY <2>2, <2>3, <2>4
<1>4. CASE Commit(r) \/ BotCreate(r)
  <2>1. pc'[r] = "done" BY <1>4 DEF Commit, BotCreate, Answer, Goto, IInv, TypeOK
  <2>2. i = r \/ i \in DOMAIN inst BY Growth DEF IInv
  <2>3. i # r => pc'[i] = pc[i] BY <1>2, Frame DEF IInv
  <2>4. QED BY <1>3, <2>1, <2>2, <2>3 DEF IInv, FreshIds
<1>5. CASE inst' = inst
  <2>1. pc[i] = "done" BY <1>5 DEF IInv, FreshIds
  <2>2. pc[r] # "done" \/ pc'[r] = "done"
    BY DEF StepOf, HandlerStep, CreateStep, FinalizeStep, DisputeStep, Receive,
           RejectDuplicates, RejectClosed, LoadExisting, InsertNew, LoadMetrics,
           UpdateExisting, DeleteMetrics, DeleteDisputed, InsertMetrics,
           RaiseTypeError, CalculateAndAudit, GetMissing, GetApproved,
           GetInstance, Approve, InsertDispute, RejectDispute, Notify, Commit,
           BotCreate, Abort, BreakDeadlock, Open, Refuse, Answer, Goto, IInv, TypeOK
  <2>3. i # r => pc'[i] = pc[i] BY <1>2, Frame DEF IInv
  <2>4. QED BY <1>3, <2>1, <2>2, <2>3
<1>6. QED BY <1>4, <1>5, Frame DEF IInv

LEMMA InvStep ==
  ASSUME IInv, [Next]_vars
  PROVE  IInv'
<1>1. TypeOK' BY TypeStep DEF IInv
<1>2. CASE UNCHANGED vars
  BY <1>2 DEF vars, IInv, TypeOK, ControlInv, ControlOf, FreshIds, SessionInv, SessionOf,
       NoSession, NewRow, StatusWrites, CreateWrites, FinalizeWrites, DisputeWrites,
       ApprovalAudited, IsApproved
<1>3. CASE Next
  <2>1. PICK r \in Request : StepOf(r) BY <1>3 DEF Next, StepOf
  <2>2. \A q \in Request : RequestInv(q)
    BY DEF IInv, RequestInv, ControlInv, SessionInv, StatusWrites
  <2>3. ASSUME NEW q \in Request PROVE RequestInv(q)'
    BY <2>1, <2>2, OwnStep, OtherStep DEF IInv
  <2>4. ControlInv' /\ SessionInv' /\ StatusWrites'
    BY <2>3 DEF RequestInv, ControlInv, SessionInv, StatusWrites
  <2>5. FreshIds' BY <1>1, <2>1, FreshStep
  <2>6. ApprovalAudited' BY <1>1, AuditStep
  <2>7. QED BY <1>1, <2>4, <2>5, <2>6 DEF IInv
<1>4. QED BY <1>2, <1>3

LEMMA InvInit == Init => IInv
<1>1. SUFFICES ASSUME Init PROVE IInv
  OBVIOUS
<1>2. TypeOK BY <1>1, InitType
<1>3. DOMAIN inst = {} /\ history = {} BY <1>1 DEF Init
<1>4. \A r \in Request : pc[r] = "idle" /\ ses[r] = NoSession(r) /\ body[r] = NoBody
  BY <1>1 DEF Init
<1>5. \A r \in Request : NoSession(r).id = r /\ NoSession(r).dirty = {}
  BY DEF NoSession
<1>6. ControlInv /\ StatusWrites
  BY <1>4 DEF ControlInv, ControlOf, StatusWrites, CreateWrites, FinalizeWrites,
       DisputeWrites, CreateSteps, FinalizeSteps, NoBody
<1>7. SessionInv BY <1>4, <1>5 DEF SessionInv, SessionOf
<1>8. FreshIds /\ ApprovalAudited BY <1>3 DEF FreshIds, ApprovalAudited, IsApproved
<1>9. QED BY <1>2, <1>6, <1>7, <1>8 DEF IInv

-----------------------------------------------------------------------------
(* IInv is inductive: it holds of every state of every behavior, for any   *)
(* number of requests served at the same time.                             *)
THEOREM Invariance == Spec => []IInv
<1>1. Init => IInv BY InvInit
<1>2. IInv /\ [Next]_vars => IInv' BY InvStep
<1>3. QED BY <1>1, <1>2, PTL DEF Spec

(* Every variable keeps its type.                                          *)
THEOREM TypeCorrect == Spec => []TypeOK
<1>1. IInv => TypeOK BY DEF IInv
<1>2. QED BY <1>1, Invariance, PTL

(* An instance is approved exactly when its finalization is on record in   *)
(* kpi_history (kpi.py:187-188), under any interleaving.                   *)
THEOREM AuditOfApprovals == Spec => []ApprovalAudited
<1>1. IInv => ApprovalAudited BY DEF IInv
<1>2. QED BY <1>1, Invariance, PTL

(* No handler, however late it writes, takes an approval back.             *)
LEMMA ApprovalKept ==
  ASSUME IInv, [Next]_vars, NEW i \in Request, IsApproved(i)
  PROVE  IsApproved(i)'
<1>1. StatusOf[i] = "approved" BY ApprovedStatus
<1>2. StatusOf'[i] = "approved"
  <2>1. CASE UNCHANGED <<StatusOf, ApprovalsOnRecord>> BY <1>1, <2>1
  <2>2. CASE Lifecycle!Next
    BY <1>1, <2>2 DEF Lifecycle!Next, Lifecycle!Submit, Lifecycle!Approve, StatusOf
  <2>3. QED BY <2>1, <2>2, LifecycleStep
<1>3. QED BY <1>2 DEF IsApproved, StatusOf

(* An approval is final, under any interleaving (kpi.py:113).              *)
THEOREM ApprovalIsFinal == Spec => ApprovalPermanent
<1>1. IInv /\ [Next]_vars => [\A i \in Request : IsApproved(i) => IsApproved(i)']_vars
  BY ApprovalKept
<1>2. QED BY <1>1, Invariance, PTL DEF Spec, ApprovalPermanent

(* The handlers implement the abstract life cycle: what they do to status  *)
(* and to the approvals on record is submit once, then only approve.       *)
THEOREM Refinement == Spec => ImplementsLifecycle
<1>1. Init => Lifecycle!Init
  BY DEF Init, Lifecycle!Init, StatusOf, ApprovalsOnRecord
<1>2. IInv /\ [Next]_vars => [Lifecycle!Next]_(Lifecycle!vars)
  BY LifecycleStep DEF Lifecycle!vars
<1>3. QED BY <1>1, <1>2, Invariance, PTL DEF Spec, ImplementsLifecycle, Lifecycle!Spec

-----------------------------------------------------------------------------
(* Answers, references and messages.                                       *)

(* What the invariant says of the session of one request, of the messages  *)
(* it sent and of its answer.                                              *)
AnsweredOf(r)  == reply[r] # "pending" => pc[r] = "done"
IntegrityOf(r) == WritesOf(r) /\ SendsOf(r) /\ AnsweredOf(r)

LEMMA IntegrityOfAll ==
  AnswersInv /\ WritesInv /\ SendsInv <=> \A r \in Request : IntegrityOf(r)
BY DEF AnswersInv, WritesInv, SendsInv, IntegrityOf, AnsweredOf

-----------------------------------------------------------------------------
(* The steps by what they write.                                           *)

(* The end of a request that wrote nothing.                                *)
Refused(r) == GetApproved(r) \/ \E a \in Reply \ {"ok"} : Refuse(r, a)

(* A step that writes neither metrics nor disputes nor messages.           *)
Quiet(r) ==
  /\ UNCHANGED <<db, outbox, reply>>
  /\ ses'[r].ins = ses[r].ins /\ ses'[r].del = ses[r].del
  /\ ses'[r].dispute = ses[r].dispute /\ ses'[r].log = ses[r].log
  /\ ses'[r].id # ses[r].id \/ body' # body => ses[r].ins = {} /\ ses[r].dispute = {}
  /\ body' # body => reply[r] = "pending"
  /\ pc[r] # "done" /\ pc'[r] # "done"
  /\ (Notified(r)' <=> Notified(r))

LEMMA ReceiveQuiet ==
  ASSUME TypeOK, SessionInv, AnswersInv, NEW r \in Request, Receive(r)
  PROVE  Quiet(r)
<1>1. UNCHANGED <<db, outbox, ses, reply>> /\ pc[r] = "idle" BY DEF Receive
<1>2. ses[r] = NoSession(r) BY <1>1 DEF SessionInv, SessionOf
<1>3. ses[r].ins = {} /\ ses[r].dispute = {} BY <1>2 DEF NoSession
<1>4. pc'[r] \in {"select", "get", "dispute", "bot"} BY DEF Receive, TypeOK, Goto
<1>5. reply[r] = "pending" BY <1>1 DEF AnswersInv
<1>6. ~Notified(r) /\ ~Notified(r)' BY <1>1, <1>4 DEF Notified
<1>7. QED BY <1>1, <1>3, <1>4, <1>5, <1>6 DEF Quiet

LEMMA FlushQuiet ==
  ASSUME TypeOK, NEW r \in Request, NEW new, NEW E, NEW step, Flush(r, new, E, step),
         pc[r] # "done", step # "done", (Notified(r)' <=> Notified(r))
  PROVE  Quiet(r)
<1>1. ses[r] \in Session BY DEF TypeOK
<1>2. /\ ses'[r].ins = ses[r].ins /\ ses'[r].del = ses[r].del /\ ses'[r].id = ses[r].id
      /\ ses'[r].dispute = ses[r].dispute /\ ses'[r].log = ses[r].log
  BY <1>1 DEF Flush, TypeOK, Session
<1>3. UNCHANGED <<db, outbox, body, reply>> /\ pc'[r] = step
  BY DEF Flush, Goto, TypeOK
<1>4. QED BY <1>2, <1>3 DEF Quiet

LEMMA CreateKinds ==
  ASSUME TypeOK, SessionInv, ControlInv, NEW r \in Request, CreateStep(r)
  PROVE  Refused(r) \/ Quiet(r) \/ DeleteMetrics(r) \/ InsertMetrics(r)
<1>1. ses[r] \in Session BY DEF TypeOK
<1>2. CASE RejectDuplicates(r) \/ RejectClosed(r) \/ DeleteDisputed(r) \/ RaiseTypeError(r)
  BY <1>2 DEF RejectDuplicates, RejectClosed, DeleteDisputed, RaiseTypeError, Refused, Reply
<1>3. CASE LoadExisting(r) \/ InsertNew(r)
  <2>1. pc[r] = "select" /\ UNCHANGED <<db, outbox, body, reply>>
    BY <1>3 DEF LoadExisting, InsertNew
  <2>2. ses[r] = NoSession(r) BY <2>1 DEF SessionInv, SessionOf
  <2>3. ses[r].ins = {} /\ ses[r].dispute = {} BY <2>2 DEF NoSession
  <2>4. /\ ses'[r].ins = ses[r].ins /\ ses'[r].del = ses[r].del
        /\ ses'[r].dispute = ses[r].dispute /\ ses'[r].log = ses[r].log
    <3>1. CASE LoadExisting(r)
      <4>1. PICK i \in DOMAIN inst : ses' = [ses EXCEPT ![r].id = i, ![r].obj = inst[i]]
        BY <3>1 DEF LoadExisting, Matches
      <4>2. QED BY <1>1, <4>1 DEF TypeOK, Session
    <3>2. CASE InsertNew(r) BY <1>1, <3>2 DEF InsertNew, TypeOK, Session
    <3>3. QED BY <1>3, <3>1, <3>2
  <2>5. pc'[r] \in {"collection", "insert"}
    BY <1>3 DEF LoadExisting, InsertNew, TypeOK, Goto
  <2>6. ~Notified(r) /\ ~Notified(r)' BY <2>1, <2>5 DEF Notified
  <2>7. QED BY <2>1, <2>3, <2>4, <2>5, <2>6 DEF Quiet
<1>4. CASE LoadMetrics(r)
  <2>1. /\ ses'[r].ins = ses[r].ins /\ ses'[r].del = ses[r].del /\ ses'[r].id = ses[r].id
        /\ ses'[r].dispute = ses[r].dispute /\ ses'[r].log = ses[r].log
    BY <1>1, <1>4 DEF LoadMetrics, TypeOK, Session
  <2>2. UNCHANGED <<db, outbox, body, reply>> /\ pc[r] = "collection" /\ pc'[r] = "update"
    BY <1>4 DEF LoadMetrics, TypeOK, Goto
  <2>3. QED BY <2>1, <2>2 DEF Quiet, Notified
<1>5. CASE UpdateExisting(r)
  <2>1. pc[r] = "update" /\ pc'[r] = "delete" BY <1>5 DEF UpdateExisting, Flush, TypeOK, Goto
  <2>2. QED BY <1>5, <2>1, FlushQuiet DEF UpdateExisting, Notified
<1>6. CASE CalculateAndAudit(r)
  <2>1. pc[r] = "calculate" /\ pc'[r] = "notify"
    BY <1>6 DEF CalculateAndAudit, Flush, TypeOK, Goto
  <2>2. QED BY <1>6, <2>1, FlushQuiet DEF CalculateAndAudit, Notified
<1>7. QED BY <1>2, <1>3, <1>4, <1>5, <1>6 DEF CreateStep

LEMMA FinalizeKinds ==
  ASSUME TypeOK, SessionInv, NEW r \in Request, FinalizeStep(r)
  PROVE  Refused(r) \/ Quiet(r)
<1>1. ses[r] \in Session BY DEF TypeOK
<1>2. CASE GetMissing(r) \/ GetApproved(r)
  BY <1>2 DEF GetMissing, Refused, Reply
<1>3. CASE GetInstance(r)
  <2>1. pc[r] = "get" /\ UNCHANGED <<db, outbox, body, reply>> BY <1>3 DEF GetInstance
  <2>2. ses[r] = NoSession(r) BY <2>1 DEF SessionInv, SessionOf
  <2>3. ses[r].ins = {} /\ ses[r].dispute = {} BY <2>2 DEF NoSession
  <2>4. /\ ses'[r].ins = ses[r].ins /\ ses'[r].del = ses[r].del
        /\ ses'[r].dispute = ses[r].dispute /\ ses'[r].log = ses[r].log
    BY <1>1, <1>3 DEF GetInstance, TypeOK, Session
  <2>5. pc'[r] = IF body[r].own THEN "notify" ELSE "approve"
    BY <1>3 DEF GetInstance, TypeOK, Goto
  <2>6. ~Notified(r) /\ ~Notified(r)' BY <2>1, <2>5 DEF Notified
  <2>7. QED BY <2>1, <2>3, <2>4, <2>5, <2>6 DEF Quiet
<1>4. CASE Approve(r)
  <2>1. /\ pc[r] = "approve" /\ body' = body
        /\ pc'[r] = IF body[r].own THEN "commit" ELSE "notify"
    BY <1>4 DEF Approve, Flush, TypeOK, Goto
  <2>2. (Notified(r)' <=> Notified(r))
    <3>1. CASE body[r].own  BY <2>1, <3>1 DEF Notified
    <3>2. CASE ~body[r].own BY <2>1, <3>2 DEF Notified
    <3>3. QED BY <3>1, <3>2
  <2>3. QED BY <1>4, <2>1, <2>2, FlushQuiet DEF Approve
<1>5. QED BY <1>2, <1>3, <1>4 DEF FinalizeStep

LEMMA StepKinds ==
  ASSUME TypeOK, SessionInv, ControlInv, AnswersInv, NEW r \in Request, StepOf(r)
  PROVE  \/ Refused(r) \/ Quiet(r) \/ DeleteMetrics(r) \/ InsertMetrics(r)
         \/ InsertDispute(r) \/ Notify(r) \/ Commit(r) \/ BotCreate(r)
<1>1. CASE Receive(r)      BY <1>1, ReceiveQuiet
<1>2. CASE CreateStep(r)   BY <1>2, CreateKinds
<1>3. CASE FinalizeStep(r) BY <1>3, FinalizeKinds
<1>4. CASE DisputeStep(r)
  BY <1>4 DEF DisputeStep, RejectDispute, Refused, Reply
<1>5. CASE Abort(r) \/ BreakDeadlock(r)
  BY <1>5 DEF Abort, BreakDeadlock, Refused, Reply
<1>6. QED BY <1>1, <1>2, <1>3, <1>4, <1>5 DEF StepOf, HandlerStep

-----------------------------------------------------------------------------
(* What the invariant says of one request.                                 *)

(* An ended request has nothing left to write and is answered.             *)
LEMMA EndedIntegrity ==
  ASSUME TypeOK, NEW r \in Request, NEW a, Answer(r, a)
  PROVE  IntegrityOf(r)'
<1>1. pc'[r] = "done" /\ ses'[r] = NoSession(r) BY DEF TypeOK, Answer, Goto
<1>2. NoSession(r).ins = {} /\ NoSession(r).dispute = {} /\ NoSession(r).log = {}
  BY DEF NoSession
<1>3. WritesOf(r)' BY <1>1, <1>2 DEF WritesOf
<1>4. SendsOf(r)' BY <1>1, <1>2 DEF SendsOf, Notified
<1>5. QED BY <1>1, <1>3, <1>4 DEF IntegrityOf, AnsweredOf

LEMMA QuietIntegrity ==
  ASSUME TypeOK, NEW r \in Request, IntegrityOf(r), Quiet(r)
  PROVE  IntegrityOf(r)'
<1>1. outbox' = outbox /\ reply' = reply BY DEF Quiet
<1>2. WritesOf(r)' BY DEF Quiet, IntegrityOf, WritesOf
<1>3. MessagesOf(r)' = MessagesOf(r) BY <1>1 DEF MessagesOf
<1>4. SendsOf(r)' BY <1>1, <1>3 DEF Quiet, IntegrityOf, SendsOf
<1>5. AnsweredOf(r)' BY <1>1 DEF Quiet, IntegrityOf, AnsweredOf
<1>6. QED BY <1>2, <1>4, <1>5 DEF IntegrityOf

(* The three statements that write metrics or disputes.                    *)
LEMMA WriteIntegrity ==
  ASSUME TypeOK, SessionInv, ControlInv, NEW r \in Request, IntegrityOf(r),
         DeleteMetrics(r) \/ InsertMetrics(r) \/ InsertDispute(r)
  PROVE  IntegrityOf(r)'
<1>1. ses[r] \in Session BY DEF TypeOK
<1>2. UNCHANGED <<db, outbox, body, reply>> /\ pc[r] \in {"delete", "insert", "dispute"}
  BY DEF DeleteMetrics, InsertMetrics, InsertDispute
<1>3. pc'[r] \in {"insert", "calculate", "notify"}
  BY DEF DeleteMetrics, InsertMetrics, InsertDispute, TypeOK, Goto
<1>4. ses'[r].id = ses[r].id /\ ses'[r].log = ses[r].log
  BY <1>1 DEF DeleteMetrics, InsertMetrics, InsertDispute, TypeOK, Session
<1>5. WritesOf(r)'
  <2>1. CASE DeleteMetrics(r)
    <3>1. ses'[r].ins = ses[r].ins /\ ses'[r].dispute = ses[r].dispute
      BY <1>1, <2>1 DEF DeleteMetrics, TypeOK, Session
    <3>2. QED BY <1>2, <1>4, <3>1 DEF IntegrityOf, WritesOf
  <2>2. CASE InsertMetrics(r)
    <3>1. body[r].op = "create" BY <2>2 DEF InsertMetrics, ControlInv, ControlOf, CreateSteps
    <3>2. /\ ses'[r].dispute = ses[r].dispute
          /\ \A m \in ses'[r].ins : m.inst = ses[r].id
      BY <1>1, <2>2 DEF InsertMetrics, TypeOK, Session
    <3>3. QED BY <1>2, <1>4, <3>1, <3>2 DEF IntegrityOf, WritesOf
  <2>3. CASE InsertDispute(r)
    <3>1. body[r].op = "dispute" /\ ses[r] = NoSession(r)
      BY <2>3 DEF InsertDispute, ControlInv, ControlOf, SessionInv, SessionOf
    <3>2. ses'[r].ins = {} BY <1>1, <2>3, <3>1 DEF InsertDispute, TypeOK, Session, NoSession
    <3>3. QED BY <1>2, <3>1, <3>2 DEF WritesOf
  <2>4. QED BY <2>1, <2>2, <2>3
<1>6. SendsOf(r)'
  <2>1. MessagesOf(r)' = MessagesOf(r) BY <1>2 DEF MessagesOf
  <2>2. ~Notified(r) /\ ~Notified(r)' BY <1>2, <1>3 DEF Notified
  <2>3. QED BY <1>2, <1>3, <1>4, <2>1, <2>2 DEF IntegrityOf, SendsOf
<1>7. AnsweredOf(r)' BY <1>2 DEF IntegrityOf, AnsweredOf
<1>8. QED BY <1>5, <1>6, <1>7 DEF IntegrityOf

(* What a request sends is in the log its session will commit.             *)
LEMMA NotifyEffect ==
  ASSUME TypeOK, NEW r \in Request, Notify(r)
  PROVE  /\ UNCHANGED <<db, body, reply>> /\ pc[r] = "notify"
         /\ ses'[r] = [ses[r] EXCEPT !.log = ses'[r].log]
         /\ pc'[r] = "commit" \/ (pc'[r] = "approve" /\ body[r].own)
         /\ \/ /\ outbox' = outbox \cup {MessageOf(r)}
               /\ [message |-> MessageOf(r), status |-> "sent"] \in ses'[r].log
            \/ outbox' = outbox
         /\ \A n \in ses'[r].log : n.status = "sent" => n.message \in outbox'
<1>1. ses[r] \in Session BY DEF TypeOK
<1>2. PICK results \in Delivery :
        /\ outbox' = outbox \cup (IF "sent" \in results THEN {MessageOf(r)} ELSE {})
        /\ ses' = [ses EXCEPT
             ![r].log = {[message |-> MessageOf(r), status |-> t] : t \in results}]
  BY DEF Notify
<1> DEFINE new == {[message |-> MessageOf(r), status |-> t] : t \in results}
<1>3. ses'[r] = [ses[r] EXCEPT !.log = new] BY <1>2 DEF TypeOK
<1>4. ses'[r].log = new BY <1>1, <1>3 DEF Session
<1>5. pc'[r] = "commit" \/ (pc'[r] = "approve" /\ body[r].own)
  BY DEF Notify, TypeOK, Goto
<1>6. \/ /\ outbox' = outbox \cup {MessageOf(r)}
         /\ [message |-> MessageOf(r), status |-> "sent"] \in ses'[r].log
      \/ outbox' = outbox
  BY <1>2, <1>4
<1>7. \A n \in new : n.status = "sent" => n.message \in outbox' BY <1>2
<1>8. QED BY <1>3, <1>4, <1>5, <1>6, <1>7 DEF Notify

LEMMA NotifyIntegrity ==
  ASSUME TypeOK, NEW r \in Request, IntegrityOf(r), Notify(r)
  PROVE  IntegrityOf(r)'
<1>1. ses[r] \in Session BY DEF TypeOK
<1>2. /\ UNCHANGED <<db, body, reply>> /\ pc[r] = "notify"
      /\ ses'[r] = [ses[r] EXCEPT !.log = ses'[r].log]
      /\ pc'[r] = "commit" \/ (pc'[r] = "approve" /\ body[r].own)
      /\ \A n \in ses'[r].log : n.status = "sent" => n.message \in outbox'
  BY NotifyEffect
<1>3. WritesOf(r)'
  <2>1. ses'[r].ins = ses[r].ins /\ ses'[r].dispute = ses[r].dispute /\ ses'[r].id = ses[r].id
    BY <1>1, <1>2 DEF Session
  <2>2. QED BY <1>2, <2>1 DEF IntegrityOf, WritesOf
<1>4. Notified(r)' BY <1>2 DEF Notified
<1>5. \A m \in MessagesOf(r)' : [message |-> m, status |-> "sent"] \in ses'[r].log
  <2>1. MessagesOf(r) = {} BY <1>2 DEF IntegrityOf, SendsOf, Notified
  <2>2. \A m \in outbox : m.by # r BY <2>1 DEF MessagesOf
  <2>3. \/ /\ outbox' = outbox \cup {MessageOf(r)}
           /\ [message |-> MessageOf(r), status |-> "sent"] \in ses'[r].log
        \/ outbox' = outbox
    BY NotifyEffect
  <2>4. QED BY <2>2, <2>3 DEF MessagesOf
<1>6. SendsOf(r)' BY <1>2, <1>4, <1>5 DEF SendsOf
<1>7. AnsweredOf(r)' BY <1>2 DEF IntegrityOf, AnsweredOf
<1>8. QED BY <1>3, <1>6, <1>7 DEF IntegrityOf

LEMMA OwnIntegrity ==
  ASSUME TypeOK, SessionInv, ControlInv, AnswersInv,
         NEW r \in Request, IntegrityOf(r), StepOf(r)
  PROVE  IntegrityOf(r)'
<1>1. CASE Refused(r) BY <1>1, EndedIntegrity DEF Refused, GetApproved, Refuse
<1>2. CASE Quiet(r) BY <1>2, QuietIntegrity
<1>3. CASE DeleteMetrics(r) \/ InsertMetrics(r) \/ InsertDispute(r)
  BY <1>3, WriteIntegrity
<1>4. CASE Notify(r) BY <1>4, NotifyIntegrity
<1>5. CASE Commit(r) \/ BotCreate(r) BY <1>5, EndedIntegrity DEF Commit, BotCreate
<1>6. QED BY <1>1, <1>2, <1>3, <1>4, <1>5, StepKinds

(* A request sends messages and gets answers of its own only.              *)
LEMMA OthersFrame ==
  ASSUME TypeOK, SessionInv, ControlInv, AnswersInv, NEW r \in Request, StepOf(r)
  PROVE  /\ \A q \in Request \ {r} : reply'[q] = reply[q]
         /\ outbox \subseteq outbox' /\ \A m \in outbox' \ outbox : m.by = r
<1>1. CASE Refused(r)
  BY <1>1 DEF Refused, GetApproved, Refuse, Answer, TypeOK
<1>2. CASE Quiet(r) BY <1>2 DEF Quiet
<1>3. CASE DeleteMetrics(r) \/ InsertMetrics(r) \/ InsertDispute(r)
  BY <1>3 DEF DeleteMetrics, InsertMetrics, InsertDispute
<1>4. CASE Notify(r)
  <2>1. outbox' = outbox \cup {MessageOf(r)} \/ outbox' = outbox
    BY <1>4, NotifyEffect
  <2>2. MessageOf(r).by = r BY DEF MessageOf
  <2>3. QED BY <1>4, <2>1, <2>2 DEF Notify
<1>5. CASE Commit(r) \/ BotCreate(r)
  BY <1>5 DEF Commit, BotCreate, Answer, TypeOK
<1>6. QED BY <1>1, <1>2, <1>3, <1>4, <1>5, StepKinds

LEMMA OtherIntegrity ==
  ASSUME TypeOK, SessionInv, ControlInv, AnswersInv, NEW r \in Request, StepOf(r),
         NEW q \in Request \ {r}, IntegrityOf(q)
  PROVE  IntegrityOf(q)'
<1>1. /\ pc'[q] = pc[q] /\ body'[q] = body[q] /\ ses'[q] = ses[q]
      /\ reply'[q] = reply[q]
  BY Frame, OthersFrame
<1>2. WritesOf(q)' BY <1>1 DEF IntegrityOf, WritesOf
<1>3. outbox \subseteq outbox' /\ MessagesOf(q)' = MessagesOf(q)
  BY OthersFrame DEF MessagesOf
<1>4. Notified(q)' <=> Notified(q) BY <1>1 DEF Notified
<1>5. SendsOf(q)' BY <1>1, <1>3, <1>4 DEF IntegrityOf, SendsOf
<1>6. AnsweredOf(q)' BY <1>1 DEF IntegrityOf, AnsweredOf
<1>7. QED BY <1>2, <1>5, <1>6 DEF IntegrityOf

-----------------------------------------------------------------------------
(* The rows that reference others.                                         *)

(* What a step that files no dispute leaves of the references.             *)
LEMMA SameReferences ==
  ASSUME TypeOK, NEW r \in Request, StepOf(r),
         dispute' \subseteq dispute \cup ses[r].dispute,
         ses'[r].dispute \subseteq ses[r].dispute
  PROVE  References' \subseteq References
<1>1. \A q \in Request \ {r} : ses'[q] = ses[q] BY Frame
<1>2. SUFFICES ASSUME NEW d \in References' PROVE d \in References
  OBVIOUS
<1>3. CASE d \in dispute' BY <1>3 DEF References
<1>4. CASE \E q \in Request : d \in ses'[q].dispute
  <2>1. PICK q \in Request : d \in ses'[q].dispute BY <1>4
  <2>2. d \in ses[q].dispute BY <1>1, <2>1
  <2>3. QED BY <2>2 DEF References
<1>5. QED BY <1>3, <1>4 DEF References

(* What holds of a dispute that does not dangle.                           *)
Sound(d) ==
  /\ d.inst \in DOMAIN inst /\ d.metric \subseteq metric
  /\ \A r \in Request : d.metric \cap ses[r].del = {}

LEMMA SoundKept ==
  ASSUME TypeOK, SessionInv, NEW r \in Request, StepOf(r), NEW d, Sound(d),
         metric \ ses[r].del \subseteq metric', d.metric \cap ses'[r].del = {}
  PROVE  Sound(d)'
<1>1. \A q \in Request \ {r} : ses'[q] = ses[q] BY Frame
<1>2. DOMAIN inst \subseteq DOMAIN inst' BY Growth
<1>3. QED BY <1>1, <1>2 DEF Sound

LEMMA DisputesSound ==
  ReferencesInv <=> /\ \A m \in metric : m.inst \in DOMAIN inst
                    /\ \A d \in References : Sound(d)
BY DEF ReferencesInv, Sound

(* A step that touches neither metrics nor disputes.                       *)
LEMMA KeptReferences ==
  ASSUME TypeOK, SessionInv, ReferencesInv, NEW r \in Request, StepOf(r),
         metric' = metric, dispute' = dispute,
         ses'[r].dispute \subseteq ses[r].dispute, ses'[r].del \subseteq ses[r].del
  PROVE  ReferencesInv'
<1>1. References' \subseteq References BY SameReferences
<1>2. ASSUME NEW d \in References' PROVE Sound(d)'
  <2>1. Sound(d) BY <1>1, DisputesSound
  <2>2. d.metric \cap ses'[r].del = {} BY <2>1 DEF Sound
  <2>3. QED BY <2>1, <2>2, SoundKept
<1>3. \A m \in metric' : m.inst \in DOMAIN inst' BY Growth DEF ReferencesInv
<1>4. QED BY <1>2, <1>3 DEF ReferencesInv, Sound

(* The end of a request takes its locks and what it did not commit along.  *)
LEMMA NoSessionEmpty ==
  ASSUME TypeOK, NEW r \in Request, NEW a, Answer(r, a)
  PROVE  ses'[r].dispute = {} /\ ses'[r].del = {} /\ ses'[r].ins = {}
BY DEF Answer, TypeOK, NoSession

LEMMA DeleteReferences ==
  ASSUME TypeOK, SessionInv, ControlInv, WritesInv, ReferencesInv,
         NEW r \in Request, StepOf(r), DeleteMetrics(r)
  PROVE  ReferencesInv'
<1>1. ses[r] \in Session BY DEF TypeOK
<1>2. /\ metric' = metric /\ dispute' = dispute
      /\ ses'[r].dispute = ses[r].dispute /\ ses'[r].del = ses[r].metrics
  BY <1>1 DEF DeleteMetrics, TypeOK, Session, db
<1>3. ses[r].dispute = {}
  BY DEF DeleteMetrics, ControlInv, ControlOf, CreateSteps, WritesInv, WritesOf
<1>4. References' \subseteq References BY <1>2, SameReferences
<1>5. ASSUME NEW d \in References' PROVE Sound(d)'
  <2>1. Sound(d) BY <1>4, <1>5, DisputesSound
  <2>2. d \in dispute \/ \E q \in Request \ {r} : d \in ses[q].dispute
    BY <1>3, <1>4, <1>5 DEF References
  <2>3. d.metric \cap ses[r].metrics = {}
    BY <2>2 DEF DeleteMetrics, Referencers
  <2>4. QED BY <1>2, <2>1, <2>3, SoundKept
<1>6. \A m \in metric' : m.inst \in DOMAIN inst' BY <1>2, Growth DEF ReferencesInv
<1>7. QED BY <1>5, <1>6 DEF ReferencesInv, Sound

LEMMA DisputeReferences ==
  ASSUME TypeOK, SessionInv, ReferencesInv,
         NEW r \in Request, StepOf(r), InsertDispute(r)
  PROVE  ReferencesInv'
<1> DEFINE d == [by |-> r, inst |-> body[r].id, metric |-> body[r].metric]
<1>1. ses[r] \in Session BY DEF TypeOK
<1>2. /\ UNCHANGED db /\ pc[r] = "dispute" /\ DisputeKeysExist(r)
      /\ Deleters(r, body[r].metric) = {}
  BY DEF InsertDispute
<1>3. ses[r] = NoSession(r) BY <1>2 DEF SessionInv, SessionOf
<1>4. ses[r].del = {} /\ ses[r].dispute = {} BY <1>3 DEF NoSession
<1>5. ses'[r].dispute = {d} /\ ses'[r].del = {}
  BY <1>1, <1>4 DEF InsertDispute, TypeOK, Session
<1>6. \A q \in Request \ {r} : ses'[q] = ses[q] BY Frame
<1>7. References' \subseteq References \cup {d} BY <1>2, <1>5, <1>6 DEF References, db
<1>8. Sound(d)
  <2>1. d.inst \in DOMAIN inst /\ d.metric \subseteq metric BY <1>2 DEF DisputeKeysExist
  <2>2. ASSUME NEW q \in Request \ {r} PROVE d.metric \cap ses[q].del = {}
    BY <1>2, <2>1 DEF Deleters
  <2>3. QED BY <1>4, <2>1, <2>2 DEF Sound
<1>9. ASSUME NEW e \in References' PROVE Sound(e)'
  <2>1. Sound(e) BY <1>7, <1>8, DisputesSound
  <2>2. QED BY <1>2, <1>5, <2>1, SoundKept DEF db
<1>10. \A m \in metric' : m.inst \in DOMAIN inst' BY <1>2, Growth DEF ReferencesInv, db
<1>11. QED BY <1>9, <1>10 DEF ReferencesInv, Sound

LEMMA CommitReferences ==
  ASSUME TypeOK, SessionInv, ControlInv, StatusWrites, WritesInv, ReferencesInv,
         NEW r \in Request, StepOf(r), Commit(r)
  PROVE  ReferencesInv'
<1>1. ses[r] \in Session BY DEF TypeOK
<1>2. /\ metric' = (metric \ ses[r].del) \cup ses[r].ins
      /\ dispute' = dispute \cup ses[r].dispute /\ pc[r] = "commit"
      /\ ses'[r].dispute = {} /\ ses'[r].del = {}
  BY NoSessionEmpty DEF Commit
<1>3. References' \subseteq References BY <1>2, SameReferences
<1>4. ASSUME NEW d \in References' PROVE Sound(d)'
  <2>1. Sound(d) BY <1>3, DisputesSound
  <2>2. QED BY <1>2, <2>1, SoundKept
<1>5. ASSUME NEW m \in metric' PROVE m.inst \in DOMAIN inst'
  <2>1. CASE m \in metric BY <2>1, Growth DEF ReferencesInv
  <2>2. CASE m \in ses[r].ins
    <3>1. m.inst = ses[r].id /\ body[r].op = "create"
      BY <2>2 DEF WritesInv, WritesOf
    <3>2. ses[r].id \in DOMAIN inst \/ ses[r].dirty = Column
      BY <1>2, <3>1 DEF StatusWrites, CreateWrites
    <3>3. ses[r].id \in DOMAIN inst' BY <3>2 DEF Commit, Column
    <3>4. QED BY <3>1, <3>3
  <2>3. QED BY <1>2, <2>1, <2>2
<1>6. QED BY <1>4, <1>5 DEF ReferencesInv, Sound

LEMMA ReferencesStep ==
  ASSUME IInv, AnswersInv, WritesInv, ReferencesInv, NEW r \in Request, StepOf(r)
  PROVE  ReferencesInv'
<1> USE DEF IInv
<1>1. CASE Refused(r)
  <2>1. metric' = metric /\ dispute' = dispute /\ \E a \in Reply : Answer(r, a)
    BY <1>1 DEF Refused, GetApproved, Refuse, db, Reply
  <2>2. ses'[r].dispute = {} /\ ses'[r].del = {} BY <2>1, NoSessionEmpty
  <2>3. QED BY <2>1, <2>2, KeptReferences
<1>2. CASE Quiet(r) BY <1>2, KeptReferences DEF Quiet, db
<1>3. CASE DeleteMetrics(r) BY <1>3, DeleteReferences
<1>4. CASE InsertMetrics(r)
  <2>1. ses[r] \in Session BY DEF TypeOK
  <2>2. ses'[r].dispute = ses[r].dispute /\ ses'[r].del = ses[r].del
    BY <1>4, <2>1 DEF InsertMetrics, TypeOK, Session
  <2>3. QED BY <1>4, <2>2, KeptReferences DEF InsertMetrics, db
<1>5. CASE InsertDispute(r) BY <1>5, DisputeReferences
<1>6. CASE Notify(r)
  <2>1. ses[r] \in Session BY DEF TypeOK
  <2>2. UNCHANGED db /\ ses'[r] = [ses[r] EXCEPT !.log = ses'[r].log]
    BY <1>6, NotifyEffect
  <2>3. ses'[r].dispute = ses[r].dispute /\ ses'[r].del = ses[r].del
    BY <2>1, <2>2 DEF Session
  <2>4. QED BY <2>2, <2>3, KeptReferences DEF db
<1>7. CASE Commit(r) BY <1>7, CommitReferences
<1>8. CASE BotCreate(r)
  <2>1. metric' = metric /\ dispute' = dispute /\ Answer(r, "ok")
    BY <1>8 DEF BotCreate
  <2>2. ses'[r].dispute = {} /\ ses'[r].del = {} BY <2>1, NoSessionEmpty
  <2>3. QED BY <2>1, <2>2, KeptReferences
<1>9. QED BY <1>1, <1>2, <1>3, <1>4, <1>5, <1>6, <1>7, <1>8, StepKinds

-----------------------------------------------------------------------------
(* The answers and the log of messages.                                    *)

(* A request is answered once, and "ok" only by three statements.          *)
LEMMA AnswerStep ==
  ASSUME TypeOK, SessionInv, ControlInv, AnswersInv, NEW r \in Request, StepOf(r),
         reply'[r] = "ok"
  PROVE  GetApproved(r) \/ Commit(r) \/ BotCreate(r)
<1>1. CASE Refused(r) BY <1>1 DEF Refused, Refuse, Answer, TypeOK
<1>2. CASE Quiet(r) BY <1>2 DEF Quiet, AnswersInv
<1>3. CASE DeleteMetrics(r) \/ InsertMetrics(r) \/ InsertDispute(r) \/ Notify(r)
  BY <1>3 DEF DeleteMetrics, InsertMetrics, InsertDispute, Notify, AnswersInv
<1>4. QED BY <1>1, <1>2, <1>3, StepKinds

LEMMA AcknowledgedStep ==
  ASSUME IInv, AnswersInv, AcknowledgedApprovalHolds, NEW r \in Request, StepOf(r)
  PROVE  AcknowledgedApprovalHolds'
<1> USE DEF IInv
<1>1. SUFFICES ASSUME NEW q \in Request, body'[q].op = "finalize", reply'[q] = "ok"
               PROVE  /\ body'[q].id \in DOMAIN inst'
                      /\ inst'[body'[q].id].status = "approved"
  BY DEF AcknowledgedApprovalHolds, IsApproved
<1>2. CASE q # r
  <2>1. body'[q] = body[q] /\ reply'[q] = reply[q] BY <1>2, Frame, OthersFrame
  <2>2. IsApproved(body[q].id) BY <1>1, <2>1 DEF AcknowledgedApprovalHolds
  <2>3. PICK i \in Request : i = body[q].id BY <2>2 DEF IsApproved, TypeOK
  <2>4. [Next]_vars BY DEF StepOf, Next
  <2>5. IsApproved(i)' BY <2>2, <2>3, <2>4, ApprovalKept
  <2>6. QED BY <2>1, <2>3, <2>5 DEF IsApproved
<1>3. CASE q = r
  <2>1. CASE GetApproved(r)
    BY <1>3, <2>1 DEF GetApproved, Refuse, Answer, IsApproved, db
  <2>2. CASE BotCreate(r)
    BY <1>1, <1>3, <2>2 DEF BotCreate, Answer, ControlInv, ControlOf
  <2>3. CASE Commit(r)
    <3>1. pc[r] = "commit" /\ body' = body BY <2>3 DEF Commit, Answer
    <3>2. /\ ses[r].id = body[r].id /\ ses[r].dirty = {"status"}
          /\ ses[r].obj.status = "approved"
      BY <1>1, <1>3, <3>1 DEF StatusWrites, FinalizeWrites
    <3>3. inst'[ses[r].id] = Merged(r) /\ ses[r].id \in DOMAIN inst'
      BY <2>3, <3>2 DEF Commit
    <3>4. Merged(r).status = "approved" BY <3>2 DEF Merged, Column
    <3>5. QED BY <1>3, <3>1, <3>2, <3>3, <3>4 DEF IsApproved
  <2>4. QED BY <1>1, <1>3, <2>1, <2>2, <2>3, AnswerStep
<1>4. QED BY <1>2, <1>3

LEMMA LogStep ==
  ASSUME IInv, AnswersInv, SendsInv, SendLogTrue, NEW r \in Request, StepOf(r), TypeOK'
  PROVE  SendLogTrue'
<1> USE DEF IInv
<1>1. outbox \subseteq outbox' /\ \A m \in outbox' \ outbox : m.by = r BY OthersFrame
<1>2. log \subseteq log' /\ log' \subseteq log \cup ses[r].log
      /\ (Commit(r) => log' = log \cup ses[r].log)
  <2>1. CASE Refused(r) BY <2>1 DEF Refused, GetApproved, Refuse, db, Commit
  <2>2. CASE Quiet(r) BY <2>2 DEF Quiet, db, Commit
  <2>3. CASE DeleteMetrics(r) \/ InsertMetrics(r) \/ InsertDispute(r)
             \/ Notify(r) \/ BotCreate(r)
    BY <2>3 DEF DeleteMetrics, InsertMetrics, InsertDispute, Notify, BotCreate, db, Commit
  <2>4. CASE Commit(r) BY <2>4 DEF Commit
  <2>5. QED BY <2>1, <2>2, <2>3, <2>4, StepKinds
<1>3. \A n \in log' : n.status = "sent" => n.message \in outbox'
  BY <1>1, <1>2 DEF SendLogTrue, SendsInv, SendsOf
<1>4. ASSUME NEW m \in outbox', reply'[m.by] = "ok"
      PROVE  [message |-> m, status |-> "sent"] \in log'
  <2>1. CASE m.by # r
    <3>1. m \in outbox /\ m.by \in Request BY <1>1, <2>1 DEF TypeOK, Message
    <3>2. reply[m.by] = "ok" BY <1>4, <2>1, <3>1, OthersFrame
    <3>3. QED BY <1>2, <3>1, <3>2 DEF SendLogTrue
  <2>2. CASE m.by = r
    <3>1. GetApproved(r) \/ Commit(r) \/ BotCreate(r) BY <1>4, <2>2, AnswerStep
    <3>2. outbox' = outbox
      BY <3>1 DEF GetApproved, Commit, BotCreate, Refuse, Answer
    <3>3. m \in MessagesOf(r) BY <2>2, <3>2 DEF MessagesOf
    <3>4. CASE GetApproved(r) \/ BotCreate(r)
      <4>1. pc[r] \in {"get", "bot"} BY <3>4 DEF GetApproved, BotCreate
      <4>2. MessagesOf(r) = {} BY <4>1 DEF SendsInv, SendsOf, Notified
      <4>3. QED BY <3>3, <4>2
    <3>5. CASE Commit(r)
      <4>1. Notified(r) BY <3>5 DEF Commit, Notified
      <4>2. [message |-> m, status |-> "sent"] \in ses[r].log
        BY <3>3, <4>1 DEF SendsInv, SendsOf
      <4>3. QED BY <1>2, <3>5, <4>2
    <3>6. QED BY <3>1, <3>4, <3>5
  <2>3. QED BY <2>1, <2>2
<1>5. QED BY <1>3, <1>4 DEF SendLogTrue

-----------------------------------------------------------------------------
LEMMA IntegrityInit == Init => IntegrityInv
<1>1. SUFFICES ASSUME Init PROVE IntegrityInv
  OBVIOUS
<1>2. /\ metric = {} /\ dispute = {} /\ log = {} /\ outbox = {}
      /\ \A r \in Request : ses[r] = NoSession(r) /\ reply[r] = "pending" /\ pc[r] = "idle"
  BY <1>1 DEF Init
<1>3. \A r \in Request : /\ NoSession(r).ins = {} /\ NoSession(r).del = {}
                         /\ NoSession(r).dispute = {} /\ NoSession(r).log = {}
  BY DEF NoSession
<1>4. AnswersInv /\ WritesInv BY <1>2, <1>3 DEF AnswersInv, WritesInv, WritesOf
<1>5. ReferencesInv BY <1>2, <1>3 DEF ReferencesInv, References
<1>6. SendsInv BY <1>2, <1>3 DEF SendsInv, SendsOf, MessagesOf, Notified
<1>7. AcknowledgedApprovalHolds /\ SendLogTrue
  BY <1>2 DEF AcknowledgedApprovalHolds, SendLogTrue
<1>8. QED BY <1>1, <1>4, <1>5, <1>6, <1>7, InvInit DEF IntegrityInv

LEMMA IntegrityStep ==
  ASSUME IntegrityInv, [Next]_vars
  PROVE  IntegrityInv'
<1> USE DEF IntegrityInv
<1>1. IInv' BY InvStep
<1>2. TypeOK' /\ TypeOK /\ SessionInv /\ ControlInv BY <1>1 DEF IInv
<1>3. CASE UNCHANGED vars
  <2>1. AnswersInv' BY <1>3 DEF vars, AnswersInv
  <2>2. WritesInv' BY <1>3 DEF vars, WritesInv, WritesOf
  <2>3. ReferencesInv' BY <1>3 DEF vars, ReferencesInv, References
  <2>4. SendsInv' BY <1>3 DEF vars, SendsInv, SendsOf, MessagesOf, Notified
  <2>5. AcknowledgedApprovalHolds'
    BY <1>3 DEF vars, AcknowledgedApprovalHolds, IsApproved
  <2>6. SendLogTrue' BY <1>3 DEF vars, SendLogTrue
  <2>7. QED BY <1>1, <2>1, <2>2, <2>3, <2>4, <2>5, <2>6
<1>4. CASE Next
  <2>1. PICK r \in Request : StepOf(r) BY <1>4 DEF Next, StepOf
  <2>2. \A q \in Request : IntegrityOf(q) BY IntegrityOfAll
  <2>3. ASSUME NEW q \in Request PROVE IntegrityOf(q)'
    <3>1. CASE q = r BY <1>2, <2>1, <2>2, <3>1, OwnIntegrity
    <3>2. CASE q # r BY <1>2, <2>1, <2>2, <3>2, OtherIntegrity
    <3>3. QED BY <3>1, <3>2
  <2>4. AnswersInv' /\ WritesInv' /\ SendsInv'
    BY <2>3 DEF AnswersInv, WritesInv, SendsInv, IntegrityOf, AnsweredOf
  <2>5. ReferencesInv' BY <2>1, ReferencesStep
  <2>6. AcknowledgedApprovalHolds' BY <2>1, AcknowledgedStep
  <2>7. SendLogTrue' BY <1>2, <2>1, LogStep
  <2>8. QED BY <1>1, <2>4, <2>5, <2>6, <2>7
<1>5. QED BY <1>3, <1>4

-----------------------------------------------------------------------------
(* IntegrityInv is inductive, for any number of requests at a time.        *)
THEOREM Integrity == Spec => []IntegrityInv
<1>1. Init => IntegrityInv BY IntegrityInit
<1>2. IntegrityInv /\ [Next]_vars => IntegrityInv' BY IntegrityStep
<1>3. QED BY <1>1, <1>2, PTL DEF Spec

(* A client told that its finalization succeeded can rely on it for ever,  *)
(* by the commit as by the early return (kpi.py:183-184).                  *)
THEOREM AcknowledgedApprovals == Spec => []AcknowledgedApprovalHolds
<1>1. IntegrityInv => AcknowledgedApprovalHolds BY DEF IntegrityInv
<1>2. QED BY <1>1, Integrity, PTL

(* No committed row dangles, though resubmissions delete metrics while     *)
(* disputes of them are being filed (kpi.py:115, 205).                     *)
THEOREM NoDanglingRows == Spec => []ReferentialIntegrity
<1>1. IntegrityInv => ReferentialIntegrity
  BY DEF IntegrityInv, ReferencesInv, References, ReferentialIntegrity
<1>2. QED BY <1>1, Integrity, PTL

(* The log calls sent what was sent, and holds every message of a request  *)
(* that succeeded (telegram.py:26-37, kpi.py:161-163).                     *)
THEOREM LogOfMessages == Spec => []SendLogTrue
<1>1. IntegrityInv => SendLogTrue BY DEF IntegrityInv
<1>2. QED BY <1>1, Integrity, PTL
=============================================================================
