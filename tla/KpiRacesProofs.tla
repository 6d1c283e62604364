--------------------------- MODULE KpiRacesProofs ---------------------------
(***************************************************************************)
(* Proofs about KpiRaces, for every value of the constants and every       *)
(* schedule: what overlapping edits of an instance can break, and that     *)
(* nothing else breaks it.                                                 *)
(***************************************************************************)
EXTENDS KpiRaces, KpiInstancesProofs, SumProofs

RacesOf(r) == SubmissionOf(r) /\ FinalizationOf(r) /\ ChangesOf(r)

(* The invariants known to hold before and after a step.                   *)
Known == IntegrityInv /\ IntegrityInv'

LEMMA KnownParts ==
  Known => /\ TypeOK /\ ControlInv /\ FreshIds /\ SessionInv /\ StatusWrites
           /\ WritesInv /\ ReferencesInv /\ TypeOK' /\ SessionInv' /\ FreshIds' /\ ControlInv'
BY DEF Known, IntegrityInv, IInv

(* What a step makes of RacesOf, in terms of the overlaps seen before it:  *)
(* stronger, since those seen later only add exceptions.                   *)
NextSubmission(r) ==
  (body[r].op = "create" /\ Editing(r))' =>
    /\ HoldingOf(r)' /\ InsertionOf(r)'
    /\ ~Raced(ses'[r].id, {"create"}) => AloneOf(r)'
    /\ ses'[r].id \in DOMAIN inst' /\ ~Raced(ses'[r].id, {"create", "finalize"}) =>
         inst'[ses'[r].id].status = "submitted"

NextFinalization(r) ==
  (body[r].op = "finalize" /\ Editing(r))' =>
    /\ ~Raced(ses'[r].id, {"finalize"}) => inst'[ses'[r].id].status = "submitted"
    /\ \A e \in ses'[r].history : e.before = "submitted"

NextRaces(r) == NextSubmission(r) /\ NextFinalization(r) /\ ChangesOf(r)'

LEMMA NextIsEnough ==
  ASSUME raced \subseteq raced', NEW r \in Request, NextRaces(r)
  PROVE  RacesOf(r)'
<1>1. \A i, e : Raced(i, e) => Raced(i, e)' BY DEF Raced
<1>2. SubmissionOf(r)' BY <1>1 DEF NextRaces, NextSubmission, SubmissionOf
<1>3. FinalizationOf(r)' BY <1>1 DEF NextRaces, NextFinalization, FinalizationOf
<1>4. QED BY <1>2, <1>3 DEF NextRaces, RacesOf

-----------------------------------------------------------------------------
(* A step of a request keeps what is said of it.                           *)

(* A request that edits nothing has nothing to write.                      *)
LEMMA ClosedRaces ==
  ASSUME NEW r \in Request, ses'[r] = NoSession(r),
         pc'[r] \in {"idle", "select", "get", "dispute", "bot", "done"}
  PROVE  NextRaces(r)
<1>1. NoSession(r).del = {} /\ NoSession(r).history = {} BY DEF NoSession
<1>2. ~Editing(r)' BY DEF Editing
<1>3. QED BY <1>1, <1>2 DEF NextRaces, NextSubmission, NextFinalization, ChangesOf

LEMMA EndRaces ==
  ASSUME TypeOK, NEW r \in Request, NEW a, Answer(r, a)
  PROVE  NextRaces(r)
<1>1. pc'[r] = "done" /\ ses'[r] = NoSession(r) BY DEF TypeOK, Answer, Goto
<1>2. QED BY <1>1, ClosedRaces

LEMMA ReceiveRaces ==
  ASSUME Known, NEW r \in Request, Receive(r)
  PROVE  NextRaces(r)
<1>1. pc[r] = "idle" /\ ses' = ses BY DEF Receive
<1>2. ses'[r] = NoSession(r) BY <1>1, KnownParts DEF SessionInv, SessionOf
<1>3. pc'[r] \in {"select", "get", "dispute", "bot"} BY KnownParts DEF Receive, TypeOK, Goto
<1>4. QED BY <1>2, <1>3, ClosedRaces

(* What is said of a submission is all there is to say of it.              *)
LEMMA OfSubmission ==
  ASSUME NEW r \in Request, body'[r].op = "create", NextSubmission(r), ChangesOf(r)'
  PROVE  NextRaces(r)
BY DEF NextRaces, NextFinalization

LEMMA OfFinalization ==
  ASSUME NEW r \in Request, body'[r].op = "finalize", NextFinalization(r), ChangesOf(r)'
  PROVE  NextRaces(r)
BY DEF NextRaces, NextSubmission

LEMMA NoMetricsYet ==
  ASSUME ReferencesInv, NEW i, i \notin DOMAIN inst
  PROVE  MetricsOf(i) = {}
BY DEF ReferencesInv, MetricsOf

LEMMA LoadExistingRaces ==
  ASSUME Known, NEW r \in Request, LoadExisting(r)
  PROVE  NextRaces(r)
<1>0. /\ TypeOK /\ ControlInv /\ FreshIds /\ SessionInv
      /\ ses \in [Request -> Session]
  BY KnownParts DEF TypeOK
<1>1. ses[r] \in Session /\ ses[r] = NoSession(r) /\ pc[r] = "select"
  BY <1>0 DEF LoadExisting, SessionInv, SessionOf
<1>2. UNCHANGED <<db, outbox, body, reply>> /\ pc'[r] = "collection" /\ body[r].op = "create"
  BY <1>0 DEF LoadExisting, TypeOK, Goto, ControlInv, ControlOf, CreateSteps
<1>3. PICK i \in Matches(r) :
        /\ Matches(r) = {i} /\ inst[i].status \notin Closed
        /\ ses' = [ses EXCEPT ![r].id = i, ![r].obj = inst[i]]
  BY DEF LoadExisting
<1>4. i \in DOMAIN inst /\ inst[i].key = body[r].key BY <1>3 DEF Matches
<1>5. inst[i].status = "submitted" BY <1>0, <1>3, <1>4 DEF FreshIds, Closed
<1>6. /\ ses'[r].id = i /\ ses'[r].obj = inst[i] /\ ses'[r].metrics = {}
      /\ ses'[r].del = {} /\ ses'[r].history = {}
  BY <1>0, <1>1, <1>3 DEF Session, NoSession
<1>7. inst' = inst /\ body' = body BY <1>2 DEF db
<1>8. ~Updated(r)' /\ ~Deleted(r)' /\ ~Refreshed(r)' /\ ~Summed(r)'
  BY <1>2 DEF Updated, Deleted, Refreshed, Summed
<1>9. HoldingOf(r)' BY <1>4, <1>6, <1>7, <1>8 DEF HoldingOf
<1>10. AloneOf(r)' BY <1>2, <1>6, <1>7, <1>8 DEF AloneOf
<1>11. InsertionOf(r)' BY <1>4, <1>6, <1>7 DEF InsertionOf
<1>12. NextSubmission(r) BY <1>5, <1>6, <1>7, <1>9, <1>10, <1>11 DEF NextSubmission
<1>13. ChangesOf(r)' BY <1>6 DEF ChangesOf
<1>14. QED BY <1>2, <1>7, <1>12, <1>13, OfSubmission

LEMMA InsertNewRaces ==
  ASSUME Known, NEW r \in Request, InsertNew(r)
  PROVE  NextRaces(r)
<1>0. /\ TypeOK /\ ControlInv /\ FreshIds /\ SessionInv /\ ReferencesInv
      /\ ses \in [Request -> Session]
  BY KnownParts DEF TypeOK
<1>1. ses[r] \in Session /\ ses[r] = NoSession(r) /\ pc[r] = "select"
  BY <1>0 DEF InsertNew, SessionInv, SessionOf
<1>2. UNCHANGED <<db, outbox, body, reply>> /\ pc'[r] = "insert" /\ body[r].op = "create"
  BY <1>0 DEF InsertNew, TypeOK, Goto, ControlInv, ControlOf, CreateSteps
<1>3. r \notin DOMAIN inst BY <1>0, <1>1 DEF FreshIds
<1>4. MetricsOf(r) = {} BY <1>0, <1>3, NoMetricsYet
<1>5. /\ ses'[r].id = r /\ ses'[r].dirty = Column
      /\ ses'[r].obj = NewRow(body[r].key, body[r].period, body[r].salary, "submitted")
      /\ ses'[r].del = {} /\ ses'[r].history = {} /\ ses'[r].metrics = {}
  BY <1>0, <1>1 DEF InsertNew, Session, NoSession
<1>6. /\ ses'[r].obj.key = body[r].key /\ ses'[r].obj.period = body[r].period
      /\ ses'[r].obj.salary = body[r].salary
  BY <1>5 DEF NewRow
<1>7. Matches(r)' = {} /\ MetricsOf(r)' = {}
  BY <1>2, <1>4 DEF InsertNew, Matches, MetricsOf, db
<1>8. inst' = inst /\ body' = body BY <1>2 DEF db
<1>9. ~Refreshed(r)' /\ ~Summed(r)' BY <1>2 DEF Refreshed, Summed
<1>10. HoldingOf(r)' BY <1>3, <1>5, <1>6, <1>8, <1>9 DEF HoldingOf
<1>11. AloneOf(r)' BY <1>2, <1>3, <1>5, <1>7, <1>8, <1>9 DEF AloneOf
<1>12. InsertionOf(r)' BY <1>7 DEF InsertionOf
<1>13. NextSubmission(r) BY <1>3, <1>5, <1>8, <1>10, <1>11, <1>12 DEF NextSubmission
<1>14. ChangesOf(r)' BY <1>5 DEF ChangesOf
<1>15. QED BY <1>2, <1>8, <1>13, <1>14, OfSubmission

(* The statements after the first leave the committed tables, and with     *)
(* them all but what the session holds.                                    *)
LEMMA StatementFrame ==
  ASSUME UNCHANGED <<db, outbox, body, reply>>, NEW r \in Request, ses'[r].id = ses[r].id
  PROVE  /\ inst' = inst /\ body' = body /\ Matches(r)' = Matches(r)
         /\ MetricsOf(ses[r].id)' = MetricsOf(ses[r].id)
BY DEF db, Matches, MetricsOf

LEMMA StatementRaces ==
  ASSUME raced \subseteq raced', NEW r \in Request, SubmissionOf(r),
         body[r].op = "create", Editing(r),
         UNCHANGED <<db, outbox, body, reply>>, ses'[r].id = ses[r].id,
         HoldingOf(r)', AloneOf(r) => AloneOf(r)', ChangesOf(r)'
  PROVE  NextRaces(r)
<1>1. inst' = inst /\ body' = body /\ Matches(r)' = Matches(r) BY StatementFrame
<1>2. InsertionOf(r)'
  <2>1. \A i, e : Raced(i, e) => Raced(i, e)' BY DEF Raced
  <2>2. InsertionOf(r) BY DEF SubmissionOf
  <2>3. QED BY <1>1, <2>1, <2>2 DEF InsertionOf
<1>3. NextSubmission(r) BY <1>1, <1>2 DEF NextSubmission, SubmissionOf
<1>4. QED BY <1>1, <1>3, OfSubmission

LEMMA LoadMetricsRaces ==
  ASSUME Known, raced \subseteq raced', NEW r \in Request, RacesOf(r), LoadMetrics(r)
  PROVE  NextRaces(r)
<1>0. TypeOK /\ ControlInv /\ ses \in [Request -> Session]
  BY KnownParts DEF TypeOK
<1>1. ses[r] \in Session BY <1>0
<1>2. /\ UNCHANGED <<db, outbox, body, reply>>
      /\ pc[r] = "collection" /\ pc'[r] = "update" /\ body[r].op = "create"
  BY <1>0 DEF LoadMetrics, TypeOK, Goto, ControlInv, ControlOf, CreateSteps
<1>3. /\ ses'[r].id = ses[r].id /\ ses'[r].obj = ses[r].obj /\ ses'[r].dirty = ses[r].dirty
      /\ ses'[r].history = ses[r].history /\ ses'[r].del = ses[r].del
      /\ ses'[r].metrics = MetricsOf(ses[r].id)
  BY <1>0, <1>1 DEF LoadMetrics, Session, MetricsOf
<1>4. /\ inst' = inst /\ body' = body /\ Matches(r)' = Matches(r)
      /\ MetricsOf(ses[r].id)' = MetricsOf(ses[r].id)
  BY <1>2, <1>3, StatementFrame
<1>5. Editing(r) BY <1>2 DEF Editing
<1>6. ~Updated(r)' /\ ~Deleted(r)' /\ ~Refreshed(r)' /\ ~Summed(r)'
  BY <1>2 DEF Updated, Deleted, Refreshed, Summed
<1>7. HoldingOf(r)
  BY <1>2, <1>5 DEF RacesOf, SubmissionOf
<1>8. HoldingOf(r)'
  <2>1. \A m \in MetricsOf(ses[r].id) : m.inst = ses[r].id BY DEF MetricsOf
  <2>2. QED BY <1>3, <1>4, <1>6, <1>7, <2>1 DEF HoldingOf
<1>9. AloneOf(r) => AloneOf(r)' BY <1>2, <1>3, <1>4, <1>6 DEF AloneOf
<1>10. ChangesOf(r)' BY <1>2, <1>3, <1>4 DEF RacesOf, ChangesOf
<1>11. QED BY <1>2, <1>3, <1>5, <1>8, <1>9, <1>10, StatementRaces DEF RacesOf

(* A column that differs between what is held and what is committed is     *)
(* written, or will be by the flush.                                       *)
Agrees(r, row) ==
  \A c \in Column \ (ses[r].dirty \cup {"status"}) : ses[r].obj[c] = row[c]

LEMMA FlushKeepsAgreement ==
  ASSUME TypeOK, NEW r \in Request, NEW new \in Row, NEW E, NEW step, Flush(r, new, E, step)
  PROVE  /\ UNCHANGED <<db, outbox, body, reply>> /\ pc'[r] = step
         /\ ses'[r].id = ses[r].id /\ ses'[r].obj = new
         /\ ses'[r].metrics = ses[r].metrics /\ ses'[r].del = ses[r].del
         /\ ses'[r].ins = ses[r].ins
         /\ ses'[r].history = ses[r].history \cup E
         /\ \A row : Agrees(r, row) =>
              \A c \in Column \ (ses'[r].dirty \cup {"status"}) : ses'[r].obj[c] = row[c]
<1>1. ses[r] \in Session /\ ses \in [Request -> Session] BY DEF TypeOK
<1>2. /\ ses'[r].id = ses[r].id /\ ses'[r].obj = new
      /\ ses'[r].metrics = ses[r].metrics /\ ses'[r].del = ses[r].del
      /\ ses'[r].ins = ses[r].ins
      /\ ses'[r].history = ses[r].history \cup E
      /\ ses'[r].dirty = ses[r].dirty \cup Changed(r, new)
  BY <1>1 DEF Flush, Session
<1>3. \A c \in Column \ Changed(r, new) : new[c] = ses[r].obj[c] BY DEF Changed
<1>4. pc'[r] = step BY DEF Flush, Goto, TypeOK
<1>5. QED BY <1>2, <1>3, <1>4 DEF Flush, Agrees

LEMMA UpdateRaces ==
  ASSUME Known, raced \subseteq raced', NEW r \in Request, RacesOf(r), UpdateExisting(r)
  PROVE  NextRaces(r)
<1>0. TypeOK /\ ControlInv BY KnownParts
<1>1. ses[r] \in Session /\ ses[r].obj \in Row /\ body[r] \in Body BY <1>0 DEF TypeOK, Session
<1>2. pc[r] = "update" /\ body[r].op = "create"
  BY <1>0 DEF UpdateExisting, ControlInv, ControlOf, CreateSteps
<1>3. body[r] \in CreateBody BY <1>1, <1>2, BodyOfOp
<1>4. /\ Resubmitted(r) \in Row /\ Resubmitted(r).key = ses[r].obj.key
      /\ Resubmitted(r).period = body[r].period /\ Resubmitted(r).salary = body[r].salary
  BY <1>1, <1>3 DEF Resubmitted, Row, CreateBody, KPIStatus
<1> DEFINE E == {}
<1>5. Flush(r, Resubmitted(r), E, "delete") BY DEF UpdateExisting
<1> HIDE DEF E
<1>6. /\ UNCHANGED <<db, outbox, body, reply>> /\ pc'[r] = "delete"
      /\ ses'[r].id = ses[r].id /\ ses'[r].obj = Resubmitted(r)
      /\ ses'[r].metrics = ses[r].metrics /\ ses'[r].del = ses[r].del
      /\ ses'[r].history = ses[r].history \cup E
      /\ \A row : Agrees(r, row) =>
           \A c \in Column \ (ses'[r].dirty \cup {"status"}) : ses'[r].obj[c] = row[c]
  BY <1>0, <1>4, <1>5, FlushKeepsAgreement
<1>7. /\ inst' = inst /\ body' = body /\ Matches(r)' = Matches(r)
      /\ MetricsOf(ses[r].id)' = MetricsOf(ses[r].id)
  BY <1>6, StatementFrame
<1>8. Editing(r) BY <1>2 DEF Editing
<1>9. ~Deleted(r)' /\ ~Refreshed(r)' /\ ~Summed(r)'
  BY <1>6 DEF Deleted, Refreshed, Summed
<1>10. HoldingOf(r) BY <1>2, <1>8 DEF RacesOf, SubmissionOf
<1>11. HoldingOf(r)' BY <1>4, <1>6, <1>7, <1>9, <1>10 DEF HoldingOf
<1>12. ASSUME AloneOf(r) PROVE AloneOf(r)'
  <2>1. ses[r].metrics = MetricsOf(ses[r].id) BY <1>2, <1>12 DEF AloneOf
  <2>2. ses[r].id \in DOMAIN inst => Agrees(r, inst[ses[r].id])
    BY <1>12 DEF AloneOf, Agrees
  <2>3. QED BY <1>6, <1>7, <1>9, <2>1, <2>2 DEF AloneOf
<1>13. ChangesOf(r)' BY <1>6, <1>7 DEF RacesOf, ChangesOf, E
<1>14. QED BY <1>2, <1>6, <1>8, <1>11, <1>12, <1>13, StatementRaces DEF RacesOf

LEMMA DeleteRaces ==
  ASSUME Known, raced \subseteq raced', NEW r \in Request, RacesOf(r), DeleteMetrics(r)
  PROVE  NextRaces(r)
<1>0. TypeOK /\ ControlInv /\ ses \in [Request -> Session] BY KnownParts DEF TypeOK
<1>1. ses[r] \in Session BY <1>0
<1>2. /\ UNCHANGED <<db, outbox, body, reply>>
      /\ pc[r] = "delete" /\ pc'[r] = "insert" /\ body[r].op = "create"
  BY <1>0 DEF DeleteMetrics, TypeOK, Goto, ControlInv, ControlOf, CreateSteps
<1>3. /\ ses'[r].id = ses[r].id /\ ses'[r].obj = ses[r].obj /\ ses'[r].dirty = ses[r].dirty
      /\ ses'[r].history = ses[r].history /\ ses'[r].metrics = ses[r].metrics
      /\ ses'[r].del = ses[r].metrics
  BY <1>0, <1>1 DEF DeleteMetrics, Session
<1>4. /\ inst' = inst /\ body' = body /\ Matches(r)' = Matches(r)
      /\ MetricsOf(ses[r].id)' = MetricsOf(ses[r].id)
  BY <1>2, <1>3, StatementFrame
<1>5. Editing(r) BY <1>2 DEF Editing
<1>6. Updated(r) /\ ~Refreshed(r)' /\ ~Summed(r)' BY <1>2 DEF Updated, Refreshed, Summed
<1>7. HoldingOf(r) BY <1>2, <1>5 DEF RacesOf, SubmissionOf
<1>8. HoldingOf(r)' BY <1>3, <1>4, <1>6, <1>7 DEF HoldingOf
<1>9. AloneOf(r) => AloneOf(r)' BY <1>2, <1>3, <1>4, <1>6 DEF AloneOf
<1>10. ChangesOf(r)' BY <1>2, <1>3, <1>4 DEF RacesOf, ChangesOf
<1>11. QED BY <1>2, <1>3, <1>5, <1>8, <1>9, <1>10, StatementRaces DEF RacesOf

LEMMA InsertRaces ==
  ASSUME Known, raced \subseteq raced', NEW r \in Request, RacesOf(r), InsertMetrics(r)
  PROVE  NextRaces(r)
<1>0. TypeOK /\ ControlInv /\ ses \in [Request -> Session] BY KnownParts DEF TypeOK
<1>1. ses[r] \in Session BY <1>0
<1>2. /\ UNCHANGED <<db, outbox, body, reply>>
      /\ pc[r] = "insert" /\ pc'[r] = "calculate" /\ body[r].op = "create"
  BY <1>0 DEF InsertMetrics, TypeOK, Goto, ControlInv, ControlOf, CreateSteps
<1> DEFINE kept == {m \in metric \ ses[r].del : m.inst = ses[r].id}
<1>3. /\ ses'[r].id = ses[r].id /\ ses'[r].obj = ses[r].obj /\ ses'[r].dirty = ses[r].dirty
      /\ ses'[r].history = ses[r].history /\ ses'[r].del = ses[r].del
      /\ ses'[r].ins = Submitted(r) /\ ses'[r].metrics = kept \cup Submitted(r)
  BY <1>0, <1>1 DEF InsertMetrics, Session, Submitted
<1>4. /\ inst' = inst /\ body' = body /\ Matches(r)' = Matches(r)
      /\ MetricsOf(ses[r].id)' = MetricsOf(ses[r].id)
  BY <1>2, <1>3, StatementFrame
<1>5. Editing(r) BY <1>2 DEF Editing
<1>6. Updated(r) /\ Deleted(r) /\ ~Summed(r)' BY <1>2 DEF Updated, Deleted, Summed
<1>7. HoldingOf(r) BY <1>2, <1>5 DEF RacesOf, SubmissionOf
<1>8. \A m \in kept \cup Submitted(r) : m.inst = ses[r].id BY DEF Submitted
<1>9. ses[r].del = MetricsOf(ses[r].id) => kept = {} BY DEF MetricsOf
<1> HIDE DEF kept
<1>10. HoldingOf(r)' BY <1>3, <1>4, <1>6, <1>7, <1>8 DEF HoldingOf
<1>11. Submitted(r)' = Submitted(r) BY <1>3, <1>4 DEF Submitted
<1>12. AloneOf(r) => AloneOf(r)'
  BY <1>2, <1>3, <1>4, <1>6, <1>9, <1>11 DEF AloneOf
<1>13. ChangesOf(r)' BY <1>2, <1>3, <1>4 DEF RacesOf, ChangesOf
<1>14. QED BY <1>2, <1>3, <1>5, <1>10, <1>12, <1>13, StatementRaces DEF RacesOf

LEMMA CalculateRaces ==
  ASSUME Known, raced \subseteq raced', NEW r \in Request, RacesOf(r), CalculateAndAudit(r)
  PROVE  NextRaces(r)
<1>0. TypeOK /\ ControlInv BY KnownParts
<1>1. /\ ses[r] \in Session /\ ses[r].obj \in Row /\ ses[r].metrics \in SUBSET MetricRow
  BY <1>0 DEF TypeOK, Session
<1>2. pc[r] = "calculate" /\ body[r].op = "create" /\ ~body[r].salaried
  BY <1>0 DEF CalculateAndAudit, ControlInv, ControlOf, CreateSteps
<1>3. ses[r].obj.salary \in Salary BY <1>1 DEF Row
<1>4. Calculate(ses[r].obj.salary, ses[r].metrics) \in Total BY <1>1, <1>3, CalculateType
<1>5. /\ Calculated(r) \in Row /\ Calculated(r).key = ses[r].obj.key
      /\ Calculated(r).period = ses[r].obj.period /\ Calculated(r).salary = ses[r].obj.salary
      /\ Calculated(r).total = Calculate(ses[r].obj.salary, ses[r].metrics)
  BY <1>1, <1>4 DEF Calculated, Row
<1> DEFINE E == Audit(r, "upsert", "none")
<1>6. Flush(r, Calculated(r), E, "notify") BY DEF CalculateAndAudit
<1>7. \A e \in E : e.before = "none" BY DEF Audit
<1> HIDE DEF E
<1>8. /\ UNCHANGED <<db, outbox, body, reply>> /\ pc'[r] = "notify"
      /\ ses'[r].id = ses[r].id /\ ses'[r].obj = Calculated(r)
      /\ ses'[r].metrics = ses[r].metrics /\ ses'[r].del = ses[r].del
      /\ ses'[r].ins = ses[r].ins
      /\ ses'[r].history = ses[r].history \cup E
      /\ \A row : Agrees(r, row) =>
           \A c \in Column \ (ses'[r].dirty \cup {"status"}) : ses'[r].obj[c] = row[c]
  BY <1>0, <1>5, <1>6, FlushKeepsAgreement
<1>9. /\ inst' = inst /\ body' = body /\ Matches(r)' = Matches(r)
      /\ MetricsOf(ses[r].id)' = MetricsOf(ses[r].id)
  BY <1>8, StatementFrame
<1>10. Submitted(r)' = Submitted(r) BY <1>8, <1>9 DEF Submitted
<1>11. Editing(r) BY <1>2 DEF Editing
<1>12. Updated(r) /\ Deleted(r) /\ Refreshed(r) BY <1>2 DEF Updated, Deleted, Refreshed
<1>13. HoldingOf(r) BY <1>2, <1>11 DEF RacesOf, SubmissionOf
<1>14. HoldingOf(r)'
  <2>1. Calculate(ses[r].obj.salary, ses[r].metrics)' = Calculated(r).total
    BY <1>5, <1>8
  <2>2. QED BY <1>2, <1>5, <1>8, <1>9, <1>12, <1>13, <2>1 DEF HoldingOf
<1>15. ASSUME AloneOf(r) PROVE AloneOf(r)'
  <2>1. ses[r].id \in DOMAIN inst => Agrees(r, inst[ses[r].id])
    BY <1>15 DEF AloneOf, Agrees
  <2>2. QED BY <1>8, <1>9, <1>10, <1>12, <1>15, <2>1 DEF AloneOf
<1>16. ChangesOf(r)' BY <1>2, <1>7, <1>8, <1>9 DEF RacesOf, ChangesOf
<1>17. QED BY <1>2, <1>8, <1>11, <1>14, <1>15, <1>16, StatementRaces DEF RacesOf

LEMMA GetRaces ==
  ASSUME Known, NEW r \in Request, GetInstance(r)
  PROVE  NextRaces(r)
<1>0. /\ TypeOK /\ ControlInv /\ SessionInv /\ FreshIds /\ ses \in [Request -> Session]
  BY KnownParts DEF TypeOK
<1>1. ses[r] \in Session /\ ses[r] = NoSession(r) /\ pc[r] = "get"
  BY <1>0 DEF GetInstance, SessionInv, SessionOf
<1>2. UNCHANGED <<db, outbox, body, reply>> /\ body[r].op = "finalize"
  BY <1>0, <1>1 DEF GetInstance, ControlInv, ControlOf, FinalizeSteps
<1>3. body[r].id \in DOMAIN inst /\ inst[body[r].id].status = "submitted"
  BY <1>0 DEF GetInstance, FreshIds
<1>4. ses'[r].id = body[r].id /\ ses'[r].del = {} /\ ses'[r].history = {}
  BY <1>0, <1>1 DEF GetInstance, Session, NoSession
<1>5. inst' = inst /\ body' = body BY <1>2 DEF db
<1>6. NextFinalization(r) BY <1>3, <1>4, <1>5 DEF NextFinalization
<1>7. ChangesOf(r)' BY <1>4 DEF ChangesOf
<1>8. QED BY <1>2, <1>5, <1>6, <1>7, OfFinalization

LEMMA ApproveRaces ==
  ASSUME Known, NEW r \in Request, RacesOf(r), Approve(r)
  PROVE  NextRaces(r)
<1>0. TypeOK /\ ControlInv /\ StatusWrites /\ ses \in [Request -> Session]
  BY KnownParts DEF TypeOK
<1>1. ses[r] \in Session /\ pc[r] = "approve" BY <1>0 DEF Approve
<1>2. UNCHANGED <<db, outbox, body, reply>> /\ body[r].op = "finalize"
  BY <1>0, <1>1 DEF Approve, Flush, ControlInv, ControlOf, FinalizeSteps
<1>3. ses[r].obj.status = "submitted" /\ ses[r].history = {}
  BY <1>0, <1>1, <1>2 DEF StatusWrites, FinalizeWrites
<1>4. /\ ses'[r].id = ses[r].id /\ ses'[r].del = ses[r].del
      /\ ses'[r].history = ses[r].history \cup Audit(r, "finalize", ses[r].obj.status)
  BY <1>0, <1>1 DEF Approve, Flush, Session
<1>5. \A e \in ses'[r].history : e.before = "submitted" BY <1>3, <1>4 DEF Audit
<1>6. inst' = inst /\ body' = body BY <1>2 DEF db
<1>7. Editing(r) BY <1>1, <1>2 DEF Editing
<1>8. NextFinalization(r)
  BY <1>2, <1>4, <1>5, <1>6, <1>7 DEF RacesOf, FinalizationOf, NextFinalization
<1>9. ChangesOf(r)' BY <1>2, <1>4, <1>6 DEF RacesOf, ChangesOf
<1>10. QED BY <1>2, <1>6, <1>8, <1>9, OfFinalization

LEMMA DisputeRaces ==
  ASSUME Known, NEW r \in Request, InsertDispute(r)
  PROVE  NextRaces(r)
<1>0. TypeOK /\ ControlInv /\ SessionInv /\ ses \in [Request -> Session]
  BY KnownParts DEF TypeOK
<1>1. ses[r] \in Session /\ ses[r] = NoSession(r) /\ pc[r] = "dispute"
  BY <1>0 DEF InsertDispute, SessionInv, SessionOf
<1>2. body' = body /\ body[r].op = "dispute"
  BY <1>0, <1>1 DEF InsertDispute, ControlInv, ControlOf
<1>3. ses'[r].del = {} /\ \A e \in ses'[r].history : e.before = "none"
  BY <1>0, <1>1 DEF InsertDispute, Session, NoSession
<1>4. ~Editing(r)' BY <1>2 DEF Editing
<1>5. QED BY <1>2, <1>3, <1>4 DEF NextRaces, NextSubmission, NextFinalization, ChangesOf

LEMMA NotifyRaces ==
  ASSUME Known, raced \subseteq raced', NEW r \in Request, RacesOf(r), Notify(r)
  PROVE  NextRaces(r)
<1>0. TypeOK /\ ControlInv /\ ses \in [Request -> Session] BY KnownParts DEF TypeOK
<1>1. ses[r] \in Session BY <1>0
<1>2. /\ UNCHANGED <<db, body, reply>> /\ pc[r] = "notify"
      /\ ses'[r] = [ses[r] EXCEPT !.log = ses'[r].log]
      /\ pc'[r] = "commit" \/ pc'[r] = "approve"
  BY <1>0, NotifyEffect
<1>3. body[r].op # "finalize" => pc'[r] = "commit" BY <1>0 DEF Notify, TypeOK, Goto
<1>4. /\ ses'[r].id = ses[r].id /\ ses'[r].obj = ses[r].obj /\ ses'[r].dirty = ses[r].dirty
      /\ ses'[r].history = ses[r].history /\ ses'[r].del = ses[r].del
      /\ ses'[r].ins = ses[r].ins /\ ses'[r].metrics = ses[r].metrics
  BY <1>1, <1>2 DEF Session
<1>5. /\ inst' = inst /\ body' = body /\ Matches(r)' = Matches(r)
      /\ MetricsOf(ses[r].id)' = MetricsOf(ses[r].id)
  BY <1>2, <1>4 DEF db, Matches, MetricsOf
<1>6. Submitted(r)' = Submitted(r) BY <1>4, <1>5 DEF Submitted
<1>7. ChangesOf(r)' BY <1>4, <1>5 DEF RacesOf, ChangesOf
<1>8. CASE body[r].op = "create"
  <2>1. Editing(r) BY <1>2, <1>8 DEF Editing
  <2>2. SubmissionOf(r) BY DEF RacesOf
  <2>3. Updated(r) /\ Deleted(r) /\ Refreshed(r) /\ Summed(r)
    BY <1>2 DEF Updated, Deleted, Refreshed, Summed
  <2>4. Calculate(ses[r].obj.salary, ses[r].metrics)'
          = Calculate(ses[r].obj.salary, ses[r].metrics)
    BY <1>4
  <2>5. HoldingOf(r)'
    BY <1>4, <1>5, <1>8, <2>1, <2>2, <2>3, <2>4 DEF SubmissionOf, HoldingOf
  <2>6. AloneOf(r) => AloneOf(r)'
    BY <1>3, <1>4, <1>5, <1>6, <1>8, <2>3 DEF AloneOf
  <2>7. InsertionOf(r)'
    <3>1. \A i, e : Raced(i, e) => Raced(i, e)' BY DEF Raced
    <3>2. InsertionOf(r) BY <1>8, <2>1, <2>2 DEF SubmissionOf
    <3>3. QED BY <1>4, <1>5, <3>1, <3>2 DEF InsertionOf
  <2>8. NextSubmission(r)
    BY <1>4, <1>5, <1>8, <2>1, <2>2, <2>5, <2>6, <2>7 DEF NextSubmission, SubmissionOf
  <2>9. QED BY <1>5, <1>7, <1>8, <2>8, OfSubmission
<1>9. CASE body[r].op = "finalize"
  <2>1. Editing(r) BY <1>2, <1>9 DEF Editing
  <2>2. NextFinalization(r)
    BY <1>4, <1>5, <1>9, <2>1 DEF RacesOf, FinalizationOf, NextFinalization
  <2>3. QED BY <1>5, <1>7, <1>9, <2>2, OfFinalization
<1>10. CASE body[r].op \notin {"create", "finalize"}
  BY <1>5, <1>7, <1>10 DEF NextRaces, NextSubmission, NextFinalization
<1>11. QED BY <1>8, <1>9, <1>10

LEMMA OwnRaces ==
  ASSUME Known, raced \subseteq raced', NEW r \in Request, RacesOf(r), StepOf(r)
  PROVE  NextRaces(r)
<1>0. TypeOK BY KnownParts
<1>1. CASE Receive(r) BY <1>1, ReceiveRaces
<1>2. CASE CreateStep(r)
  <2>1. CASE RejectDuplicates(r) \/ RejectClosed(r) \/ DeleteDisputed(r) \/ RaiseTypeError(r)
    BY <1>0, <2>1, EndRaces
    DEF RejectDuplicates, RejectClosed, DeleteDisputed, RaiseTypeError, Refuse
  <2>2. CASE LoadExisting(r)      BY <2>2, LoadExistingRaces
  <2>3. CASE InsertNew(r)         BY <2>3, InsertNewRaces
  <2>4. CASE LoadMetrics(r)       BY <2>4, LoadMetricsRaces
  <2>5. CASE UpdateExisting(r)    BY <2>5, UpdateRaces
  <2>6. CASE DeleteMetrics(r)     BY <2>6, DeleteRaces
  <2>7. CASE InsertMetrics(r)     BY <2>7, InsertRaces
  <2>8. CASE CalculateAndAudit(r) BY <2>8, CalculateRaces
  <2>9. QED BY <1>2, <2>1, <2>2, <2>3, <2>4, <2>5, <2>6, <2>7, <2>8 DEF CreateStep
<1>3. CASE FinalizeStep(r)
  <2>1. CASE GetMissing(r) \/ GetApproved(r)
    BY <1>0, <2>1, EndRaces DEF GetMissing, GetApproved, Refuse
  <2>2. QED BY <1>3, <2>1, GetRaces, ApproveRaces DEF FinalizeStep
<1>4. CASE DisputeStep(r)
  BY <1>0, <1>4, DisputeRaces, EndRaces DEF DisputeStep, RejectDispute, Refuse
<1>5. CASE Notify(r) BY <1>5, NotifyRaces
<1>6. CASE Commit(r) \/ BotCreate(r) BY <1>0, <1>6, EndRaces DEF Commit, BotCreate
<1>7. CASE Abort(r) \/ BreakDeadlock(r)
  BY <1>0, <1>7, EndRaces DEF Abort, BreakDeadlock, Refuse
<1>8. QED BY <1>1, <1>2, <1>3, <1>4, <1>5, <1>6, <1>7 DEF StepOf, HandlerStep

-----------------------------------------------------------------------------
(* What a step does to the committed instances and their metrics: nothing, *)
(* or it puts one row.                                                     *)

PutRow(i, row) ==
  inst' = [j \in DOMAIN inst \cup {i} |-> IF j = i THEN row ELSE inst[j]]

RowsOf(M, i) == {m \in M : m.inst = i}

(* What a submission commits when no other is at its instance.             *)
Filed(r, row) ==
  /\ row.period = body[r].period /\ row.salary = body[r].salary
  /\ row.total = Calculate(body[r].salary, Submitted(r))
  /\ RowsOf(metric', ses[r].id) = Submitted(r)

Submits(r, row) ==
  /\ body' = body /\ body[r] \in CreateBody /\ ~body[r].salaried
  /\ ses[r].id \in Request /\ Editing(r) /\ InsertionOf(r)
  /\ PutRow(ses[r].id, row)
  /\ row.key = body[r].key /\ ses[r].obj.key = body[r].key
  /\ IF ses[r].id \in DOMAIN inst
     THEN row.key = inst[ses[r].id].key /\ row.status = inst[ses[r].id].status
     ELSE row.status = "submitted" /\ ses[r].id = r
  /\ \A j \in Request : j # ses[r].id => RowsOf(metric', j) = MetricsOf(j)
  /\ ~Raced(ses[r].id, {"create"}) => Filed(r, row)

Approves(r) ==
  /\ body' = body /\ body[r].op = "finalize" /\ Editing(r) /\ ses[r].id \in DOMAIN inst
  /\ PutRow(ses[r].id, [inst[ses[r].id] EXCEPT !.status = "approved"])
  /\ metric' = metric

Inserts(r) ==
  /\ body' = body /\ r \notin DOMAIN inst /\ body[r].op = "bot" /\ body[r] \in BotBody
  /\ PutRow(r, [key |-> body[r].key, period |-> body[r].period, salary |-> body[r].salary,
                total |-> Calculate(body[r].salary, {}), status |-> "submitted"])
  /\ metric' = metric /\ MetricsOf(r) = {}

Effect(r) ==
  \/ UNCHANGED <<inst, metric>>
  \/ /\ pc'[r] = "done"
     /\ (\E row \in Row : Submits(r, row)) \/ Approves(r) \/ Inserts(r)

(* Two rows with the same columns are the same row.                        *)
LEMMA SameRow ==
  ASSUME NEW x \in Row, NEW y \in Row, \A c \in Column : x[c] = y[c]
  PROVE  x = y
BY DEF Row, Column

LEMMA MergedRow ==
  ASSUME TypeOK, SessionInv, NEW r \in Request, ses[r].dirty # {}, NEW row \in Row,
         \A c \in Column : row[c] = IF c \in ses[r].dirty THEN ses[r].obj[c]
                                                         ELSE inst[ses[r].id][c]
  PROVE  Merged(r) = row
<1>1. Merged(r) \in Row BY MergedType
<1>2. \A c \in Column : Merged(r)[c] = row[c] BY DEF Merged
<1>3. QED BY <1>1, <1>2, SameRow

(* What a submission puts: its columns where it wrote them.                *)
LEMMA CommitPuts ==
  ASSUME TypeOK, SessionInv, NEW r \in Request, Commit(r),
         ses[r].dirty = {} => ses[r].id \in DOMAIN inst
  PROVE  \E row \in Row :
           /\ PutRow(ses[r].id, row)
           /\ \A c \in Column : row[c] = IF c \in ses[r].dirty THEN ses[r].obj[c]
                                                              ELSE inst[ses[r].id][c]
<1>1. CASE ses[r].dirty = {}
  <2>1. inst[ses[r].id] \in Row /\ inst \in [DOMAIN inst -> Row] BY <1>1 DEF TypeOK
  <2>2. inst' = inst BY <1>1 DEF Commit
  <2>3. PutRow(ses[r].id, inst[ses[r].id]) BY <1>1, <2>1, <2>2 DEF PutRow
  <2>4. QED BY <1>1, <2>1, <2>3
<1>2. CASE ses[r].dirty # {}
  <2>1. Merged(r) \in Row BY <1>2, MergedType
  <2>2. PutRow(ses[r].id, Merged(r)) BY <1>2 DEF Commit, PutRow
  <2>3. \A c \in Column : Merged(r)[c] = IF c \in ses[r].dirty THEN ses[r].obj[c]
                                                              ELSE inst[ses[r].id][c]
    BY DEF Merged
  <2>4. QED BY <2>1, <2>2, <2>3
<1>3. QED BY <1>1, <1>2

LEMMA SubmissionCommits ==
  ASSUME Known, NEW r \in Request, RacesOf(r), Commit(r), body[r].op = "create"
  PROVE  \E row \in Row : Submits(r, row)
<1> DEFINE i == ses[r].id
<1>0. /\ TypeOK /\ ControlInv /\ SessionInv /\ StatusWrites /\ WritesInv
      /\ pc[r] = "commit" /\ body' = body
  BY KnownParts DEF Commit, Answer
<1>1. ses[r] \in Session /\ ses[r].obj \in Row /\ i \in Request /\ body[r] \in Body
  BY <1>0 DEF TypeOK, Session
<1>2. body[r] \in CreateBody BY <1>1, BodyOfOp
<1>3. Editing(r) /\ SubmissionOf(r) BY <1>0 DEF Editing, RacesOf
<1>4. Updated(r) /\ Deleted(r) /\ Refreshed(r) /\ Summed(r)
  BY <1>0 DEF Updated, Deleted, Refreshed, Summed
<1>5. /\ InsertionOf(r) /\ ses[r].obj.key = body[r].key
      /\ i \in DOMAIN inst => inst[i].key = body[r].key
      /\ ses[r].obj.period = body[r].period /\ ses[r].obj.salary = body[r].salary
      /\ \A m \in ses[r].del : m.inst = i
      /\ ~body[r].salaried
      /\ ses[r].obj.total = Calculate(ses[r].obj.salary, ses[r].metrics)
  BY <1>3, <1>4 DEF SubmissionOf, HoldingOf
<1>6. /\ ses[r].obj.status = "submitted"
      /\ IF i \in DOMAIN inst THEN "status" \notin ses[r].dirty ELSE ses[r].dirty = Column
  BY <1>0 DEF StatusWrites, CreateWrites
<1>7. ses[r].dirty = {} => i \in DOMAIN inst BY <1>6 DEF Column
<1>8. PICK row \in Row :
        /\ PutRow(i, row)
        /\ \A c \in Column : row[c] = IF c \in ses[r].dirty THEN ses[r].obj[c] ELSE inst[i][c]
  BY <1>0, <1>7, CommitPuts
<1>9. i \notin DOMAIN inst => i = r BY <1>0 DEF SessionInv, SessionOf
<1>10. IF i \in DOMAIN inst
       THEN row.key = inst[i].key /\ row.status = inst[i].status
       ELSE row.key = body[r].key /\ row.status = "submitted"
  BY <1>5, <1>6, <1>8 DEF Column
<1>11. \A m \in ses[r].ins : m.inst = i BY <1>0 DEF WritesInv, WritesOf
<1>12. metric' = (metric \ ses[r].del) \cup ses[r].ins BY DEF Commit
<1>13. \A j \in Request : j # i => RowsOf(metric', j) = MetricsOf(j)
  BY <1>5, <1>11, <1>12 DEF MetricsOf, RowsOf
<1>14. ASSUME ~Raced(i, {"create"}) PROVE Filed(r, row)
  <2>1. AloneOf(r) BY <1>3, <1>14 DEF SubmissionOf
  <2>2. /\ \A c \in Column : c # "status" => row[c] = ses[r].obj[c]
        /\ ses[r].del = MetricsOf(i)
        /\ ses[r].metrics = Submitted(r) /\ ses[r].ins = Submitted(r)
    BY <1>4, <1>6, <1>8, <2>1 DEF AloneOf
  <2>3. RowsOf(metric', i) = Submitted(r)
    BY <1>11, <1>12, <2>2 DEF MetricsOf, RowsOf
  <2>4. /\ row.period = ses[r].obj.period /\ row.salary = ses[r].obj.salary
        /\ row.total = ses[r].obj.total
    BY <2>2 DEF Column
  <2>5. QED BY <1>5, <2>2, <2>3, <2>4 DEF Filed
<1>15. Submits(r, row)
  BY <1>0, <1>1, <1>2, <1>3, <1>5, <1>8, <1>9, <1>10, <1>13, <1>14 DEF Submits
<1>16. QED BY <1>15

LEMMA FinalizationCommits ==
  ASSUME Known, NEW r \in Request, RacesOf(r), Commit(r), body[r].op = "finalize"
  PROVE  Approves(r)
<1> DEFINE i == ses[r].id
           row == [inst[i] EXCEPT !.status = "approved"]
<1>0. /\ TypeOK /\ SessionInv /\ StatusWrites /\ WritesInv
      /\ pc[r] = "commit" /\ body' = body
  BY KnownParts DEF Commit, Answer
<1>1. ses[r] \in Session /\ ses[r].obj \in Row BY <1>0 DEF TypeOK, Session
<1>2. /\ i \in DOMAIN inst /\ ses[r].dirty = {"status"}
      /\ ses[r].obj.status = "approved"
  BY <1>0 DEF StatusWrites, FinalizeWrites
<1>3. ses[r].del = {} /\ ses[r].ins = {}
  BY <1>0 DEF RacesOf, ChangesOf, WritesInv, WritesOf
<1>4. metric' = metric BY <1>3 DEF Commit
<1>5. inst[i] \in Row BY <1>0, <1>2 DEF TypeOK
<1>6. row \in Row BY <1>5 DEF Row, KPIStatus
<1>7. \A c \in Column : row[c] = IF c \in ses[r].dirty THEN ses[r].obj[c] ELSE inst[i][c]
  BY <1>2, <1>5 DEF Column, Row
<1>8. Merged(r) = row BY <1>0, <1>2, <1>6, <1>7, MergedRow
<1>9. PutRow(i, row) BY <1>2, <1>8 DEF Commit, PutRow
<1>10. QED BY <1>0, <1>2, <1>4, <1>9 DEF Approves, Editing

LEMMA BotInserts ==
  ASSUME Known, NEW r \in Request, BotCreate(r)
  PROVE  Inserts(r)
<1>0. TypeOK /\ ControlInv /\ FreshIds /\ ReferencesInv /\ pc[r] = "bot"
  BY KnownParts DEF BotCreate
<1>1. body[r] \in BotBody /\ body[r].op = "bot"
  BY <1>0, BodyOfOp DEF TypeOK, ControlInv, ControlOf
<1>2. r \notin DOMAIN inst BY <1>0 DEF FreshIds
<1>3. MetricsOf(r) = {} BY <1>0, <1>2, NoMetricsYet
<1>4. PutRow(r, [key |-> body[r].key, period |-> body[r].period, salary |-> body[r].salary,
                 total |-> Calculate(body[r].salary, {}), status |-> "submitted"])
  BY DEF BotCreate, NewRow, PutRow
<1>5. QED BY <1>1, <1>2, <1>3, <1>4 DEF Inserts, BotCreate, Answer

(* What a step does to instances and metrics.                              *)
LEMMA Effects ==
  ASSUME Known, NEW r \in Request, RacesOf(r), StepOf(r)
  PROVE  Effect(r)
<1>0. /\ TypeOK /\ SessionInv /\ ControlInv /\ StatusWrites /\ WritesInv
      /\ AnswersInv
  BY KnownParts DEF Known, IntegrityInv
<1>1. CASE Commit(r)
  <2>1. CASE body[r].op = "dispute"
    <3>1. ses[r].dirty = {} /\ ses[r].ins = {} /\ ses[r].del = {}
      BY <1>0, <2>1 DEF StatusWrites, DisputeWrites, WritesInv, WritesOf, RacesOf, ChangesOf
    <3>2. QED BY <1>1, <3>1 DEF Commit, Effect
  <2>2. pc[r] = "commit" BY <1>1 DEF Commit
  <2>3. body[r].op \in {"create", "finalize", "dispute"}
    BY <1>0, <2>2 DEF ControlInv, ControlOf
  <2>4. pc'[r] = "done" BY <1>0, <1>1 DEF Commit, Answer, Goto, TypeOK
  <2>5. QED BY <1>1, <2>1, <2>3, <2>4, SubmissionCommits, FinalizationCommits DEF Effect
<1>2. CASE BotCreate(r)
  <2>1. pc'[r] = "done" BY <1>0, <1>2 DEF BotCreate, Answer, Goto, TypeOK
  <2>2. QED BY <1>2, <2>1, BotInserts DEF Effect
<1>3. CASE Refused(r) BY <1>3 DEF Refused, GetApproved, Refuse, db, Effect
<1>4. CASE Quiet(r) BY <1>4 DEF Quiet, db, Effect
<1>5. CASE DeleteMetrics(r) \/ InsertMetrics(r) \/ InsertDispute(r) \/ Notify(r)
  BY <1>5 DEF DeleteMetrics, InsertMetrics, InsertDispute, Notify, db, Effect
<1>6. QED BY <1>0, <1>1, <1>2, <1>3, <1>4, <1>5, StepKinds
-----------------------------------------------------------------------------
(* What the step of another request does to a request's instance.          *)

LEMMA StepOpens ==
  ASSUME NEW r \in Request, StepOf(r), ~Receive(r)
  PROVE  Open(r)
<1>1. CASE CreateStep(r)
  <2>1. pc[r] \in CreateSteps
    <3> USE DEF CreateSteps
    <3>1. CASE RejectDuplicates(r) \/ RejectClosed(r) \/ LoadExisting(r) \/ InsertNew(r)
      BY <3>1 DEF RejectDuplicates, RejectClosed, LoadExisting, InsertNew
    <3>2. CASE LoadMetrics(r) \/ UpdateExisting(r) \/ DeleteMetrics(r) \/ DeleteDisputed(r)
      BY <3>2 DEF LoadMetrics, UpdateExisting, DeleteMetrics, DeleteDisputed
    <3>3. CASE InsertMetrics(r) \/ RaiseTypeError(r) \/ CalculateAndAudit(r)
      BY <3>3 DEF InsertMetrics, RaiseTypeError, CalculateAndAudit
    <3>4. QED BY <1>1, <3>1, <3>2, <3>3 DEF CreateStep
  <2>2. QED BY <2>1 DEF Open, CreateSteps
<1>2. CASE FinalizeStep(r)
  BY <1>2 DEF FinalizeStep, GetMissing, GetApproved, GetInstance, Approve, Open
<1>3. CASE DisputeStep(r)
  BY <1>3 DEF DisputeStep, InsertDispute, RejectDispute, Open
<1>4. CASE BotCreate(r) \/ Notify(r) \/ Commit(r)
  BY <1>4 DEF BotCreate, Notify, Commit, Open
<1>5. CASE Abort(r) BY <1>5 DEF Abort
<1>6. CASE BreakDeadlock(r)
  <2>1. PICK q \in WaitsFor(r) : TRUE BY <1>6 DEF BreakDeadlock, Deadlocked
  <2>2. pc[r] \in {"idle", "done"} => WaitsFor(r) = {} BY DEF WaitsFor
  <2>3. QED BY <2>1, <2>2 DEF Open
<1>7. QED BY <1>1, <1>2, <1>3, <1>4, <1>5, <1>6 DEF StepOf, HandlerStep

(* A request whose row is committed takes no more steps: its body stays.   *)
LEMMA BodyKept ==
  ASSUME Known, NEW r \in Request, StepOf(r), NEW i \in DOMAIN inst
  PROVE  body'[i] = body[i]
<1>1. TypeOK /\ pc[i] = "done" /\ i \in Request BY KnownParts DEF FreshIds, TypeOK
<1>2. ~Receive(i) /\ ~Open(i) BY <1>1 DEF Receive, Open
<1>3. i # r BY <1>2, StepOpens
<1>4. QED BY <1>1, <1>3, Frame

LEMMA OverlapSeen ==
  ASSUME NEW q \in Request, NEW r \in Request, Overlap(q, r)
  PROVE  [id |-> ses[q].id, edits |-> {Edit(q), Edit(r)}] \in Overlapping
<1> DEFINE pairs == {p \in Request \X Request : Overlap(p[1], p[2])}
           seen(p) == [id |-> ses[p[1]].id, edits |-> {Edit(p[1]), Edit(p[2])}]
<1>1. <<q, r>> \in pairs OBVIOUS
<1>2. seen(<<q, r>>) \in {seen(p) : p \in pairs} BY <1>1
<1>3. seen(<<q, r>>) = [id |-> ses[q].id, edits |-> {Edit(q), Edit(r)}] OBVIOUS
<1>4. QED BY <1>2, <1>3 DEF Overlapping

(* Two requests at one instance have been seen.                            *)
LEMMA SameInstance ==
  ASSUME Observed, NEW q \in Request, NEW r \in Request, q # r,
         Editing(q), Editing(r), ses[q].id = ses[r].id, ses[q].id \in DOMAIN inst
  PROVE  Raced(ses[q].id, {body[q].op, body[r].op})
<1>1. Overlap(q, r) BY DEF Overlap
<1>2. [id |-> ses[q].id, edits |-> {Edit(q), Edit(r)}] \in Overlapping
  BY <1>1, OverlapSeen
<1>3. Edit(q) = body[q].op /\ Edit(r) = body[r].op BY DEF Edit
<1>4. QED BY <1>2, <1>3 DEF Observed, Raced

(* A committed row and its metrics change only by a submission, which      *)
(* leaves key and status, and by an approval, which leaves all but that.   *)
Kept(i) == inst'[i] = inst[i] /\ RowsOf(metric', i) = MetricsOf(i)

Resubmits(r, i) ==
  /\ ses[r].id = i /\ Editing(r) /\ body[r].op = "create"
  /\ inst'[i].status = inst[i].status

Confirms(r, i) ==
  /\ ses[r].id = i /\ Editing(r) /\ body[r].op = "finalize"
  /\ inst'[i] = [inst[i] EXCEPT !.status = "approved"]
  /\ RowsOf(metric', i) = MetricsOf(i)

LEMMA EffectOn ==
  ASSUME Known, NEW r \in Request, Effect(r), NEW i \in DOMAIN inst
  PROVE  /\ i \in DOMAIN inst' /\ inst'[i].key = inst[i].key
         /\ Kept(i) \/ Resubmits(r, i) \/ Confirms(r, i)
<1>0. DOMAIN inst \subseteq Request /\ inst[i] \in Row BY KnownParts DEF TypeOK
<1>1. CASE UNCHANGED <<inst, metric>> BY <1>1 DEF Kept, RowsOf, MetricsOf
<1>2. CASE \E row \in Row : Submits(r, row)
  <2>1. PICK row \in Row : Submits(r, row) BY <1>2
  <2>2. CASE i = ses[r].id
    BY <2>1, <2>2 DEF Submits, PutRow, Resubmits, CreateBody
  <2>3. CASE i # ses[r].id
    BY <1>0, <2>1, <2>3 DEF Submits, PutRow, Kept
  <2>4. QED BY <2>2, <2>3
<1>3. CASE Approves(r)
  <2>1. metric' = metric /\ body[r].op = "finalize" /\ Editing(r) BY <1>3 DEF Approves
  <2>2. RowsOf(metric', i) = MetricsOf(i) BY <2>1 DEF RowsOf, MetricsOf
  <2>3. i \in DOMAIN inst' BY <1>3 DEF Approves, PutRow
  <2>4. CASE i = ses[r].id
    <3>1. inst'[i] = [inst[i] EXCEPT !.status = "approved"]
      BY <1>3, <2>4 DEF Approves, PutRow
    <3>2. inst'[i].key = inst[i].key BY <1>0, <3>1 DEF Row
    <3>3. QED BY <2>1, <2>2, <2>3, <2>4, <3>1, <3>2 DEF Confirms
  <2>5. CASE i # ses[r].id
    BY <1>3, <2>2, <2>3, <2>5 DEF Approves, PutRow, Kept
  <2>6. QED BY <2>4, <2>5
<1>4. CASE Inserts(r)
  BY <1>4 DEF Inserts, PutRow, Kept, RowsOf, MetricsOf
<1>5. QED BY <1>1, <1>2, <1>3, <1>4 DEF Effect

(* A row that was not there before was inserted by this request.           *)
LEMMA EffectNew ==
  ASSUME Known, NEW r \in Request, Effect(r), NEW i \in DOMAIN inst' \ DOMAIN inst
  PROVE  /\ i = r /\ inst'[i].key = body[r].key /\ body' = body
         /\ \/ Inserts(r)
            \/ \E row \in Row : Submits(r, row) /\ ses[r].id = i /\ inst'[i] = row
BY DEF Effect, Submits, Approves, Inserts, PutRow

LEMMA OtherFinalization ==
  ASSUME Known, Observed, NEW r \in Request, StepOf(r), Effect(r),
         NEW q \in Request \ {r}, FinalizationOf(q)
  PROVE  NextFinalization(q)
<1> DEFINE i == ses[q].id
<1>0. TypeOK /\ ControlInv /\ StatusWrites BY KnownParts
<1>1. pc'[q] = pc[q] /\ body'[q] = body[q] /\ ses'[q] = ses[q] BY <1>0, Frame
<1>2. SUFFICES ASSUME body[q].op = "finalize", Editing(q), ~Raced(i, {"finalize"})
               PROVE  inst'[i].status = "submitted"
  BY <1>1 DEF NextFinalization, FinalizationOf, Editing
<1>3. inst[i].status = "submitted" BY <1>2 DEF FinalizationOf
<1>4. i \in DOMAIN inst
  <2>1. pc[q] \in {"approve", "notify", "commit"}
    BY <1>0, <1>2 DEF Editing, ControlInv, ControlOf, CreateSteps
  <2>2. QED BY <1>0, <1>2, <2>1 DEF StatusWrites, FinalizeWrites
<1>5. ~Confirms(r, i)
  <2>1. SUFFICES ASSUME Confirms(r, i) PROVE FALSE
    OBVIOUS
  <2>2. Editing(r) /\ ses[r].id = i /\ body[r].op = "finalize" BY <2>1 DEF Confirms
  <2>3. Raced(i, {body[q].op, body[r].op}) BY <1>2, <1>4, <2>2, SameInstance
  <2>4. QED BY <1>2, <2>2, <2>3
<1>6. QED BY <1>3, <1>4, <1>5, EffectOn DEF Kept, Resubmits

LEMMA OtherInsertion ==
  ASSUME Known, Observed, raced \subseteq raced', NEW r \in Request, StepOf(r), Effect(r),
         NEW q \in Request \ {r}, body[q].op = "create", Editing(q),
         HoldingOf(q), InsertionOf(q)
  PROVE  InsertionOf(q)'
<1>0. TypeOK /\ SessionInv /\ TypeOK' BY KnownParts
<1>1. pc'[q] = pc[q] /\ body'[q] = body[q] /\ ses'[q] = ses[q] BY <1>0, Frame
<1>2. \A j, e : Raced(j, e) => Raced(j, e)' BY DEF Raced
<1>3. SUFFICES ASSUME ses[q].id \notin DOMAIN inst', NEW j \in Matches(q)'
               PROVE  body'[j].op = "bot" \/ (Raced(j, {"insert"}) /\ Raced(q, {"insert"}))'
  BY <1>1, <1>2 DEF InsertionOf
<1>4. ses[q].id \notin DOMAIN inst BY <1>3, EffectOn
<1>5. ses[q].id = q BY <1>0, <1>4 DEF SessionInv, SessionOf
<1>6. j \in DOMAIN inst' /\ inst'[j].key = body[q].key BY <1>1, <1>3 DEF Matches
<1>7. CASE j \in DOMAIN inst
  <2>1. j \in Matches(q) BY <1>6, <1>7, EffectOn DEF Matches
  <2>2. body'[j] = body[j] BY <1>7, BodyKept
  <2>3. QED BY <1>2, <1>4, <2>1, <2>2 DEF InsertionOf
<1>8. CASE j \notin DOMAIN inst
  <2>1. j = r /\ inst'[j].key = body[r].key /\ body' = body BY <1>6, <1>8, EffectNew
  <2>2. CASE Inserts(r) BY <2>1, <2>2 DEF Inserts
  <2>3. CASE \E row \in Row : Submits(r, row) /\ ses[r].id = j /\ inst'[j] = row
    <3>1. Editing(r) /\ ses[r].obj.key = body[r].key /\ ses[r].id = r
      BY <2>1, <2>3 DEF Submits
    <3>2. Edit(r) = "insert" /\ Edit(q) = "insert" BY <1>4, <1>8, <2>1, <3>1 DEF Edit
    <3>3. ses[q].obj.key = ses[r].obj.key BY <1>6, <2>1, <3>1 DEF HoldingOf
    <3>4. Overlap(q, r) /\ Overlap(r, q) BY <3>1, <3>2, <3>3 DEF Overlap
    <3>5. /\ [id |-> ses[q].id, edits |-> {Edit(q), Edit(r)}] \in Overlapping
          /\ [id |-> ses[r].id, edits |-> {Edit(r), Edit(q)}] \in Overlapping
      BY <3>4, OverlapSeen
    <3>6. Raced(q, {"insert"}) /\ Raced(r, {"insert"})
      BY <1>5, <3>1, <3>2, <3>5 DEF Observed, Raced
    <3>7. QED BY <1>2, <2>1, <3>6
  <2>4. QED BY <1>6, <1>8, <2>2, <2>3, EffectNew
<1>9. QED BY <1>7, <1>8

LEMMA OtherSubmission ==
  ASSUME Known, Observed, raced \subseteq raced', NEW r \in Request, StepOf(r), Effect(r),
         NEW q \in Request \ {r}, SubmissionOf(q)
  PROVE  NextSubmission(q)
<1> DEFINE i == ses[q].id
<1>0. TypeOK /\ SessionInv BY KnownParts
<1>1. pc'[q] = pc[q] /\ body'[q] = body[q] /\ ses'[q] = ses[q] BY <1>0, Frame
<1>2. SUFFICES ASSUME body[q].op = "create", Editing(q)
               PROVE  /\ HoldingOf(q)' /\ InsertionOf(q)'
                      /\ ~Raced(i, {"create"}) => AloneOf(q)'
                      /\ i \in DOMAIN inst' /\ ~Raced(i, {"create", "finalize"}) =>
                           inst'[i].status = "submitted"
  BY <1>1 DEF NextSubmission, Editing
<1>3. HoldingOf(q) /\ InsertionOf(q) BY <1>2 DEF SubmissionOf
<1>4. i \in DOMAIN inst' <=> i \in DOMAIN inst
  <2>1. i \notin DOMAIN inst => i = q BY <1>0 DEF SessionInv, SessionOf
  <2>2. QED BY <2>1, EffectOn, EffectNew
<1>5. i \in DOMAIN inst => inst'[i].key = inst[i].key BY EffectOn
<1>6. HoldingOf(q)'
  <2>1. Calculate(ses[q].obj.salary, ses[q].metrics)'
          = Calculate(ses[q].obj.salary, ses[q].metrics)
    BY <1>1
  <2>2. (Updated(q)' <=> Updated(q)) /\ (Summed(q)' <=> Summed(q))
    BY <1>1 DEF Updated, Summed
  <2>3. QED BY <1>1, <1>3, <1>4, <1>5, <2>1, <2>2 DEF HoldingOf
<1>7. InsertionOf(q)' BY <1>2, <1>3, OtherInsertion
<1>8. ASSUME i \in DOMAIN inst, Resubmits(r, i)
      PROVE  Raced(i, {"create"})
  <2>1. Editing(r) /\ ses[r].id = i /\ body[r].op = "create" BY <1>8 DEF Resubmits
  <2>2. Raced(i, {body[q].op, body[r].op}) BY <1>2, <1>8, <2>1, SameInstance
  <2>3. QED BY <1>2, <2>1, <2>2
<1>9. ASSUME i \in DOMAIN inst, Confirms(r, i)
      PROVE  Raced(i, {"create", "finalize"})
  <2>1. Editing(r) /\ ses[r].id = i /\ body[r].op = "finalize" BY <1>9 DEF Confirms
  <2>2. Raced(i, {body[q].op, body[r].op}) BY <1>2, <1>9, <2>1, SameInstance
  <2>3. QED BY <1>2, <2>1, <2>2
<1>10. ASSUME ~Raced(i, {"create"}) PROVE AloneOf(q)'
  <2>1. AloneOf(q) BY <1>2, <1>10 DEF SubmissionOf
  <2>2. i \in Request BY <1>0 DEF TypeOK, Session
  <2>3. RowsOf(metric', i) = MetricsOf(i)
    <3>1. CASE i \in DOMAIN inst BY <1>8, <1>10, <3>1, EffectOn DEF Kept, Confirms
    <3>2. CASE i \notin DOMAIN inst
      <4>1. i = q BY <1>0, <3>2 DEF SessionInv, SessionOf
      <4>2. ASSUME NEW row \in Row, Submits(r, row) PROVE ses[r].id # i
        BY <3>2, <4>1, <4>2 DEF Submits
      <4>3. QED BY <2>2, <4>2 DEF Effect, Submits, Approves, Inserts, RowsOf, MetricsOf
    <3>3. QED BY <3>1, <3>2
  <2>4. MetricsOf(ses[q].id)' = MetricsOf(ses[q].id)
    BY <1>1, <2>3 DEF MetricsOf, RowsOf
  <2>5. i \in DOMAIN inst =>
          \A c \in Column \ {"status"} : inst'[i][c] = inst[i][c]
    <3>1. SUFFICES ASSUME i \in DOMAIN inst, NEW c \in Column \ {"status"}
                   PROVE  inst'[i][c] = inst[i][c]
      OBVIOUS
    <3>2. Kept(i) \/ Confirms(r, i) BY <1>8, <1>10, <3>1, EffectOn
    <3>3. inst[i] \in Row BY <1>0, <3>1 DEF TypeOK
    <3>4. QED BY <3>2, <3>3 DEF Kept, Confirms, Row, Column
  <2>6. Submitted(q)' = Submitted(q) BY <1>1 DEF Submitted
  <2>7. (Deleted(q)' <=> Deleted(q)) /\ (Refreshed(q)' <=> Refreshed(q))
    BY <1>1 DEF Deleted, Refreshed, Updated
  <2>8. QED BY <1>1, <1>4, <2>1, <2>4, <2>5, <2>6, <2>7 DEF AloneOf
<1>11. ASSUME i \in DOMAIN inst', ~Raced(i, {"create", "finalize"})
       PROVE  inst'[i].status = "submitted"
  <2>1. inst[i].status = "submitted" /\ i \in DOMAIN inst
    BY <1>2, <1>4, <1>11 DEF SubmissionOf
  <2>2. Kept(i) \/ Resubmits(r, i) BY <1>9, <1>11, <2>1, EffectOn
  <2>3. QED BY <2>1, <2>2 DEF Kept, Resubmits
<1>12. QED BY <1>6, <1>7, <1>10, <1>11

LEMMA OtherRaces ==
  ASSUME Known, Observed, raced \subseteq raced', NEW r \in Request, StepOf(r), RacesOf(r),
         NEW q \in Request \ {r}, RacesOf(q)
  PROVE  NextRaces(q)
<1>1. Effect(r) BY Effects
<1>2. NextSubmission(q) BY <1>1, OtherSubmission DEF RacesOf
<1>3. NextFinalization(q) BY <1>1, OtherFinalization DEF RacesOf
<1>4. ChangesOf(q)'
  <2>1. body'[q] = body[q] /\ ses'[q] = ses[q] BY KnownParts, Frame
  <2>2. QED BY <2>1 DEF RacesOf, ChangesOf
<1>5. QED BY <1>2, <1>3, <1>4 DEF NextRaces
-----------------------------------------------------------------------------
(* The observer.                                                           *)

(* What is seen: two edits of one instance, or two inserts of a key.       *)
LEMMA SeenOverlap ==
  ASSUME NEW o \in Overlapping
  PROVE  \E q \in Request, r \in Request :
           Overlap(q, r) /\ o.id = ses[q].id /\ o.edits = {Edit(q), Edit(r)}
BY DEF Overlapping

SoundOverlaps ==
  \A o \in Overlapping :
    /\ o \in [id : Request, edits : SUBSET Edits]
    /\ o.edits # {"insert"} => o.id \in DOMAIN inst

LEMMA SeenEdits == TypeOK /\ ControlInv => SoundOverlaps
<1>0. SUFFICES ASSUME TypeOK, ControlInv, NEW o \in Overlapping
               PROVE  /\ o \in [id : Request, edits : SUBSET Edits]
                      /\ o.edits # {"insert"} => o.id \in DOMAIN inst
  BY DEF SoundOverlaps
<1>1. ASSUME NEW q \in Request, Editing(q)
      PROVE  ses[q].id \in Request /\ body[q].op \in {"create", "finalize"}
  BY <1>0, <1>1 DEF TypeOK, Session, Editing, ControlInv, ControlOf, CreateSteps, FinalizeSteps
<1>2. ASSUME NEW q \in Request, NEW r \in Request, Overlap(q, r)
      PROVE  /\ Edit(q) \in Edits /\ Edit(r) \in Edits /\ ses[q].id \in Request
             /\ {Edit(q), Edit(r)} # {"insert"} => ses[q].id \in DOMAIN inst
  BY <1>1, <1>2 DEF Overlap, Edit, Edits
<1>3. PICK q \in Request, r \in Request :
        o.id = ses[q].id /\ o.edits = {Edit(q), Edit(r)} /\ Overlap(q, r)
  BY <1>0, SeenOverlap
<1>4. o \in {[id |-> ses[p[1]].id, edits |-> {Edit(p[1]), Edit(p[2])}] :
              p \in {p \in Request \X Request : Overlap(p[1], p[2])}}
  BY <1>0 DEF Overlapping
<1>5. o = [id |-> ses[q].id, edits |-> {Edit(q), Edit(r)}]
  BY <1>3, <1>4
<1>6. QED BY <1>2, <1>3, <1>5

LEMMA SeenEditsNext == TypeOK' /\ ControlInv' => SoundOverlaps'
BY SeenEdits, PTL

LEMMA ObservedStep ==
  ASSUME Known, Observed, raced' = raced \cup Overlapping',
         DOMAIN inst \subseteq DOMAIN inst'
  PROVE  Observed'
<1>1. TypeOK' /\ ControlInv' BY KnownParts
<1>2. SoundOverlaps' BY <1>1, SeenEditsNext
<1>3. QED BY <1>2 DEF Observed, SoundOverlaps

-----------------------------------------------------------------------------
(* The properties of the committed instances.                              *)

LEMMA DuplicatesStep ==
  ASSUME Known, raced \subseteq raced', DuplicatesExplained,
         NEW r \in Request, StepOf(r), Effect(r)
  PROVE  DuplicatesExplained'
<1>0. \A j, e : Raced(j, e) => Raced(j, e)' BY DEF Raced
<1>1. ASSUME NEW i \in DOMAIN inst' \ DOMAIN inst, NEW j \in DOMAIN inst,
             inst'[i].key = inst'[j].key
      PROVE  \/ "bot" \in {body'[i].op, body'[j].op}
             \/ Raced(i, {"insert"}) /\ Raced(j, {"insert"})
  <2>1. i = r /\ inst'[i].key = body[r].key /\ body' = body BY EffectNew
  <2>2. inst[j].key = body[r].key BY <1>1, <2>1, EffectOn
  <2>3. CASE Inserts(r) BY <2>1, <2>3 DEF Inserts
  <2>4. CASE \E row \in Row : Submits(r, row) /\ ses[r].id = i /\ inst'[i] = row
    <3>1. InsertionOf(r) /\ ses[r].id \notin DOMAIN inst BY <2>4 DEF Submits
    <3>2. j \in Matches(r) BY <2>2 DEF Matches
    <3>3. QED BY <2>1, <3>1, <3>2 DEF InsertionOf
  <2>5. QED BY <2>3, <2>4, EffectNew
<1>2. ASSUME NEW i \in DOMAIN inst, NEW j \in DOMAIN inst, i # j,
             inst'[i].key = inst'[j].key
      PROVE  \/ "bot" \in {body'[i].op, body'[j].op}
             \/ Raced(i, {"insert"}) /\ Raced(j, {"insert"})
  BY <1>2, EffectOn, BodyKept DEF DuplicatesExplained
<1>3. ASSUME NEW i \in DOMAIN inst' \ DOMAIN inst, NEW j \in DOMAIN inst' \ DOMAIN inst
      PROVE  i = j
  BY EffectNew
<1>4. SUFFICES ASSUME NEW i \in DOMAIN inst', NEW j \in DOMAIN inst', i # j,
                      inst'[i].key = inst'[j].key
               PROVE  \/ "bot" \in {body'[i].op, body'[j].op}
                      \/ Raced(i, {"insert"}) /\ Raced(j, {"insert"})
  BY <1>0 DEF DuplicatesExplained
<1>5. QED BY <1>1, <1>2, <1>3, <1>4

(* The rows and the metrics of a submission without another beside it.     *)
LEMMA SubmitsFiled ==
  ASSUME Known, Observed, NEW r \in Request, NEW row \in Row, Submits(r, row),
         ~Raced(ses[r].id, {"create"})
  PROVE  inst'[ses[r].id] = row /\ Filed(r, row)
BY DEF Submits, PutRow

LEMMA TotalStep ==
  ASSUME Known, Observed, raced \subseteq raced', TotalCurrent,
         NEW r \in Request, Effect(r)
  PROVE  TotalCurrent'
<1>1. SUFFICES ASSUME NEW i \in DOMAIN inst', ~Raced(i, {"create"})
               PROVE  inst'[i].total = Calculate(inst'[i].salary, RowsOf(metric', i))
  BY DEF TotalCurrent, MetricsOf, RowsOf, Raced
<1>2. ASSUME NEW row \in Row, Submits(r, row), ses[r].id = i
      PROVE  inst'[i].total = Calculate(inst'[i].salary, RowsOf(metric', i))
  BY <1>1, <1>2, SubmitsFiled DEF Filed
<1>3. CASE i \in DOMAIN inst
  <2>1. inst[i].total = Calculate(inst[i].salary, MetricsOf(i))
    BY <1>1, <1>3 DEF TotalCurrent
  <2>2. CASE Kept(i) BY <2>1, <2>2 DEF Kept
  <2>3. CASE Confirms(r, i)
    <3>1. inst[i] \in Row BY <1>3, KnownParts DEF TypeOK
    <3>2. inst'[i].total = inst[i].total /\ inst'[i].salary = inst[i].salary
      BY <2>3, <3>1 DEF Confirms, Row
    <3>3. QED BY <2>1, <2>3, <3>2 DEF Confirms
  <2>4. CASE Resubmits(r, i) /\ ~Kept(i)
    <3>1. \E row \in Row : Submits(r, row)
      <4>1. body[r].op = "create" /\ ses[r].id = i BY <2>4 DEF Resubmits
      <4>2. ~Approves(r) /\ ~Inserts(r) BY <4>1 DEF Approves, Inserts
      <4>3. ~UNCHANGED <<inst, metric>> BY <2>4 DEF Kept, RowsOf, MetricsOf
      <4>4. QED BY <4>2, <4>3 DEF Effect
    <3>2. QED BY <1>2, <2>4, <3>1 DEF Resubmits
  <2>5. QED BY <1>3, <2>2, <2>3, <2>4, EffectOn
<1>4. CASE i \notin DOMAIN inst
  <2>1. CASE Inserts(r)
    <3>1. i = r BY <1>4, EffectNew
    <3>2. inst'[i].total = Calculate(inst'[i].salary, {})
      BY <2>1, <3>1 DEF Inserts, PutRow
    <3>3. RowsOf(metric', i) = {} BY <2>1, <3>1 DEF Inserts, RowsOf, MetricsOf
    <3>4. QED BY <3>2, <3>3
  <2>2. QED BY <1>2, <1>4, <2>1, EffectNew
<1>5. QED BY <1>3, <1>4

LEMMA OneSubmissionStep ==
  ASSUME Known, Observed, raced \subseteq raced', MetricsFromOneSubmission,
         NEW r \in Request, Effect(r)
  PROVE  MetricsFromOneSubmission'
<1>1. CASE metric' = metric
  BY <1>1 DEF MetricsFromOneSubmission, Raced
<1>2. CASE \E row \in Row : Submits(r, row)
  <2>0. PICK row \in Row : Submits(r, row) BY <1>2
  <2>1. SUFFICES ASSUME NEW m \in metric', NEW n \in metric', m.inst = n.inst,
                        ~Raced(m.inst, {"create"})
                 PROVE  m.by = n.by
    BY DEF MetricsFromOneSubmission, Raced
  <2>2. m.inst \in Request BY <2>1, KnownParts DEF TypeOK, MetricRow
  <2>3. m \in RowsOf(metric', m.inst) /\ n \in RowsOf(metric', m.inst)
    BY <2>1 DEF RowsOf
  <2>4. CASE m.inst = ses[r].id
    <3>1. RowsOf(metric', m.inst) = Submitted(r) BY <2>0, <2>1, <2>4 DEF Submits, Filed
    <3>2. QED BY <2>3, <3>1 DEF Submitted
  <2>5. CASE m.inst # ses[r].id
    <3>1. RowsOf(metric', m.inst) = MetricsOf(m.inst) BY <2>0, <2>2, <2>5 DEF Submits
    <3>2. m \in metric /\ n \in metric BY <2>3, <3>1 DEF MetricsOf
    <3>3. QED BY <2>1, <3>2 DEF MetricsFromOneSubmission
  <2>6. QED BY <2>4, <2>5
<1>3. QED BY <1>1, <1>2 DEF Effect, Approves, Inserts

LEMMA RaceInit == RInit => RaceInv
<1>1. SUFFICES ASSUME RInit PROVE RaceInv
  OBVIOUS
<1>2. /\ DOMAIN inst = {} /\ metric = {} /\ raced = {}
      /\ \A r \in Request : pc[r] = "idle" /\ ses[r] = NoSession(r)
  BY <1>1 DEF RInit, Init
<1>3. \A r \in Request : ~Editing(r) BY <1>2 DEF Editing
<1>4. \A r \in Request : NoSession(r).del = {} /\ NoSession(r).history = {}
  BY DEF NoSession
<1>5. Observed BY <1>2, <1>3 DEF Observed, Overlapping, Overlap
<1>6. \A r \in Request : SubmissionOf(r) /\ FinalizationOf(r) /\ ChangesOf(r)
  BY <1>2, <1>3, <1>4 DEF SubmissionOf, FinalizationOf, ChangesOf
<1>7. DuplicatesExplained /\ TotalCurrent /\ MetricsFromOneSubmission
  BY <1>2 DEF DuplicatesExplained, TotalCurrent, MetricsFromOneSubmission
<1>8. QED BY <1>5, <1>6, <1>7 DEF RaceInv

(* All a step does, as the properties need it.                             *)
LEMMA StepRaces ==
  ASSUME Known, RaceInv, NEW r \in Request, StepOf(r), raced' = raced \cup Overlapping'
  PROVE  Effect(r) /\ \A q \in Request : NextRaces(q)
<1>1. raced \subseteq raced' OBVIOUS
<1>2. Observed /\ \A q \in Request : RacesOf(q) BY DEF RaceInv, RacesOf
<1>3. Effect(r) BY <1>2, Effects
<1>4. NextRaces(r) BY <1>1, <1>2, OwnRaces
<1>5. ASSUME NEW q \in Request \ {r} PROVE NextRaces(q) BY <1>1, <1>2, OtherRaces
<1>6. QED BY <1>3, <1>4, <1>5

LEMMA RaceStutter ==
  ASSUME RaceInv, UNCHANGED rvars
  PROVE  RaceInv'
<1> USE DEF rvars
<1>1. \A r : Editing(r)' <=> Editing(r) BY DEF Editing
<1>2. \A r \in Request : Edit(r)' = Edit(r) BY DEF Edit
<1>3. \A q, r \in Request : Overlap(q, r)' <=> Overlap(q, r)
  BY <1>1, <1>2 DEF Overlap
<1>4. Overlapping' = Overlapping
  <2>1. {p \in Request \X Request : Overlap(p[1], p[2])}'
          = {p \in Request \X Request : Overlap(p[1], p[2])}
    BY <1>3
  <2>2. \A p \in Request \X Request :
          [id |-> ses[p[1]].id, edits |-> {Edit(p[1]), Edit(p[2])}]'
            = [id |-> ses[p[1]].id, edits |-> {Edit(p[1]), Edit(p[2])}]
    BY <1>2
  <2>3. QED BY <2>1, <2>2 DEF Overlapping
<1>5. Observed' BY <1>4 DEF RaceInv, Observed
<1>6. \A i : MetricsOf(i)' = MetricsOf(i) BY DEF MetricsOf
<1>7. ASSUME NEW r \in Request
      PROVE  SubmissionOf(r)' /\ FinalizationOf(r)' /\ ChangesOf(r)'
  <2>1. Submitted(r)' = Submitted(r) /\ Matches(r)' = Matches(r)
    BY DEF Submitted, Matches
  <2>2. HoldingOf(r) => HoldingOf(r)' BY DEF HoldingOf, Updated, Summed
  <2>3. InsertionOf(r) => InsertionOf(r)' BY <2>1 DEF InsertionOf, Raced
  <2>4. AloneOf(r) => AloneOf(r)'
    BY <1>6, <2>1 DEF AloneOf, Updated, Deleted, Refreshed
  <2>5. SubmissionOf(r)'
    BY <1>1, <2>2, <2>3, <2>4 DEF RaceInv, SubmissionOf, Raced
  <2>6. FinalizationOf(r)' BY <1>1 DEF RaceInv, FinalizationOf, Raced
  <2>7. ChangesOf(r)' BY DEF RaceInv, ChangesOf
  <2>8. QED BY <2>5, <2>6, <2>7
<1>8. DuplicatesExplained' BY DEF RaceInv, DuplicatesExplained, Raced
<1>9. TotalCurrent' BY <1>6 DEF RaceInv, TotalCurrent, Raced
<1>10. MetricsFromOneSubmission' BY DEF RaceInv, MetricsFromOneSubmission, Raced
<1>11. QED BY <1>5, <1>7, <1>8, <1>9, <1>10 DEF RaceInv

LEMMA RaceStep ==
  ASSUME Known, RaceInv, [RNext]_rvars
  PROVE  RaceInv'
<1>1. CASE UNCHANGED rvars BY <1>1, RaceStutter
<1>2. CASE RNext
  <2>1. PICK r \in Request : StepOf(r) BY <1>2 DEF RNext, Next, StepOf
  <2>2. raced' = raced \cup Overlapping' BY <1>2 DEF RNext
  <2>3. Effect(r) /\ \A q \in Request : NextRaces(q) BY <2>1, <2>2, StepRaces
  <2>4. raced \subseteq raced' BY <2>2
  <2>5. DOMAIN inst \subseteq DOMAIN inst' BY <2>3, EffectOn
  <2>6. Observed' BY <2>2, <2>5, ObservedStep DEF RaceInv
  <2>7. \A q \in Request : RacesOf(q)' BY <2>3, <2>4, NextIsEnough
  <2>8. DuplicatesExplained' BY <2>1, <2>3, <2>4, DuplicatesStep DEF RaceInv
  <2>9. TotalCurrent' BY <2>3, <2>4, TotalStep DEF RaceInv
  <2>10. MetricsFromOneSubmission' BY <2>3, <2>4, OneSubmissionStep DEF RaceInv
  <2>11. QED BY <2>6, <2>7, <2>8, <2>9, <2>10 DEF RaceInv, RacesOf
<1>3. QED BY <1>1, <1>2
-----------------------------------------------------------------------------
(* The amount of a submission: what Calculate makes of its metric rows is  *)
(* what a sheet is worth with its inputs.                                  *)

(* MapThenSumSet as Calculate uses it, and as Worth does.                  *)
LEMMA CalculateSums ==
  ASSUME NEW s \in Salary, NEW M \in SUBSET MetricRow, IsFiniteSet(M),
         NEW w, w = [m \in M |-> Score[m.input]],
         NEW g \in [SUBSET M -> Int], Sums(g, M, w)
  PROVE  Calculate(s, M) = s + g[M]
<1> DEFINE IsIter(iter) ==
             iter = [S \in SUBSET M |->
                       IF S = {} THEN 0
                       ELSE LET x == CHOOSE y \in S : TRUE
                            IN  Score[x.input] + iter[S \ {x}]]
           iter == CHOOSE h : IsIter(h)
<1>1. \A S \in SUBSET M : S # {} => Pick(S) \in M BY PickIn
<1>2. IsIter(g) BY <1>1 DEF Sums, Pick
<1>3. IsIter(iter) BY <1>2
<1>4. Sums(iter, M, w)
  <2> HIDE DEF iter
  <2>1. QED BY <1>1, <1>3 DEF Sums, Pick
<1>5. iter[M] = g[M]
  <2> HIDE DEF iter
  <2>1. QED BY <1>4, SumsUnique
<1>6. Calculate(s, M) = s + iter[M]
  BY DEF Calculate, MapThenSumSet, MapThenFoldSet
<1>7. QED BY <1>5, <1>6

LEMMA WorthSums ==
  ASSUME NEW s \in Salary, NEW F \in SUBSET MetricInput, IsFiniteSet(F),
         NEW w, w = [f \in F |-> Score[f]],
         NEW g \in [SUBSET F -> Int], Sums(g, F, w)
  PROVE  Sheets!Worth(s, F) = s + g[F]
<1> DEFINE IsIter(iter) ==
             iter = [S \in SUBSET F |->
                       IF S = {} THEN 0
                       ELSE LET x == CHOOSE y \in S : TRUE
                            IN  Score[x] + iter[S \ {x}]]
           iter == CHOOSE h : IsIter(h)
<1>1. \A S \in SUBSET F : S # {} => Pick(S) \in F BY PickIn
<1>2. IsIter(g) BY <1>1 DEF Sums, Pick
<1>3. IsIter(iter) BY <1>2
<1>4. Sums(iter, F, w)
  <2> HIDE DEF iter
  <2>1. QED BY <1>1, <1>3 DEF Sums, Pick
<1>5. iter[F] = g[F]
  <2> HIDE DEF iter
  <2>1. QED BY <1>4, SumsUnique
<1>6. Sheets!Worth(s, F) = s + iter[F]
  BY DEF Sheets!Worth, Sheets!MapThenSumSet, Sheets!MapThenFoldSet
<1>7. QED BY <1>5, <1>6

LEMMA AmountOfRows ==
  ASSUME NEW s \in Salary, NEW i \in Request, NEW r \in Request,
         NEW F \in SUBSET MetricInput, IsFiniteSet(F)
  PROVE  Calculate(s, {[inst |-> i, by |-> r, input |-> f] : f \in F}) = Sheets!Worth(s, F)
<1> DEFINE b == [f \in F |-> [inst |-> i, by |-> r, input |-> f]]
           M == {[inst |-> i, by |-> r, input |-> f] : f \in F}
           v == [m \in M |-> Score[m.input]]
           w == [f \in F |-> Score[f]]
<1>1. M \in SUBSET MetricRow /\ \A m \in M : m.input \in F BY DEF MetricRow
<1>2. M = {b[f] : f \in F} OBVIOUS
<1>3. IsFiniteSet(M)
  <2>1. b \in Surjection(F, M) BY DEF Surjection
  <2>2. QED BY <2>1, FS_Surjection
<1>4. w \in [F -> Int] /\ v \in [M -> Int] BY <1>1, ConstantsAssumption
<1>5. \A f \in F : b[f] \in M /\ w[f] = v[b[f]] OBVIOUS
<1>6. b \in [F -> M] /\ \A f, e \in F : b[f] = b[e] => f = e OBVIOUS
<1> HIDE DEF b, M, v, w
<1>7. PICK g \in [SUBSET F -> Int] : Sums(g, F, w) BY <1>4, SumsExist
<1>8. PICK h \in [SUBSET M -> Int] : Sums(h, M, v) BY <1>3, <1>4, SumsExist
<1>9. \A S \in SUBSET F : g[S] = h[ImageOf(b, S)]
  <2>1. IsSum(g, F, w) /\ IsSum(h, M, v) BY <1>3, <1>4, <1>7, <1>8 DEF IsSum
  <2>2. Matching(b, F, w, M, v) BY <1>5, <1>6 DEF Matching
  <2>3. QED BY <2>1, <2>2, SumsAlike
<1>10. g[F] = h[M]
  <2>1. M = ImageOf(b, F) BY <1>2 DEF ImageOf
  <2>2. QED BY <1>9, <2>1
<1>11. Sheets!Worth(s, F) = s + g[F] BY <1>7, WorthSums DEF w
<1>12. Calculate(s, M) = s + h[M] BY <1>1, <1>3, <1>8, CalculateSums DEF v
<1>13. QED BY <1>10, <1>11, <1>12 DEF M

-----------------------------------------------------------------------------
(* Every step is a step of KpiSheets, or changes no sheet.                 *)
SheetMap == [i \in DOMAIN inst |-> SheetOf(i)]

SheetWith(row, M) ==
  [key |-> row.key, period |-> row.period, salary |-> row.salary,
   inputs |-> {m.input : m \in M}, total |-> row.total, status |-> row.status]

LEMMA PutSheet ==
  ASSUME NEW i \in Request, NEW row, PutRow(i, row), NEW M, RowsOf(metric', i) = M,
         \A j \in DOMAIN inst \ {i} : RowsOf(metric', j) = MetricsOf(j)
  PROVE  Sheets!Put(i, SheetWith(row, M))
<1>1. SheetOf(i)' = SheetWith(row, M) BY DEF PutRow, SheetOf, SheetWith, MetricsOf, RowsOf
<1>2. \A j \in DOMAIN inst \ {i} : SheetOf(j)' = SheetOf(j)
  BY DEF PutRow, SheetOf, MetricsOf, RowsOf
<1>3. DOMAIN inst' = DOMAIN inst \cup {i} BY DEF PutRow
<1>4. SheetMap' = [j \in DOMAIN SheetMap \cup {i} |->
                     IF j = i THEN SheetWith(row, M) ELSE SheetMap[j]]
  BY <1>1, <1>2, <1>3 DEF SheetMap
<1>5. QED BY <1>4 DEF Sheets!Put, SheetMap

LEMMA SameSheets ==
  ASSUME inst' = inst, metric' = metric
  PROVE  SheetMap' = SheetMap
<1>1. ASSUME NEW i \in DOMAIN inst PROVE SheetOf(i)' = SheetOf(i)
  BY DEF SheetOf, MetricsOf
<1>2. QED BY <1>1 DEF SheetMap

(* A step that leaves the tables may be the one by which a submission and  *)
(* another edit overlap: where nothing has overlapped before, the sheet is *)
(* not frozen.                                                             *)
LEMMA RacesThaw ==
  ASSUME Known, UNCHANGED <<inst, metric>>, raced' = raced \cup Overlapping',
         \A q \in Request : NextRaces(q)
  PROVE  [Sheets!Next]_<<SheetMap, RacedSheets>>
<1> DEFINE I == RacedSheets' \ RacedSheets
<1>1. ASSUME NEW i \in I PROVE i \in Request /\ ~Sheets!Frozen(i)
  <2>1. PICK o \in raced' : o.id = i /\ "create" \in o.edits BY DEF RacedSheets
  <2>2. o \notin raced BY <2>1 DEF RacedSheets
  <2>3. o \in Overlapping' BY <2>1, <2>2
  <2>4. PICK p \in Request, q \in Request :
          Overlap(p, q)' /\ o.id = ses'[p].id /\ o.edits = {Edit(p)', Edit(q)'}
    BY <2>3 DEF Overlapping
  <2>5. PICK s \in Request : Editing(s)' /\ Edit(s)' = "create" /\ ses'[s].id = i
    BY <2>1, <2>4 DEF Overlap
  <2>6. ses'[s].id \in DOMAIN inst' /\ body'[s].op = "create" BY <2>5 DEF Edit
  <2>7. ~Raced(i, {"create", "finalize"}) BY DEF RacedSheets, Raced
  <2>8. inst[i].status = "submitted" /\ i \in DOMAIN inst
    BY <2>5, <2>6, <2>7 DEF NextRaces, NextSubmission
  <2>9. SheetMap[i].status = "submitted" BY <2>8 DEF SheetMap, SheetOf
  <2>10. i \in Request BY <2>5, KnownParts DEF TypeOK, Session
  <2>11. QED BY <2>9, <2>10 DEF Sheets!Frozen, SheetMap
<1>2. SheetMap' = SheetMap BY SameSheets
<1>3. RacedSheets \subseteq RacedSheets' BY DEF RacedSheets
<1>4. SheetMap' = SheetMap /\ RacedSheets' = RacedSheets \cup I BY <1>2, <1>3
<1>5. Sheets!Overlap(I) BY <1>1, <1>4 DEF Sheets!Overlap, SheetMap
<1>6. I \in SUBSET Request BY <1>1
<1>7. QED BY <1>5, <1>6 DEF Sheets!Next

(* The step by which a request ends shows the observer nothing new.        *)
LEMMA EndShowsNothing ==
  ASSUME Known, Observed, NEW r \in Request, StepOf(r), pc'[r] = "done",
         raced' = raced \cup Overlapping', Effect(r)
  PROVE  RacedSheets' = RacedSheets
<1>0. TypeOK /\ SessionInv BY KnownParts
<1>1. ~Editing(r)' BY DEF Editing
<1>2. ASSUME NEW q \in Request \ {r}, Editing(q)'
      PROVE  /\ Editing(q) /\ Edit(q)' = Edit(q) /\ ses'[q] = ses[q]
  <2>1. pc'[q] = pc[q] /\ body'[q] = body[q] /\ ses'[q] = ses[q] BY <1>0, Frame
  <2>2. ses[q].id \in DOMAIN inst' <=> ses[q].id \in DOMAIN inst
    <3>1. ses[q].id \notin DOMAIN inst => ses[q].id = q BY <1>0 DEF SessionInv, SessionOf
    <3>2. QED BY <3>1, EffectOn, EffectNew
  <2>3. QED BY <1>2, <2>1, <2>2 DEF Editing, Edit
<1>3. ASSUME NEW o \in Overlapping' PROVE o \in raced
  <2>1. PICK p \in Request, q \in Request :
          /\ Overlap(p, q)'
          /\ o = [id |-> ses'[p].id, edits |-> {Edit(p)', Edit(q)'}]
    BY <1>3 DEF Overlapping
  <2>2. p # r /\ q # r BY <1>1, <2>1 DEF Overlap
  <2>3. Overlap(p, q) BY <1>2, <2>1, <2>2 DEF Overlap
  <2>4. o = [id |-> ses[p].id, edits |-> {Edit(p), Edit(q)}]
    BY <1>2, <2>1, <2>2 DEF Overlap
  <2>5. QED BY <2>3, <2>4, OverlapSeen DEF Observed
<1>4. raced' = raced BY <1>3
<1>5. QED BY <1>4 DEF RacedSheets

LEMMA SubmitsSheet ==
  ASSUME Known, Observed, NEW r \in Request, SubmissionOf(r), NEW row \in Row,
         Submits(r, row), RacedSheets' = RacedSheets
  PROVE  Sheets!Next
<1>0. PICK i \in Request : i = ses[r].id BY DEF Submits
<1>01. PICK F : F = body[r].inputs OBVIOUS
<1>02. PICK M : M = RowsOf(metric', i) OBVIOUS
<1>1. /\ PutRow(i, row) /\ row.key = body[r].key
      /\ body[r] \in CreateBody /\ ~body[r].salaried
      /\ IF i \in DOMAIN inst THEN row.key = inst[i].key /\ row.status = inst[i].status
                               ELSE row.status = "submitted"
  BY <1>0 DEF Submits
<1>2. /\ F \in SUBSET MetricInput /\ IsFiniteSet(F) /\ body[r].salary = 0
      /\ body[r].key \in KpiKey /\ body[r].period \in Period
  BY <1>1, <1>01 DEF CreateBody
<1>3. Sheets!Put(i, SheetWith(row, M))
  <2>1. DOMAIN inst \subseteq Request BY KnownParts DEF TypeOK
  <2>2. \A j \in DOMAIN inst \ {i} : RowsOf(metric', j) = MetricsOf(j)
    BY <1>0, <2>1 DEF Submits
  <2>3. QED BY <1>02, <1>1, <2>2, PutSheet
<1>4. ASSUME ~Raced(i, {"create"})
      PROVE  SheetWith(row, M) =
               [Sheets!Filled(row.key, body[r].period, 0, F) EXCEPT !.status = row.status]
  <2>1. /\ M = Submitted(r) /\ row.period = body[r].period /\ row.salary = 0
        /\ row.total = Calculate(0, M)
    BY <1>0, <1>02, <1>2, <1>4 DEF Submits, Filed
  <2>2. M = {[inst |-> i, by |-> r, input |-> f] : f \in F}
    BY <1>0, <1>01, <2>1 DEF Submitted
  <2>3. 0 \in Salary BY ConstantsAssumption
  <2>4. Calculate(0, M) = Sheets!Worth(0, F) BY <1>2, <2>2, <2>3, AmountOfRows
  <2>5. {m.input : m \in M} = F
    <3>1. \A f \in F : \E m \in M : f = m.input
      <4>1. SUFFICES ASSUME NEW f \in F PROVE \E m \in M : f = m.input
        OBVIOUS
      <4>2. [inst |-> i, by |-> r, input |-> f] \in M BY <2>2
      <4>3. f = [inst |-> i, by |-> r, input |-> f].input OBVIOUS
      <4>4. QED BY <4>2, <4>3
    <3>2. \A m \in M : m.input \in F BY <2>2
    <3>3. QED BY <3>1, <3>2
  <2>6. SheetWith(row, M) =
          [key |-> row.key, period |-> body[r].period, salary |-> 0, inputs |-> F,
           total |-> Sheets!Worth(0, F), status |-> row.status]
    BY <2>1, <2>4, <2>5 DEF SheetWith
  <2>7. PICK w : w = Sheets!Worth(0, F) OBVIOUS
  <2>8. QED BY <2>6, <2>7 DEF Sheets!Filled
<1>5. CASE i \notin DOMAIN inst
  <2>1. {"create"} # {"insert"}
    <3>1. "create" \in {"create"} /\ "create" \notin {"insert"} OBVIOUS
    <3>2. QED BY <3>1
  <2>2. ~Raced(i, {"create"})
    <3>1. SUFFICES ASSUME Raced(i, {"create"}) PROVE FALSE
      OBVIOUS
    <3>2. [id |-> i, edits |-> {"create"}].id \in DOMAIN inst
      BY <2>1, <3>1 DEF Observed, Raced
    <3>3. QED BY <1>5, <3>2
  <2>3. SheetWith(row, M) = Sheets!Filled(body[r].key, body[r].period, 0, F)
    BY <1>1, <1>4, <1>5, <2>2 DEF Sheets!Filled
  <2>4. Sheets!Enter(i, body[r].key, body[r].period, F)
    BY <1>3, <1>5, <2>3 DEF Sheets!Enter, SheetMap
  <2>5. i \in Request \ DOMAIN SheetMap BY <1>5 DEF SheetMap
  <2>6. QED BY <1>2, <2>4, <2>5 DEF Sheets!Next, SheetMap
<1>6. CASE i \in DOMAIN inst
  <2>0. i \in DOMAIN SheetMap BY <1>6 DEF SheetMap
  <2>1. SheetMap[i].key = inst[i].key /\ SheetMap[i].status = inst[i].status
    BY <1>6 DEF SheetMap, SheetOf
  <2>2. CASE i \notin RacedSheets
    <3>1. ~Raced(i, {"create"}) /\ ~Raced(i, {"create", "finalize"})
      BY <2>2 DEF RacedSheets, Raced
    <3>2. inst[i].status = "submitted"
      BY <1>0, <1>1, <1>6, <3>1 DEF SubmissionOf, Submits, CreateBody
    <3>3. SheetWith(row, M) = Sheets!Filled(SheetMap[i].key, body[r].period, 0, F)
      BY <1>1, <1>4, <1>6, <2>1, <3>1, <3>2 DEF Sheets!Filled
    <3>4. Sheets!Replace(i, body[r].period, F)
      BY <1>3, <2>1, <2>2, <3>2, <3>3 DEF Sheets!Replace, SheetMap
    <3>5. QED BY <1>2, <2>0, <3>4 DEF Sheets!Next, SheetMap
  <2>3. CASE i \in RacedSheets
    <3> DEFINE G == {m.input : m \in M}
    <3>1. G \in SUBSET MetricInput
      BY <1>02, KnownParts DEF TypeOK, RowsOf, MetricRow
    <3>2. row.period \in Period /\ row.salary \in Salary /\ row.total \in Total
      BY DEF Row
    <3>3. SheetWith(row, M) =
            [key |-> SheetMap[i].key, period |-> row.period, salary |-> row.salary,
             inputs |-> G, total |-> row.total, status |-> SheetMap[i].status]
      BY <1>1, <1>6, <2>1 DEF SheetWith
    <3>4. Sheets!Overwrite(i, row.period, row.salary, G, row.total)
      BY <1>3, <2>3, <3>3 DEF Sheets!Overwrite, SheetMap
    <3>5. QED BY <2>0, <3>1, <3>2, <3>4 DEF Sheets!Next, SheetMap
  <2>4. QED BY <2>2, <2>3
<1>7. QED BY <1>5, <1>6

LEMMA ApprovesSheet ==
  ASSUME Known, NEW r \in Request, Approves(r), RacedSheets' = RacedSheets
  PROVE  [Sheets!Next]_<<SheetMap, RacedSheets>>
<1>0. PICK i : i = ses[r].id OBVIOUS
<1>01. PICK row : row = [inst[i] EXCEPT !.status = "approved"] OBVIOUS
<1>02. PICK M : M = MetricsOf(i) OBVIOUS
<1>1. i \in DOMAIN inst /\ PutRow(i, row) /\ metric' = metric
  BY <1>0, <1>01 DEF Approves
<1>2. inst[i] \in Row /\ i \in Request /\ inst \in [DOMAIN inst -> Row]
  BY <1>1, KnownParts DEF TypeOK
<1>3. inst[i].status \in {"submitted", "approved"} BY <1>1, KnownParts DEF FreshIds
<1>4. CASE inst[i].status = "approved"
  <2>1. row = inst[i] BY <1>01, <1>2, <1>4 DEF Row
  <2>2. inst' = inst BY <1>1, <1>2, <2>1 DEF PutRow
  <2>3. QED BY <1>1, <2>2, SameSheets
<1>5. CASE inst[i].status = "submitted"
  <2>1. SheetMap[i] = SheetWith(inst[i], M)
    BY <1>02, <1>1 DEF SheetMap, SheetOf, SheetWith
  <2>2. SheetWith(row, M) = [SheetMap[i] EXCEPT !.status = "approved"]
    <3>1. /\ row.key = inst[i].key /\ row.period = inst[i].period
          /\ row.status = "approved"
          /\ row.salary = inst[i].salary /\ row.total = inst[i].total
      BY <1>01, <1>2 DEF Row
    <3>2. PICK G : G = {m.input : m \in M} OBVIOUS
    <3> DEFINE Contents(status) ==
                 [key |-> inst[i].key, period |-> inst[i].period,
                  salary |-> inst[i].salary, inputs |-> G,
                  total |-> inst[i].total, status |-> status]
    <3>3. SheetWith(row, M) = Contents("approved") BY <3>1, <3>2 DEF SheetWith
    <3>4. SheetMap[i] = Contents(inst[i].status) BY <2>1, <3>2 DEF SheetWith
    <3>5. [Contents(inst[i].status) EXCEPT !.status = "approved"] = Contents("approved")
      OBVIOUS
    <3>6. QED BY <3>3, <3>4, <3>5
  <2>3. RowsOf(metric', i) = M /\ \A j : RowsOf(metric', j) = MetricsOf(j)
    BY <1>02, <1>1 DEF RowsOf, MetricsOf
  <2>4. Sheets!Put(i, SheetWith(row, M)) BY <1>1, <1>2, <2>3, PutSheet
  <2>5. SheetMap[i].status = "submitted" BY <1>5, <2>1 DEF SheetWith
  <2>6. Sheets!Approve(i) BY <2>2, <2>4, <2>5 DEF Sheets!Approve, SheetMap
  <2>7. i \in DOMAIN SheetMap BY <1>1 DEF SheetMap
  <2>8. QED BY <2>6, <2>7 DEF Sheets!Next, SheetMap
<1>6. QED BY <1>3, <1>4, <1>5

LEMMA InsertsSheet ==
  ASSUME Known, NEW r \in Request, Inserts(r), RacedSheets' = RacedSheets
  PROVE  Sheets!Next
<1> DEFINE row == [key |-> body[r].key, period |-> body[r].period,
                   salary |-> body[r].salary,
                   total |-> Calculate(body[r].salary, {}), status |-> "submitted"]
<1>1. /\ r \notin DOMAIN inst /\ PutRow(r, row)
      /\ body[r].key \in KpiKey /\ body[r].period \in Period /\ body[r].salary \in Salary
      /\ \A j : RowsOf(metric', j) = MetricsOf(j)
      /\ RowsOf(metric', r) = {}
  BY DEF Inserts, BotBody, MetricsOf, RowsOf
<1>2. Calculate(body[r].salary, {}) = Sheets!Worth(body[r].salary, {})
  <2> DEFINE F == {}
             M == {[inst |-> r, by |-> r, input |-> f] : f \in F}
  <2>1. F \in SUBSET MetricInput /\ IsFiniteSet(F) BY FS_EmptySet
  <2>2. M = {} OBVIOUS
  <2>3. Calculate(body[r].salary, M) = Sheets!Worth(body[r].salary, F)
    <3> HIDE DEF F
    <3>1. QED BY <1>1, <2>1, AmountOfRows
  <2>4. QED BY <2>2, <2>3
<1>3. SheetWith(row, {}) = Sheets!Filled(body[r].key, body[r].period, body[r].salary, {})
  BY <1>2 DEF SheetWith, Sheets!Filled
<1>4. Sheets!Put(r, SheetWith(row, {}))
  <2> DEFINE M == {}
  <2>1. RowsOf(metric', r) = M BY <1>1
  <2> HIDE DEF row, M
  <2>2. Sheets!Put(r, SheetWith(row, M)) BY <1>1, <2>1, PutSheet
  <2>3. QED BY <2>2 DEF M
<1>5. r \notin DOMAIN SheetMap BY <1>1 DEF SheetMap
<1>6. Sheets!EnterByBot(r, body[r].key, body[r].period, body[r].salary)
  BY <1>3, <1>4, <1>5 DEF Sheets!EnterByBot, SheetMap
<1>7. QED BY <1>1, <1>5, <1>6 DEF Sheets!Next, SheetMap

LEMMA SheetsStep ==
  ASSUME Known, RaceInv, [RNext]_rvars
  PROVE  [Sheets!Next]_<<SheetMap, RacedSheets>>
<1>1. CASE UNCHANGED rvars BY <1>1, SameSheets DEF rvars, RacedSheets
<1>2. CASE RNext
  <2>1. PICK r \in Request : StepOf(r) BY <1>2 DEF RNext, Next, StepOf
  <2>2. raced' = raced \cup Overlapping' BY <1>2 DEF RNext
  <2>3. Effect(r) /\ \A q \in Request : NextRaces(q) BY <2>1, <2>2, StepRaces
  <2>4. CASE UNCHANGED <<inst, metric>> BY <2>2, <2>3, <2>4, RacesThaw
  <2>5. CASE ~UNCHANGED <<inst, metric>>
    <3>1. pc'[r] = "done" BY <2>3, <2>5 DEF Effect
    <3>2. Observed /\ SubmissionOf(r) BY DEF RaceInv
    <3>3. RacedSheets' = RacedSheets BY <2>1, <2>2, <2>3, <3>1, <3>2, EndShowsNothing
    <3>4. QED
      BY <2>3, <2>5, <3>2, <3>3, SubmitsSheet, ApprovesSheet, InsertsSheet DEF Effect
  <2>6. QED BY <2>4, <2>5
<1>3. QED BY <1>1, <1>2
-----------------------------------------------------------------------------
(* The theorems.  The observer changes nothing of the service: what is     *)
(* proved of Spec holds of RSpec.                                          *)

LEMMA ObserverSteersNothing == RSpec => Spec
<1>1. RInit => Init BY DEF RInit
<1>2. [RNext]_rvars => [Next]_vars BY DEF RNext, rvars, vars
<1>3. QED BY <1>1, <1>2, PTL DEF RSpec, Spec

(* Whatever the schedule, RaceInv is inductive.                            *)
THEOREM Races == RSpec => []RaceInv
<1>1. IntegrityInv /\ IntegrityInv' /\ RaceInv /\ [RNext]_rvars => RaceInv'
  BY RaceStep DEF Known
<1>2. QED BY <1>1, RaceInit, ObserverSteersNothing, Integrity, PTL DEF RSpec

(* The amount of every instance is the one that follows from its own       *)
(* columns and metrics (kpi.py:130), whatever overlaps but two submissions *)
(* of it.                                                                  *)
THEOREM TotalsCurrent == RSpec => []TotalCurrent
<1>1. RaceInv => TotalCurrent BY DEF RaceInv
<1>2. QED BY <1>1, Races, PTL

(* A resubmission replaces all metrics of its instance and no two          *)
(* submissions mix (kpi.py:114-126), whatever overlaps but they.           *)
THEOREM MetricsReplaced == RSpec => []MetricsFromOneSubmission
<1>1. RaceInv => MetricsFromOneSubmission BY DEF RaceInv
<1>2. QED BY <1>1, Races, PTL

(* Two instances of a key come of an insert by the wizard or of two first  *)
(* submissions that overlap (kpi.py:79-84), and of nothing else.           *)
THEOREM DuplicatesAccountedFor == RSpec => []DuplicatesExplained
<1>1. RaceInv => DuplicatesExplained BY DEF RaceInv
<1>2. QED BY <1>1, Races, PTL

(* Nothing of an approved instance changes (kpi.py:86-87) unless a         *)
(* submission was under way when it was approved, and none gets hold of it *)
(* afterwards.                                                             *)
THEOREM ApprovedStaysUnchanged == RSpec => ApprovedUnchanged
<1> DEFINE Pair == {"create", "finalize"}
           Unchanged ==
             \A i \in Request : IsApproved(i) /\ ~Raced(i, Pair) =>
               /\ i \in DOMAIN inst' /\ inst'[i] = inst[i] /\ MetricsOf(i)' = MetricsOf(i)
               /\ ~Raced(i, Pair)'
<1>1. ASSUME Known, RaceInv, [RNext]_rvars
      PROVE  Unchanged
  <2>1. SUFFICES ASSUME NEW i \in Request, IsApproved(i), ~Raced(i, Pair)
                 PROVE  /\ i \in DOMAIN inst' /\ inst'[i] = inst[i]
                        /\ RowsOf(metric', i) = MetricsOf(i)
                        /\ ~Raced(i, Pair)'
    BY DEF MetricsOf, RowsOf
  <2>2. i \in DOMAIN inst /\ inst[i].status = "approved" BY <2>1 DEF IsApproved
  <2>3. CASE UNCHANGED rvars BY <2>1, <2>2, <2>3 DEF rvars, MetricsOf, RowsOf, Raced
  <2>4. CASE RNext
    <3>1. PICK r \in Request : StepOf(r) BY <2>4 DEF RNext, Next, StepOf
    <3>2. raced' = raced \cup Overlapping' BY <2>4 DEF RNext
    <3>3. Effect(r) /\ \A q \in Request : NextRaces(q) BY <1>1, <3>1, <3>2, StepRaces
    <3>4. i \in DOMAIN inst' /\ (Kept(i) \/ Resubmits(r, i) \/ Confirms(r, i))
      BY <1>1, <2>2, <3>3, EffectOn
    <3>5. ~Resubmits(r, i)
      BY <1>1, <2>1, <2>2 DEF Resubmits, RaceInv, SubmissionOf
    <3>6. inst'[i] = inst[i] /\ RowsOf(metric', i) = MetricsOf(i)
      <4>1. inst[i] \in Row BY <1>1, <2>2, KnownParts DEF TypeOK
      <4>2. [inst[i] EXCEPT !.status = "approved"] = inst[i] BY <2>2, <4>1 DEF Row
      <4>3. QED BY <3>4, <3>5, <4>2 DEF Kept, Confirms
    <3>7. ~Raced(i, Pair)'
      <4>1. SUFFICES ASSUME [id |-> i, edits |-> Pair] \in Overlapping' PROVE FALSE
        BY <2>1, <3>2 DEF Raced
      <4>2. PICK p \in Request, q \in Request :
              /\ Overlap(p, q)'
              /\ [id |-> i, edits |-> Pair]
                   = [id |-> ses'[p].id, edits |-> {Edit(p)', Edit(q)'}]
        BY <4>1 DEF Overlapping
      <4>3. ses'[p].id = i /\ {Edit(p)', Edit(q)'} = Pair
        <5>1. /\ [id |-> i, edits |-> Pair].id = i
              /\ [id |-> i, edits |-> Pair].edits = Pair
          OBVIOUS
        <5>2. QED BY <4>2, <5>1
      <4>4. PICK s \in Request : Editing(s)' /\ Edit(s)' = "create" /\ ses'[s].id = i
        BY <4>2, <4>3 DEF Overlap
      <4>5. ses'[s].id \in DOMAIN inst' /\ body'[s].op = "create" BY <4>4 DEF Edit
      <4>6. inst'[i].status = "submitted"
        BY <2>1, <3>3, <4>4, <4>5 DEF NextRaces, NextSubmission
      <4>7. QED BY <2>2, <3>6, <4>6
    <3>8. QED BY <3>4, <3>6, <3>7
  <2>5. QED BY <1>1, <2>3, <2>4
<1>2. IntegrityInv /\ IntegrityInv' /\ RaceInv /\ [RNext]_rvars => [Unchanged]_rvars
  BY <1>1 DEF Known
<1>3. QED
  BY <1>2, Races, ObserverSteersNothing, Integrity, PTL DEF RSpec, ApprovedUnchanged

(* kpi_history gives as the status before a change the one the change      *)
(* replaces (kpi.py:185-188), whatever overlaps but two finalizations.     *)
THEOREM HistoryTrue == RSpec => BeforeStateTrue
<1> DEFINE Told == \A e \in history' \ history :
                     e.before # "none" /\ ~Raced(e.id, {"finalize"}) =>
                       e.before = inst[e.id].status
<1>1. ASSUME Known, RaceInv, [RNext]_rvars
      PROVE  Told
  <2>0. TypeOK /\ ControlInv /\ StatusWrites BY <1>1, KnownParts
  <2>1. ASSUME NEW r \in Request, Commit(r) PROVE Told
    <3>1. pc[r] = "commit" /\ history' = history \cup ses[r].history
      BY <2>1 DEF Commit
    <3>2. FinalizationOf(r) /\ ChangesOf(r) BY <1>1 DEF RaceInv
    <3>3. CASE body[r].op = "finalize"
      <4>1. \A e \in ses[r].history : e.id = ses[r].id
        BY <2>0, <3>1, <3>3 DEF StatusWrites, FinalizeWrites
      <4>2. Editing(r) BY <3>1, <3>3 DEF Editing
      <4>3. /\ ~Raced(ses[r].id, {"finalize"}) => inst[ses[r].id].status = "submitted"
            /\ \A e \in ses[r].history : e.before = "submitted"
        BY <3>2, <3>3, <4>2 DEF FinalizationOf
      <4>4. QED BY <3>1, <4>1, <4>3
    <3>4. CASE body[r].op # "finalize"
      <4>1. \A e \in ses[r].history : e.before = "none"
        BY <3>2, <3>4 DEF ChangesOf
      <4>2. QED BY <3>1, <4>1
    <3>5. QED BY <3>3, <3>4
  <2>2. ASSUME NEW r \in Request, BotCreate(r) PROVE Told
    BY <2>2 DEF BotCreate
  <2>3. CASE history' = history BY <2>3
  <2>4. CASE UNCHANGED rvars BY <2>3, <2>4 DEF rvars
  <2>5. CASE RNext
    <3>1. PICK r \in Request : StepOf(r) BY <2>5 DEF RNext, Next, StepOf
    <3>2. QED BY <2>0, <2>1, <2>2, <2>3, <3>1, Frame
  <2>6. QED BY <1>1, <2>4, <2>5
<1>2. IntegrityInv /\ IntegrityInv' /\ RaceInv /\ [RNext]_rvars => [Told]_rvars
  BY <1>1 DEF Known
<1>3. QED
  BY <1>2, Races, ObserverSteersNothing, Integrity, PTL DEF RSpec, BeforeStateTrue

(* However requests overlap, the instances are sheets that are filled in   *)
(* or replaced as a whole until an approval freezes them, those excepted   *)
(* on which a submission overlapped with another edit.                     *)
THEOREM SheetsRefinement == RSpec => ImplementsSheets
<1>1. RInit => Sheets!Init
  BY DEF RInit, Init, Sheets!Init, RacedSheets
<1>2. IntegrityInv /\ IntegrityInv' /\ RaceInv /\ [RNext]_rvars
        => [Sheets!Next]_(Sheets!contents)
  BY SheetsStep DEF Known, SheetMap, Sheets!contents
<1>3. QED
  BY <1>1, <1>2, Races, ObserverSteersNothing, Integrity, PTL
  DEF RSpec, ImplementsSheets, Sheets!Spec
=============================================================================
