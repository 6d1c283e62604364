---------------------------- MODULE ReportsProofs ----------------------------
(***************************************************************************)
(* Proofs about Reports, for every value of its constants: any number of   *)
(* links, readers and sheets.                                              *)
(***************************************************************************)
EXTENDS Reports, TLAPS

(* A body is of the kind its op names.                                     *)
LEMMA BodyOfOp ==
  ASSUME NEW b \in Body
  PROVE  /\ b.op = "share" => b \in ShareBody
         /\ b.op \in {"view", "download"} => b \in OpenBody(Request \cup {None})
<1>1. CASE b = [op |-> "none"] BY <1>1
<1>2. CASE b \in ShareBody BY <1>2 DEF ShareBody
<1>3. CASE b \in OpenBody(Request \cup {None}) BY <1>3 DEF OpenBody
<1>4. CASE b \in ExportBody BY <1>4 DEF ExportBody
<1>5. CASE b \in ListBody BY <1>5 DEF ListBody
<1>6. QED BY <1>1, <1>2, <1>3, <1>4, <1>5 DEF Body

LEMMA LinkFields ==
  ASSUME NEW l \in Link
  PROVE  l.scope \in ShareScope /\ l.permission \in SharePermission
BY DEF Link

-----------------------------------------------------------------------------
(* What submissions and approvals do to the sheets.                        *)

LEMMA FilledType ==
  ASSUME NEW k \in KpiKey, NEW p \in Period, NEW s \in Salary, NEW F \in SUBSET MetricInput
  PROVE  /\ Sheets!Filled(k, p, s, F) \in SheetType
         /\ Sheets!Filled(k, p, s, F).total
              = Sheets!Worth(Sheets!Filled(k, p, s, F).salary, Sheets!Filled(k, p, s, F).inputs)
<1>1. Sheets!Worth(s, F) \in Total BY DEF Total
<1>2. QED BY <1>1 DEF Sheets!Filled, SheetType

(* A sheet is never removed and no approval undone, and a frozen sheet     *)
(* never changed; what replaces a sheet that is not raced has the total it *)
(* should have.                                                            *)
Kept ==
  /\ DOMAIN sheet \subseteq DOMAIN sheet' /\ DOMAIN sheet' \subseteq Sheet
  /\ sheet' \in [DOMAIN sheet' -> SheetType] /\ raced \subseteq raced' /\ raced' \subseteq Sheet
  /\ TotalsCurrent'
  /\ \A i \in Sheet : IsApproved(i) =>
       /\ i \in DOMAIN sheet' /\ sheet'[i].status = "approved"
       /\ i \notin raced => i \notin raced' /\ sheet'[i] = sheet[i]

LEMMA PutStep ==
  ASSUME TypeOK, TotalsCurrent, NEW i \in Sheet, NEW c \in SheetType, raced' = raced,
         i \notin raced => c.total = Sheets!Worth(c.salary, c.inputs),
         IsApproved(i) => i \in raced /\ c.status = "approved", Sheets!Put(i, c)
  PROVE  Kept
<1>1. /\ sheet' = [j \in DOMAIN sheet \cup {i} |-> IF j = i THEN c ELSE sheet[j]]
      /\ DOMAIN sheet' = DOMAIN sheet \cup {i}
  BY DEF Sheets!Put
<1>2. sheet' \in [DOMAIN sheet' -> SheetType] /\ DOMAIN sheet' \subseteq Sheet
  BY <1>1 DEF TypeOK
<1>3. ASSUME NEW j \in DOMAIN sheet' \ raced
      PROVE  sheet'[j].total = Sheets!Worth(sheet'[j].salary, sheet'[j].inputs)
  <2>1. CASE j = i BY <1>1, <1>3, <2>1
  <2>2. CASE j # i
    <3>1. j \in DOMAIN sheet \ raced /\ sheet'[j] = sheet[j] BY <1>1, <1>3, <2>2
    <3>2. QED BY <3>1 DEF TotalsCurrent
  <2>3. QED BY <2>1, <2>2
<1>4. TotalsCurrent' BY <1>3 DEF TotalsCurrent
<1>5. ASSUME NEW j \in Sheet, IsApproved(j)
      PROVE  /\ j \in DOMAIN sheet' /\ sheet'[j].status = "approved"
             /\ j \notin raced => sheet'[j] = sheet[j]
  BY <1>1, <1>5 DEF IsApproved
<1>6. QED BY <1>1, <1>2, <1>4, <1>5 DEF Kept, TypeOK

LEMMA SheetStep ==
  ASSUME TypeOK, TotalsCurrent, Sheets!Next
  PROVE  Kept
<1>0. 0 \in Salary BY ReportsAssumption
<1>1. ASSUME NEW i \in Sheet \ DOMAIN sheet, NEW k \in KpiKey, NEW p \in Period,
             NEW s \in Salary, NEW F \in SUBSET MetricInput,
             Sheets!Put(i, Sheets!Filled(k, p, s, F)), raced' = raced
      PROVE  Kept
  BY <1>1, FilledType, PutStep DEF IsApproved
<1>2. ASSUME NEW i \in DOMAIN sheet, Sheets!Approve(i)
      PROVE  Kept
  <2> DEFINE c == [sheet[i] EXCEPT !.status = "approved"]
  <2>1. i \in Sheet /\ sheet[i] \in SheetType BY DEF TypeOK
  <2>2. c \in SheetType /\ c.total = sheet[i].total /\ c.salary = sheet[i].salary
        /\ c.inputs = sheet[i].inputs
    BY <2>1 DEF SheetType
  <2>3. i \notin raced => c.total = Sheets!Worth(c.salary, c.inputs) BY <2>2 DEF TotalsCurrent
  <2>4. ~IsApproved(i) /\ Sheets!Put(i, c) /\ raced' = raced
    BY <1>2 DEF Sheets!Approve, IsApproved
  <2> HIDE DEF c
  <2>5. QED BY <2>1, <2>2, <2>3, <2>4, PutStep
<1>3. ASSUME NEW i \in DOMAIN sheet, NEW p \in Period, NEW F \in SUBSET MetricInput,
             Sheets!Replace(i, p, F)
      PROVE  Kept
  <2>1. i \in Sheet /\ sheet[i].key \in KpiKey BY DEF TypeOK, SheetType
  <2>2. ~IsApproved(i) /\ Sheets!Put(i, Sheets!Filled(sheet[i].key, p, 0, F)) /\ raced' = raced
    BY <1>3 DEF Sheets!Replace, IsApproved
  <2>3. QED BY <1>0, <2>1, <2>2, FilledType, PutStep
<1>4. ASSUME NEW i \in DOMAIN sheet, NEW p \in Period, NEW F \in SUBSET MetricInput,
             NEW s \in Salary, NEW t \in Amount, Sheets!Overwrite(i, p, s, F, t)
      PROVE  Kept
  <2> DEFINE c == [key |-> sheet[i].key, period |-> p, salary |-> s,
                   inputs |-> F, total |-> t, status |-> sheet[i].status]
  <2>1. i \in Sheet /\ sheet[i] \in SheetType BY DEF TypeOK
  <2>2. c \in SheetType /\ c.status = sheet[i].status BY <2>1 DEF SheetType, Total
  <2>3. i \in raced /\ Sheets!Put(i, c) /\ raced' = raced BY <1>4 DEF Sheets!Overwrite
  <2> HIDE DEF c
  <2>4. QED BY <2>1, <2>2, <2>3, PutStep DEF IsApproved
<1>5. ASSUME NEW I \in SUBSET Sheet, Sheets!Overlap(I)
      PROVE  Kept
  <2>1. sheet' = sheet /\ raced' = raced \cup I /\ \A i \in I : ~Sheets!Frozen(i)
    BY <1>5 DEF Sheets!Overlap
  <2>2. TotalsCurrent' BY <2>1 DEF TotalsCurrent
  <2>3. QED BY <2>1, <2>2 DEF Kept, TypeOK, IsApproved, Sheets!Frozen
<1>6. QED BY <1>0, <1>1, <1>2, <1>3, <1>4, <1>5
      DEF Sheets!Next, Sheets!Enter, Sheets!EnterByBot

-----------------------------------------------------------------------------
(* The steps of one request, and what they leave alone.                    *)
StepOf(r) == Receive(r) \/ Handle(r) \/ Abort(r)

LEMMA Frame ==
  ASSUME TypeOK, NEW r \in Request, StepOf(r)
  PROVE  /\ sheet' = sheet /\ raced' = raced
         /\ \A q \in Request \ {r} : /\ pc'[q] = pc[q] /\ body'[q] = body[q]
                                     /\ rows'[q] = rows[q] /\ inputs'[q] = inputs[q]
                                     /\ known'[q] = known[q]
         /\ CreateLink(r) \/ link' = link
         /\ CreateLink(r) \/ Commit(r) \/ audit' = audit
<1> USE DEF TypeOK, Goto
<1>1. CASE Receive(r) BY <1>1 DEF Receive
<1>2. CASE \E a \in Answer : Refuse(r, a) BY <1>2 DEF Refuse
<1>3. CASE CreateLink(r) BY <1>3 DEF CreateLink
<1>4. CASE Refresh(r) \/ FindLink(r) BY <1>4 DEF Refresh, FindLink
<1>5. CASE LoadRows(r) BY <1>5 DEF LoadRows
<1>6. CASE LoadMetrics(r) BY <1>6 DEF LoadMetrics
<1>7. CASE Commit(r) BY <1>7 DEF Commit
<1>8. CASE RejectLink(r) \/ RejectOpening(r) \/ RejectBatch(r) \/ Abort(r)
  BY <1>2, <1>8 DEF RejectLink, RejectOpening, RejectBatch, Abort, Answer
<1>9. QED BY <1>1, <1>3, <1>4, <1>5, <1>6, <1>7, <1>8 DEF StepOf, Handle

(* A link once made is there for ever, and so is an audit entry.           *)
LEMMA Growth ==
  ASSUME TypeOK, NEW r \in Request, ControlOf(r), LinkOf(r), StepOf(r)
  PROVE  /\ DOMAIN link \subseteq DOMAIN link' /\ DOMAIN link' \subseteq DOMAIN link \cup {r}
         /\ \A l \in DOMAIN link : link'[l] = link[l]
         /\ audit \subseteq audit'
<1>1. CASE CreateLink(r)
  <2>1. r \notin DOMAIN link BY <1>1 DEF CreateLink, LinkOf
  <2>2. QED BY <1>1, <2>1 DEF CreateLink
<1>2. CASE Commit(r) BY <1>2 DEF Commit
<1>3. CASE link' = link /\ audit' = audit BY <1>3
<1>4. QED BY <1>1, <1>2, <1>3, Frame DEF Commit

-----------------------------------------------------------------------------
(* The types.                                                              *)

LEMMA NoRowsType ==
  ASSUME NEW T
  PROVE  NoRows \in Loaded(T)
<1>1. NoRows \in [{} -> T] BY DEF NoRows
<1>2. {} \in SUBSET DOMAIN sheet OBVIOUS
<1>3. QED BY <1>1, <1>2 DEF Loaded

LEMMA InitType == Init => TypeOK
<1>1. SUFFICES ASSUME Init PROVE TypeOK
  OBVIOUS
<1>2. DOMAIN sheet = {} /\ sheet \in [DOMAIN sheet -> SheetType] /\ raced = {}
  BY <1>1 DEF Init, Sheets!Init
<1>3. DOMAIN link = {} /\ link \in [DOMAIN link -> Link] BY <1>1 DEF Init
<1>4. rows \in [Request -> Loaded(RowType)] /\ inputs \in [Request -> Loaded(SUBSET MetricInput)]
  BY <1>1, NoRowsType DEF Init
<1>5. QED BY <1>1, <1>2, <1>3, <1>4 DEF Init, TypeOK, Body

LEMMA RefuseType ==
  ASSUME TypeOK, NEW r \in Request, NEW a \in Answer, Refuse(r, a)
  PROVE  TypeOK'
<1>1. rows' \in [Request -> Loaded(RowType)] /\ inputs' \in [Request -> Loaded(SUBSET MetricInput)]
  BY NoRowsType DEF Refuse, TypeOK
<1>2. Loaded(RowType)' = Loaded(RowType) /\ Loaded(SUBSET MetricInput)' = Loaded(SUBSET MetricInput)
  BY DEF Refuse, Loaded, RowType, Total
<1>3. QED BY <1>1, <1>2 DEF TypeOK, Refuse, Goto

LEMMA ColumnsType ==
  ASSUME TypeOK, NEW i \in DOMAIN sheet
  PROVE  Columns(i) \in RowType
BY DEF TypeOK, Columns, SheetType, RowType

LEMMA StepType ==
  ASSUME TypeOK, NEW r \in Request, ControlOf(r), StepOf(r)
  PROVE  TypeOK'
<1>1. Loaded(RowType)' = Loaded(RowType) /\ Loaded(SUBSET MetricInput)' = Loaded(SUBSET MetricInput)
  BY Frame DEF Loaded
<1>2. body[r] \in Body BY DEF TypeOK
<1>3. CASE Receive(r)
  <2>1. /\ UNCHANGED <<sheet, raced, link, audit, rows, inputs>>
        /\ known' = [known EXCEPT ![r] = ShownApproved]
        /\ \E b \in Body, step \in Awaiting : body' = [body EXCEPT ![r] = b] /\ Goto(r, step)
    <3>1. CASE \E b \in ShareBody : body' = [body EXCEPT ![r] = b] /\ Goto(r, "insert")
      BY <1>3, <3>1 DEF Receive, Body, Awaiting
    <3>2. CASE \E b \in OpenBody(Acknowledged \cup {None}) :
                 body' = [body EXCEPT ![r] = b] /\ Goto(r, "link")
      <4>1. Acknowledged \subseteq Request BY DEF Acknowledged, TypeOK
      <4>2. OpenBody(Acknowledged \cup {None}) \subseteq Body
        BY <4>1 DEF Body, OpenBody
      <4>3. QED BY <1>3, <3>2, <4>2 DEF Receive, Awaiting
    <3>3. CASE \E b \in ExportBody \cup ListBody :
                 body' = [body EXCEPT ![r] = b] /\ Goto(r, "rows")
      BY <1>3, <3>3 DEF Receive, Body, Awaiting
    <3>4. QED BY <1>3, <3>1, <3>2, <3>3 DEF Receive
  <2>2. ShownApproved \subseteq Sheet BY DEF ShownApproved
  <2>3. QED BY <1>1, <2>1, <2>2 DEF TypeOK, Goto
<1>4. CASE RejectLink(r) \/ RejectOpening(r) \/ RejectBatch(r) \/ Abort(r)
  BY <1>4, RefuseType DEF RejectLink, RejectOpening, RejectBatch, Abort, Answer
<1>5. CASE CreateLink(r)
  <2>1. body[r].op = "share" BY <1>5 DEF CreateLink, ControlOf
  <2>2. body[r].link \in Link BY <1>2, <2>1, BodyOfOp DEF ShareBody
  <2>3. /\ link' = [l \in DOMAIN link \cup {r} |-> IF l = r THEN body[r].link ELSE link[l]]
        /\ DOMAIN link' = DOMAIN link \cup {r}
    BY <1>5 DEF CreateLink
  <2>4. DOMAIN link' \subseteq Request /\ link' \in [DOMAIN link' -> Link]
    BY <2>2, <2>3 DEF TypeOK
  <2>5. audit' \subseteq Entry BY <1>5 DEF CreateLink, TypeOK, Entry
  <2>6. QED BY <1>1, <1>5, <2>4, <2>5 DEF CreateLink, TypeOK, Goto, Awaiting
<1>6. CASE Refresh(r) \/ FindLink(r)
  BY <1>1, <1>6 DEF Refresh, FindLink, TypeOK, Goto, Awaiting, Answer
<1>7. CASE LoadRows(r)
  <2>1. Selected(r) \subseteq DOMAIN sheet BY DEF Selected
  <2>2. [i \in Selected(r) |-> Columns(i)] \in [Selected(r) -> RowType]
    BY <2>1, ColumnsType
  <2>3. [i \in Selected(r) |-> Columns(i)] \in Loaded(RowType)
    BY <2>1, <2>2 DEF Loaded
  <2>4. AfterRows(r) \in Awaiting \cup Answer
    BY DEF AfterRows, Awaiting, Answer
  <2>5. QED BY <1>1, <1>7, <2>3, <2>4 DEF LoadRows, TypeOK, Goto
<1>8. CASE LoadMetrics(r)
  <2>1. DOMAIN rows[r] \subseteq DOMAIN sheet BY DEF TypeOK, Loaded
  <2>2. \A i \in DOMAIN sheet : sheet[i].inputs \in SUBSET MetricInput
    BY DEF TypeOK, SheetType
  <2>3. [i \in DOMAIN rows[r] |-> sheet[i].inputs] \in [DOMAIN rows[r] -> SUBSET MetricInput]
    BY <2>1, <2>2
  <2>4. [i \in DOMAIN rows[r] |-> sheet[i].inputs] \in Loaded(SUBSET MetricInput)
    BY <2>1, <2>3 DEF Loaded
  <2>5. QED BY <1>1, <1>8, <2>4 DEF LoadMetrics, TypeOK, Goto, Awaiting, Answer
<1>9. CASE Commit(r)
  <2>1. body[r].op \in {"view", "download"} BY <1>9 DEF Commit, ControlOf
  <2>2. body[r].link \in Request \cup {None} BY <1>2, <2>1, BodyOfOp DEF OpenBody
  <2>3. Opening(r) \in Entry BY <2>2 DEF Opening, Entry
  <2>4. AfterCommit(r) \in Answer BY DEF AfterCommit, Answer
  <2>5. QED BY <1>1, <1>9, <2>3, <2>4 DEF Commit, TypeOK, Goto
<1>10. QED BY <1>3, <1>4, <1>5, <1>6, <1>7, <1>8, <1>9 DEF StepOf, Handle

-----------------------------------------------------------------------------
(* What the invariant says of one request.                                 *)
RecordOf(r) ==
  pc[r] = "ok" =>
    /\ body[r].op = "share" => [by |-> r, link |-> None, action |-> "create"] \in audit
    /\ body[r].op \in {"view", "download"} => Opening(r) \in audit

WordOf(r) ==
  body[r].op \in {"view", "download"} /\ body[r].link # None =>
    /\ pc[r] = "forbidden" => link[body[r].link].permission = "view"
    /\ pc[r] = "not_found" =>
         /\ body[r].op = "download"
         /\ link[body[r].link].scope = "single_kpi" => link[body[r].link].target = None

StepBackOf(r) == \A i \in known[r] \cap DOMAIN rows[r] : rows[r][i].status = "approved"

RequestInv(r) ==
  /\ ControlOf(r) /\ LinkOf(r) /\ OpeningOf(r) /\ FinalOf(r)
  /\ RecordOf(r) /\ WordOf(r) /\ StepBackOf(r)

EntriesInv ==
  \A e \in audit : (IF e.action = "create" THEN e.by ELSE e.link) \in DOMAIN link

LEMMA InvByRequest ==
  ReportsInv <=> /\ TypeOK /\ TotalsCurrent /\ EntriesInv
                 /\ \A r \in Request : RequestInv(r)
BY DEF ReportsInv, RequestInv, EntriesInv, RecordOf, WordOf, StepBackOf,
       OpenedOnRecord, LinkKeepsItsWord, NoStepBack

(* Nothing is loaded: what the invariant says of loaded rows is true.      *)
LEMMA NothingLoaded ==
  ASSUME NEW r \in Request, rows'[r] = NoRows, \A i \in known'[r] : IsApproved(i)'
  PROVE  FinalOf(r)' /\ StepBackOf(r)' /\ WithinLink(r)'
<1>1. DOMAIN rows'[r] = {} BY DEF NoRows
<1>2. FinalOf(r)' BY <1>1 DEF FinalOf
<1>3. StepBackOf(r)' BY <1>1 DEF StepBackOf
<1>4. WithinLink(r)' BY <1>1 DEF WithinLink
<1>5. QED BY <1>2, <1>3, <1>4

(* A refusal shows nothing; what it says of the link must be so.           *)
LEMMA RefusedStep ==
  ASSUME TypeOK, NEW r \in Request, RequestInv(r), pc[r] # "idle",
         NEW a \in Answer \ {"ok"}, Refuse(r, a),
         body[r].op \in {"view", "download"} /\ body[r].link # None =>
           /\ a = "forbidden" => link[body[r].link].permission = "view"
           /\ a = "not_found" =>
                /\ body[r].op = "download"
                /\ link[body[r].link].scope = "single_kpi" => link[body[r].link].target = None
  PROVE  RequestInv(r)'
<1>1. /\ UNCHANGED <<sheet, raced, link, audit, body, known>>
      /\ pc'[r] = a /\ rows'[r] = NoRows
  BY DEF Refuse, TypeOK, Goto
<1>2. \A i \in known'[r] : IsApproved(i)' BY <1>1 DEF RequestInv, FinalOf, IsApproved
<1>3. FinalOf(r)' /\ StepBackOf(r)' BY <1>1, <1>2, NothingLoaded
<1>4. ControlOf(r)' BY <1>1 DEF ControlOf, Answer
<1>5. LinkOf(r)' BY <1>1 DEF RequestInv, LinkOf, Answer
<1>6. OpeningOf(r)' BY <1>1 DEF RequestInv, OpeningOf, Answer
<1>7. RecordOf(r)' BY <1>1 DEF RecordOf
<1>8. WordOf(r)' BY <1>1 DEF WordOf
<1>9. QED BY <1>3, <1>4, <1>5, <1>6, <1>7, <1>8 DEF RequestInv

LEMMA ReceiveStep ==
  ASSUME TypeOK, NEW r \in Request, \A q \in Request : RequestInv(q), Receive(r)
  PROVE  RequestInv(r)'
<1>1. UNCHANGED <<sheet, raced, link, audit, rows, inputs>> /\ pc[r] = "idle"
      /\ known'[r] = ShownApproved
  BY DEF Receive, TypeOK
<1>2. \/ pc'[r] = "insert" /\ body'[r].op = "share"
      \/ /\ pc'[r] = "link" /\ body'[r].op \in {"view", "download"}
         /\ body'[r].link \in Acknowledged \cup {None}
      \/ pc'[r] = "rows" /\ body'[r].op \in {"export", "batch", "list"}
  BY DEF Receive, TypeOK, Goto, ShareBody, OpenBody, ExportBody, ListBody
<1>3. rows'[r] = NoRows /\ r \notin DOMAIN link
  BY <1>1 DEF RequestInv, ControlOf, LinkOf
<1>4. \A i \in known'[r] : IsApproved(i)'
  <2>1. \A i \in ShownApproved : IsApproved(i)
    BY DEF ShownApproved, RequestInv, FinalOf
  <2>2. QED BY <1>1, <2>1 DEF IsApproved
<1>5. FinalOf(r)' /\ StepBackOf(r)' BY <1>3, <1>4, NothingLoaded
<1>6. ControlOf(r)' BY <1>2, <1>3 DEF ControlOf, Files
<1>7. LinkOf(r)' BY <1>1, <1>2, <1>3 DEF LinkOf
<1>8. OpeningOf(r)' BY <1>1, <1>2 DEF OpeningOf, Acknowledged
<1>9. RecordOf(r)' BY <1>2 DEF RecordOf
<1>10. WordOf(r)' BY <1>2 DEF WordOf
<1>11. QED BY <1>5, <1>6, <1>7, <1>8, <1>9, <1>10 DEF RequestInv

LEMMA ShareStep ==
  ASSUME TypeOK, NEW r \in Request, RequestInv(r), CreateLink(r) \/ Refresh(r)
  PROVE  RequestInv(r)'
<1>1. /\ UNCHANGED <<sheet, raced, body, rows, inputs, known>>
      /\ pc[r] \in {"insert", "refresh"}
  BY DEF CreateLink, Refresh
<1>2. body[r].op = "share" /\ rows[r] = NoRows BY <1>1 DEF RequestInv, ControlOf
<1>3. \A i \in known'[r] : IsApproved(i)' BY <1>1 DEF RequestInv, FinalOf, IsApproved
<1>4. FinalOf(r)' /\ StepBackOf(r)' BY <1>1, <1>2, <1>3, NothingLoaded
<1>5. OpeningOf(r)' /\ WordOf(r)' BY <1>1, <1>2 DEF OpeningOf, WordOf
<1>6. CASE CreateLink(r)
  <2>1. /\ pc'[r] = "refresh" /\ r \in DOMAIN link' /\ link'[r] = body[r].link
        /\ [by |-> r, link |-> None, action |-> "create"] \in audit'
        /\ TargetExists(r)
    BY <1>6 DEF CreateLink, TypeOK, Goto
  <2>2. LinkOf(r)' BY <1>1, <1>2, <2>1 DEF LinkOf, TargetExists
  <2>3. ControlOf(r)' /\ RecordOf(r)' BY <1>1, <1>2, <2>1 DEF ControlOf, RecordOf
  <2>4. QED BY <1>4, <1>5, <2>2, <2>3 DEF RequestInv
<1>7. CASE Refresh(r)
  <2>1. UNCHANGED <<link, audit>> /\ pc[r] = "refresh" /\ pc'[r] = "ok"
    BY <1>7 DEF Refresh, TypeOK, Goto
  <2>2. LinkOf(r)' BY <1>1, <2>1 DEF RequestInv, LinkOf
  <2>3. RecordOf(r)' BY <1>1, <1>2, <2>1 DEF RequestInv, LinkOf, RecordOf
  <2>4. ControlOf(r)' BY <1>1, <1>2, <2>1 DEF ControlOf
  <2>5. QED BY <1>4, <1>5, <2>2, <2>3, <2>4 DEF RequestInv
<1>8. QED BY <1>6, <1>7

LEMMA FindStep ==
  ASSUME TypeOK, NEW r \in Request, RequestInv(r), FindLink(r)
  PROVE  RequestInv(r)'
<1>1. /\ UNCHANGED <<sheet, raced, link, audit, body, rows, inputs, known>>
      /\ pc[r] = "link" /\ pc'[r] = "rows" /\ body[r].link \in DOMAIN link
  BY DEF FindLink, TypeOK, Goto
<1>2. body[r].op \in {"view", "download"} /\ rows[r] = NoRows
  BY <1>1 DEF RequestInv, ControlOf
<1>3. \A i \in known'[r] : IsApproved(i)' BY <1>1 DEF RequestInv, FinalOf, IsApproved
<1>4. FinalOf(r)' /\ StepBackOf(r)' /\ WithinLink(r)' BY <1>1, <1>2, <1>3, NothingLoaded
<1>5. ControlOf(r)' BY <1>1, <1>2 DEF ControlOf, Files
<1>6. LinkOf(r)' BY <1>1, <1>2 DEF RequestInv, LinkOf
<1>7. OpeningOf(r)' BY <1>1, <1>4 DEF OpeningOf
<1>8. RecordOf(r)' /\ WordOf(r)' BY <1>1 DEF RecordOf, WordOf
<1>9. QED BY <1>4, <1>5, <1>6, <1>7, <1>8 DEF RequestInv

LEMMA AfterRowsCases ==
  ASSUME NEW r \in Request, body[r].op \in {"view", "list"} \cup Files
  PROVE  \/ body[r].op = "list" /\ AfterRows(r) = "ok"
         \/ body[r].op \in {"view"} \cup Files /\ AfterRows(r) = "metrics"
         \/ /\ body[r].op \in {"view", "download"} /\ AfterRows(r) = "commit"
            /\ Selected(r) = {}
         \/ body[r].op = "batch" /\ AfterRows(r) = "ok" /\ Selected(r) = {}
         \/ body[r].op = "export" /\ AfterRows(r) = "not_found" /\ Selected(r) = {}
<1>1. CASE body[r].op = "list" BY <1>1 DEF AfterRows
<1>2. CASE body[r].op \in {"view"} \cup Files /\ Selected(r) # {}
  BY <1>2 DEF AfterRows, Files
<1>3. CASE body[r].op \in {"view", "download"} /\ Selected(r) = {}
  BY <1>3 DEF AfterRows
<1>4. CASE body[r].op = "batch" /\ Selected(r) = {}  BY <1>4 DEF AfterRows
<1>5. CASE body[r].op = "export" /\ Selected(r) = {} BY <1>5 DEF AfterRows
<1>6. QED BY <1>1, <1>2, <1>3, <1>4, <1>5 DEF Files

LEMMA LoadRowsStep ==
  ASSUME TypeOK, NEW r \in Request, \A q \in Request : RequestInv(q), LoadRows(r)
  PROVE  RequestInv(r)'
<1>1. /\ UNCHANGED <<sheet, raced, link, audit, body, inputs, known>>
      /\ pc[r] = "rows" /\ pc'[r] = AfterRows(r)
      /\ rows'[r] = [i \in Selected(r) |-> Columns(i)]
  BY DEF LoadRows, TypeOK, Goto
<1>2. RequestInv(r) /\ body[r].op \in {"view", "list"} \cup Files
  BY <1>1 DEF RequestInv, ControlOf
<1>3. DOMAIN rows'[r] = Selected(r) /\ Selected(r) \subseteq DOMAIN sheet
      /\ \A i \in Selected(r) : rows'[r][i] = Columns(i)
  BY <1>1 DEF Selected
<1>4. \A i \in Selected(r) : Columns(i).status = sheet[i].status /\ Columns(i).key = sheet[i].key
  BY DEF Columns
<1>5. /\ AfterRows(r) \in {"ok", "metrics", "commit", "not_found"}
      /\ AfterRows(r) = "metrics" => body[r].op # "list"
      /\ AfterRows(r) = "commit" => body[r].op \in {"view", "download"} /\ Selected(r) = {}
      /\ AfterRows(r) = "ok" => /\ body[r].op \in {"list", "batch"}
                                /\ body[r].op = "batch" => Selected(r) = {}
      /\ AfterRows(r) = "not_found" => body[r].op = "export" /\ Selected(r) = {}
  BY <1>2, AfterRowsCases DEF Files
<1>6. ControlOf(r)'
  <2>1. Selected(r) = {} => rows'[r] = NoRows BY <1>1 DEF NoRows
  <2>2. QED BY <1>1, <1>2, <1>5, <2>1 DEF ControlOf, Files
<1>7. LinkOf(r)'
  <2>1. body[r].op # "share" BY <1>2 DEF Files
  <2>2. QED BY <1>1, <1>2, <2>1 DEF RequestInv, LinkOf
<1>8. OpeningOf(r)'
  <2>1. SUFFICES ASSUME body[r].op \in {"view", "download"} PROVE OpeningOf(r)'
    BY <1>1 DEF OpeningOf
  <2> DEFINE l == body[r].link
  <2>2. l \in DOMAIN link /\ l \in Request
    BY <1>1, <1>2, <2>1 DEF RequestInv, OpeningOf, TypeOK
  <2>3. link[l] \in Link /\ Selection(r) = link[l]
    BY <2>1, <2>2 DEF TypeOK, Selection
  <2>4. link[l].scope \in {"single_kpi", "employee_all", "month_all"}
    BY <2>3, LinkFields DEF ShareScope
  <2>5. Selected(r) =
          {i \in DOMAIN sheet :
             CASE link[l].scope = "single_kpi"   -> i = link[l].target
               [] link[l].scope = "employee_all" -> sheet[i].key.employee = link[l].target
               [] link[l].scope = "month_all"    -> sheet[i].key.month = link[l].target
               [] link[l].scope = "all"          -> TRUE}
    BY <2>3 DEF Selected
  <2>6. /\ link[l].scope = "single_kpi" => \A i \in Selected(r) : i = link[l].target
        /\ link[l].scope = "employee_all" =>
             \A i \in Selected(r) : sheet[i].key.employee = link[l].target
        /\ link[l].scope = "month_all" =>
             \A i \in Selected(r) : sheet[i].key.month = link[l].target
    BY <2>5
  <2>7. WithinLink(r)'
    <3>1. body'[r].link = l /\ link'[l] = link[l]
      BY <1>1
    <3>2. \A i \in DOMAIN rows'[r] : i \in Selected(r) /\ rows'[r][i].key = sheet[i].key
      BY <1>3, <1>4
    <3>3. CASE link[l].scope = "single_kpi"
      BY <2>6, <3>1, <3>2, <3>3 DEF WithinLink
    <3>4. CASE link[l].scope = "employee_all"
      BY <2>6, <3>1, <3>2, <3>4 DEF WithinLink
    <3>5. CASE link[l].scope = "month_all"
      BY <2>6, <3>1, <3>2, <3>5 DEF WithinLink
    <3>6. QED
      BY <2>4, <3>3, <3>4, <3>5
  <2>8. link[l].scope = "single_kpi" /\ link[l].target # None => link[l].target \in Selected(r)
    <3>1. link[l].scope = "single_kpi" => link[l].target \in DOMAIN sheet \cup {None}
      BY <2>2 DEF RequestInv, LinkOf
    <3>2. QED BY <2>5, <3>1
  <2>9. QED BY <1>1, <1>3, <2>2, <2>7, <2>8 DEF OpeningOf
<1>9. FinalOf(r)'
  <2>1. ASSUME NEW i \in Selected(r), Columns(i).status = "approved"
        PROVE  IsApproved(i)' /\ rows'[r][i] = Columns(i)'
    BY <1>1, <1>3, <1>4, <2>1 DEF IsApproved, Columns
  <2>2. pc'[r] = "commit" \/ (pc'[r] = "ok" /\ body'[r].op \in {"view"} \cup Files)
          => Selected(r) = {}
    BY <1>1, <1>5 DEF Files
  <2>3. \A i \in known'[r] : IsApproved(i)' BY <1>1, <1>2 DEF RequestInv, FinalOf, IsApproved
  <2>4. QED BY <1>3, <2>1, <2>2, <2>3 DEF FinalOf
<1>10. StepBackOf(r)'
  <2>1. \A i \in known[r] : IsApproved(i) BY <1>2 DEF RequestInv, FinalOf
  <2>2. QED BY <1>1, <1>3, <1>4, <2>1 DEF StepBackOf, IsApproved
<1>11. RecordOf(r)' BY <1>1, <1>5 DEF RecordOf
<1>12. WordOf(r)' BY <1>1, <1>5 DEF WordOf
<1>13. QED BY <1>6, <1>7, <1>8, <1>9, <1>10, <1>11, <1>12 DEF RequestInv

LEMMA LoadMetricsStep ==
  ASSUME TypeOK, NEW r \in Request, RequestInv(r), LoadMetrics(r)
  PROVE  RequestInv(r)'
<1>1. /\ UNCHANGED <<sheet, raced, link, audit, body, rows, known>> /\ pc[r] = "metrics"
      /\ inputs'[r] = [i \in DOMAIN rows[r] |-> sheet[i].inputs]
      /\ pc'[r] = IF body[r].op \in {"view", "download"} THEN "commit" ELSE "ok"
  BY DEF LoadMetrics, TypeOK, Goto
<1>2. body[r].op \in {"view", "list"} \cup Files BY <1>1 DEF RequestInv, ControlOf
<1>3. ControlOf(r)' BY <1>1, <1>2 DEF ControlOf
<1>4. LinkOf(r)' BY <1>1, <1>2 DEF RequestInv, LinkOf, Files
<1>5. OpeningOf(r)'
  <2>1. WithinLink(r)' <=> WithinLink(r) BY <1>1 DEF WithinLink
  <2>2. QED BY <1>1, <2>1 DEF RequestInv, OpeningOf
<1>6. FinalOf(r)' BY <1>1 DEF RequestInv, FinalOf, IsApproved, Columns
<1>7. RecordOf(r)' BY <1>1, <1>2 DEF RecordOf, Files
<1>8. WordOf(r)' /\ StepBackOf(r)' BY <1>1 DEF RequestInv, WordOf, StepBackOf
<1>9. QED BY <1>3, <1>4, <1>5, <1>6, <1>7, <1>8 DEF RequestInv

LEMMA CommitStep ==
  ASSUME TypeOK, NEW r \in Request, RequestInv(r), Commit(r)
  PROVE  RequestInv(r)'
<1>1. /\ UNCHANGED <<sheet, raced, link, body, rows, inputs, known>> /\ pc[r] = "commit"
      /\ audit' = audit \cup {Opening(r)} /\ pc'[r] = AfterCommit(r)
  BY DEF Commit, TypeOK, Goto
<1>2. body[r].op \in {"view", "download"} BY <1>1 DEF RequestInv, ControlOf
<1>3. \/ AfterCommit(r) = "ok"
      \/ AfterCommit(r) = "not_found" /\ body[r].op = "download" /\ rows[r] = NoRows
  BY DEF AfterCommit
<1>4. ControlOf(r)' BY <1>1, <1>3 DEF ControlOf
<1>5. LinkOf(r)' BY <1>1, <1>2 DEF RequestInv, LinkOf
<1>6. OpeningOf(r)'
  <2>1. WithinLink(r)' <=> WithinLink(r) BY <1>1 DEF WithinLink
  <2>2. QED BY <1>1, <1>3, <2>1 DEF RequestInv, OpeningOf
<1>7. FinalOf(r)' BY <1>1, <1>3 DEF RequestInv, FinalOf, IsApproved, Columns
<1>8. RecordOf(r)'
  <2>1. Opening(r)' = Opening(r) BY <1>1 DEF Opening
  <2>2. QED BY <1>1, <1>2, <2>1 DEF RecordOf
<1>9. WordOf(r)'
  <2>1. rows[r] = NoRows => DOMAIN rows[r] = {} BY DEF NoRows
  <2>2. QED BY <1>1, <1>2, <1>3, <2>1 DEF RequestInv, OpeningOf, WordOf
<1>10. StepBackOf(r)' BY <1>1 DEF RequestInv, StepBackOf
<1>11. QED BY <1>4, <1>5, <1>6, <1>7, <1>8, <1>9, <1>10 DEF RequestInv

LEMMA OwnStep ==
  ASSUME TypeOK, NEW r \in Request, \A q \in Request : RequestInv(q), StepOf(r)
  PROVE  RequestInv(r)'
<1>1. RequestInv(r) /\ body[r] \in Body BY DEF TypeOK
<1>2. CASE Receive(r) BY <1>2, ReceiveStep
<1>3. CASE CreateLink(r) \/ Refresh(r) BY <1>1, <1>3, ShareStep
<1>4. CASE FindLink(r)    BY <1>1, <1>4, FindStep
<1>5. CASE LoadRows(r)    BY <1>5, LoadRowsStep
<1>6. CASE LoadMetrics(r) BY <1>1, <1>6, LoadMetricsStep
<1>7. CASE Commit(r)      BY <1>1, <1>7, CommitStep
<1>8. CASE RejectOpening(r)
  <2>1. pc[r] = "link" BY <1>8 DEF RejectOpening
  <2>2. CASE body[r].link \notin DOMAIN link /\ Refuse(r, "not_found")
    <3>1. body[r].link = None BY <1>1, <2>1, <2>2 DEF RequestInv, ControlOf, OpeningOf
    <3>2. QED BY <1>1, <2>1, <2>2, <3>1, RefusedStep DEF Answer
  <2>3. CASE /\ body[r].link \in DOMAIN link /\ ~Downloadable(body[r].link)
             /\ Refuse(r, "forbidden")
    <3>1. link[body[r].link] \in Link BY <2>3 DEF TypeOK
    <3>2. link[body[r].link].permission = "view"
      BY <2>3, <3>1, LinkFields DEF Downloadable, SharePermission
    <3>3. QED BY <1>1, <2>1, <2>3, <3>2, RefusedStep DEF Answer
  <2>4. QED BY <1>8, <2>2, <2>3 DEF RejectOpening
<1>9. CASE RejectLink(r) \/ RejectBatch(r) \/ Abort(r)
  <2>1. PICK a \in Answer \ {"ok", "forbidden", "not_found"} : Refuse(r, a)
    BY <1>9 DEF RejectLink, RejectBatch, Abort, Answer
  <2>2. pc[r] # "idle" BY <1>9 DEF RejectLink, RejectBatch, Abort, Awaiting
  <2>3. QED BY <1>1, <2>1, <2>2, RefusedStep
<1>10. QED BY <1>2, <1>3, <1>4, <1>5, <1>6, <1>7, <1>8, <1>9 DEF StepOf, Handle

(* A step of r keeps what the invariant says of the others.                *)
LEMMA OtherStep ==
  ASSUME TypeOK, NEW r \in Request, \A q \in Request : RequestInv(q), StepOf(r),
         NEW q \in Request \ {r}
  PROVE  RequestInv(q)'
<1>1. /\ sheet' = sheet /\ raced' = raced /\ pc'[q] = pc[q] /\ body'[q] = body[q]
      /\ rows'[q] = rows[q] /\ inputs'[q] = inputs[q] /\ known'[q] = known[q]
  BY Frame
<1>2. RequestInv(r) /\ RequestInv(q) /\ body[q] \in Body BY DEF TypeOK
<1>3. /\ DOMAIN link \subseteq DOMAIN link' /\ DOMAIN link' \subseteq DOMAIN link \cup {r}
      /\ \A l \in DOMAIN link : link'[l] = link[l]
      /\ audit \subseteq audit'
  BY <1>2, Growth DEF RequestInv
<1>4. NoRows' = NoRows BY DEF NoRows
<1>5. ControlOf(q)' BY <1>1, <1>2, <1>4 DEF RequestInv, ControlOf
<1>6. LinkOf(q)' BY <1>1, <1>2, <1>3 DEF RequestInv, LinkOf
<1>7. OpeningOf(q)'
  <2>1. body[q].link \in DOMAIN link => (WithinLink(q)' <=> WithinLink(q))
    BY <1>1, <1>3 DEF WithinLink
  <2>2. QED BY <1>1, <1>2, <1>3, <2>1 DEF RequestInv, OpeningOf
<1>8. FinalOf(q)' BY <1>1, <1>2 DEF RequestInv, FinalOf, IsApproved, Columns
<1>9. RecordOf(q)'
  <2>1. Opening(q)' = Opening(q) BY <1>1 DEF Opening
  <2>2. QED BY <1>1, <1>2, <1>3, <2>1 DEF RequestInv, RecordOf
<1>10. WordOf(q)' BY <1>1, <1>2, <1>3 DEF RequestInv, OpeningOf, WordOf
<1>11. StepBackOf(q)' BY <1>1, <1>2 DEF RequestInv, StepBackOf
<1>12. QED BY <1>5, <1>6, <1>7, <1>8, <1>9, <1>10, <1>11 DEF RequestInv

(* Neither does a submission or an approval break it.                      *)
LEMMA WriteStep ==
  ASSUME TypeOK, TotalsCurrent, Write, NEW q \in Request, RequestInv(q)
  PROVE  RequestInv(q)'
<1>1. UNCHANGED <<link, audit, body, pc, rows, inputs, known>> /\ Sheets!Next
  BY DEF Write, mine
<1>2. /\ DOMAIN sheet \subseteq DOMAIN sheet' /\ raced \subseteq raced'
      /\ \A i \in Sheet : IsApproved(i) =>
           /\ IsApproved(i)'
           /\ i \notin raced => sheet'[i] = sheet[i]
  BY <1>1, SheetStep DEF Kept, IsApproved
<1>3. ControlOf(q)' BY <1>1 DEF RequestInv, ControlOf, NoRows
<1>4. LinkOf(q)' BY <1>1, <1>2 DEF RequestInv, LinkOf
<1>5. OpeningOf(q)'
  <2>1. WithinLink(q)' <=> WithinLink(q) BY <1>1 DEF WithinLink
  <2>2. QED BY <1>1, <2>1 DEF RequestInv, OpeningOf
<1>6. FinalOf(q)'
  <2>1. ASSUME NEW i, IsApproved(i)
        PROVE  /\ IsApproved(i)'
               /\ i \notin raced => sheet'[i] = sheet[i] /\ Columns(i)' = Columns(i)
    <3>1. i \in Sheet BY <2>1 DEF IsApproved, TypeOK
    <3>2. QED BY <1>2, <2>1, <3>1 DEF Columns
  <2>2. ASSUME NEW i \in DOMAIN rows[q], rows[q][i].status = "approved"
        PROVE  /\ IsApproved(i)'
               /\ i \notin raced' =>
                    /\ rows[q][i] = Columns(i)'
                    /\ pc[q] = "commit" \/ (pc[q] = "ok" /\ body[q].op \in {"view"} \cup Files) =>
                         inputs[q][i] = sheet'[i].inputs
    <3>1. IsApproved(i) BY <2>2 DEF RequestInv, FinalOf
    <3>2. i \notin raced' => i \notin raced BY <1>2
    <3>3. QED BY <2>1, <2>2, <3>1, <3>2 DEF RequestInv, FinalOf
  <2>3. \A i \in known[q] : IsApproved(i)' BY <2>1 DEF RequestInv, FinalOf
  <2>4. /\ rows'[q] = rows[q] /\ inputs'[q] = inputs[q] /\ known'[q] = known[q]
        /\ pc'[q] = pc[q] /\ body'[q] = body[q]
    BY <1>1
  <2>5. QED BY <2>2, <2>3, <2>4 DEF FinalOf, IsApproved, Columns
<1>7. Opening(q)' = Opening(q) BY <1>1 DEF Opening
<1>8. RecordOf(q)' BY <1>1, <1>7 DEF RequestInv, RecordOf
<1>9. WordOf(q)' /\ StepBackOf(q)' BY <1>1 DEF RequestInv, WordOf, StepBackOf
<1>10. QED BY <1>3, <1>4, <1>5, <1>6, <1>8, <1>9 DEF RequestInv

LEMMA WriteType ==
  ASSUME TypeOK, TotalsCurrent, Write
  PROVE  TypeOK' /\ TotalsCurrent'
<1>1. UNCHANGED <<link, audit, body, pc, rows, inputs, known>> /\ Sheets!Next
  BY DEF Write, mine
<1>2. /\ DOMAIN sheet \subseteq DOMAIN sheet' /\ DOMAIN sheet' \subseteq Sheet
      /\ sheet' \in [DOMAIN sheet' -> SheetType] /\ raced' \subseteq Sheet /\ TotalsCurrent'
  BY <1>1, SheetStep DEF Kept
<1>3. /\ Loaded(RowType) \subseteq Loaded(RowType)'
      /\ Loaded(SUBSET MetricInput) \subseteq Loaded(SUBSET MetricInput)'
  BY <1>2 DEF Loaded
<1>4. rows' \in [Request -> Loaded(RowType)'] /\ inputs' \in [Request -> Loaded(SUBSET MetricInput)']
  BY <1>1, <1>3 DEF TypeOK
<1>5. QED BY <1>1, <1>2, <1>4 DEF TypeOK

(* No entry of the audit log tells of a link that there is not.            *)
LEMMA EntriesStep ==
  ASSUME TypeOK, EntriesInv, NEW r \in Request, RequestInv(r), StepOf(r)
  PROVE  EntriesInv'
<1>1. DOMAIN link \subseteq DOMAIN link' BY Growth DEF RequestInv
<1>2. CASE CreateLink(r)
  <2>1. /\ audit' = audit \cup {[by |-> r, link |-> None, action |-> "create"]}
        /\ r \in DOMAIN link'
    BY <1>2 DEF CreateLink
  <2>2. QED BY <1>1, <2>1 DEF EntriesInv
<1>3. CASE Commit(r)
  <2>1. audit' = audit \cup {Opening(r)} /\ pc[r] = "commit" BY <1>3 DEF Commit
  <2>2. body[r].link \in DOMAIN link
    BY <2>1 DEF RequestInv, ControlOf, OpeningOf
  <2>3. Opening(r).link = body[r].link /\ Opening(r).action # "create" BY DEF Opening
  <2>4. QED BY <1>1, <2>1, <2>2, <2>3 DEF EntriesInv
<1>4. CASE audit' = audit BY <1>1, <1>4 DEF EntriesInv
<1>5. QED BY <1>2, <1>3, <1>4, Frame

-----------------------------------------------------------------------------
LEMMA InvInit == Init => ReportsInv
<1>1. SUFFICES ASSUME Init PROVE ReportsInv
  OBVIOUS
<1>2. TypeOK BY <1>1, InitType
<1>3. /\ DOMAIN sheet = {} /\ DOMAIN link = {} /\ audit = {}
      /\ \A r \in Request : /\ body[r].op = "none" /\ pc[r] = "idle"
                            /\ rows[r] = NoRows /\ known[r] = {}
  BY <1>1 DEF Init, Sheets!Init
<1>4. TotalsCurrent /\ EntriesInv BY <1>3 DEF TotalsCurrent, EntriesInv
<1>5. ASSUME NEW r \in Request PROVE RequestInv(r)
  <2>1. DOMAIN rows[r] = {} BY <1>3 DEF NoRows
  <2>2. ControlOf(r) /\ LinkOf(r) /\ OpeningOf(r)
    BY <1>3 DEF ControlOf, LinkOf, OpeningOf
  <2>3. FinalOf(r) /\ StepBackOf(r) BY <1>3, <2>1 DEF FinalOf, StepBackOf
  <2>4. RecordOf(r) /\ WordOf(r) BY <1>3 DEF RecordOf, WordOf
  <2>5. QED BY <2>2, <2>3, <2>4 DEF RequestInv
<1>6. QED BY <1>2, <1>4, <1>5, InvByRequest

LEMMA InvStep ==
  ASSUME ReportsInv, [Next]_vars
  PROVE  ReportsInv'
<1>1. /\ TypeOK /\ TotalsCurrent /\ EntriesInv
      /\ \A r \in Request : RequestInv(r)
  BY InvByRequest
<1> SUFFICES /\ TypeOK' /\ TotalsCurrent' /\ EntriesInv'
             /\ \A r \in Request : RequestInv(r)'
  BY DEF ReportsInv, RequestInv, EntriesInv, RecordOf, WordOf, StepBackOf,
         OpenedOnRecord, LinkKeepsItsWord, NoStepBack
<1>2. CASE UNCHANGED vars
  <2>1. UNCHANGED <<sheet, raced, link, audit, body, pc, rows, inputs, known>>
    BY <1>2 DEF vars, mine
  <2>2. TypeOK' /\ TotalsCurrent' /\ EntriesInv'
    BY <1>1, <2>1 DEF TypeOK, Loaded, TotalsCurrent, EntriesInv
  <2>3. ASSUME NEW r \in Request PROVE RequestInv(r)'
    <3>1. ControlOf(r)' /\ LinkOf(r)'
      BY <1>1, <2>1 DEF RequestInv, ControlOf, NoRows, LinkOf
    <3>2. OpeningOf(r)' BY <1>1, <2>1 DEF RequestInv, OpeningOf, WithinLink
    <3>3. FinalOf(r)' BY <1>1, <2>1 DEF RequestInv, FinalOf, IsApproved, Columns
    <3>4. RecordOf(r)' BY <1>1, <2>1 DEF RequestInv, RecordOf, Opening
    <3>5. WordOf(r)' /\ StepBackOf(r)' BY <1>1, <2>1 DEF RequestInv, WordOf, StepBackOf
    <3>6. QED BY <3>1, <3>2, <3>3, <3>4, <3>5 DEF RequestInv
  <2>4. QED BY <2>2, <2>3
<1>3. CASE Write
  <2>1. TypeOK' /\ TotalsCurrent' BY <1>1, <1>3, WriteType
  <2>2. EntriesInv' BY <1>1, <1>3 DEF Write, mine, EntriesInv
  <2>3. \A r \in Request : RequestInv(r)' BY <1>1, <1>3, WriteStep
  <2>4. QED BY <2>1, <2>2, <2>3
<1>4. ASSUME NEW r \in Request, StepOf(r)
      PROVE  /\ TypeOK' /\ TotalsCurrent' /\ EntriesInv'
             /\ \A q \in Request : RequestInv(q)'
  <2>1. TypeOK' BY <1>1, <1>4, StepType DEF RequestInv
  <2>2. TotalsCurrent' BY <1>1, <1>4, Frame DEF TotalsCurrent
  <2>3. EntriesInv' BY <1>1, <1>4, EntriesStep
  <2>4. ASSUME NEW q \in Request PROVE RequestInv(q)'
    <3>1. CASE q = r BY <1>1, <1>4, <3>1, OwnStep
    <3>2. CASE q # r BY <1>1, <1>4, <3>2, OtherStep
    <3>3. QED BY <3>1, <3>2
  <2>5. QED BY <2>1, <2>2, <2>3, <2>4
<1>5. QED BY <1>2, <1>3, <1>4 DEF Next, StepOf

-----------------------------------------------------------------------------
(* ReportsInv is inductive, for any number of links, readers and sheets.   *)
THEOREM Invariance == Spec => []ReportsInv
<1>1. Init => ReportsInv BY InvInit
<1>2. ReportsInv /\ [Next]_vars => ReportsInv' BY InvStep
<1>3. QED BY <1>1, <1>2, PTL DEF Spec

(* Every variable keeps its type.                                          *)
THEOREM TypeCorrect == Spec => []TypeOK
<1>1. ReportsInv => TypeOK BY DEF ReportsInv
<1>2. QED BY <1>1, Invariance, PTL

(* What a file calls approved is approved, and unless submissions of it    *)
(* have overlapped, the file shows the final total and the metrics it was  *)
(* made of (kpi.py:244, 304-317).                                          *)
THEOREM ApprovedFiles == Spec => []ApprovedFileIsFinal
<1>1. ReportsInv => ApprovedFileIsFinal
  <2>1. SUFFICES ASSUME ReportsInv, NEW r \in Request, pc[r] = "ok", body[r].op \in Files,
                        NEW i \in DOMAIN rows[r], rows[r][i].status = "approved"
                 PROVE  /\ sheet[i].status = "approved"
                        /\ i \notin raced =>
                             FileOf(r, i) = [row |-> Columns(i), inputs |-> sheet[i].inputs]
                        /\ i \notin raced =>
                             rows[r][i].total = Sheets!Worth(sheet[i].salary, inputs[r][i])
    BY DEF ApprovedFileIsFinal
  <2>2. /\ IsApproved(i)
        /\ i \notin raced => rows[r][i] = Columns(i) /\ inputs[r][i] = sheet[i].inputs
    BY <2>1 DEF ReportsInv, FinalOf
  <2>3. Columns(i).total = sheet[i].total BY DEF Columns
  <2>4. i \notin raced => sheet[i].total = Sheets!Worth(sheet[i].salary, sheet[i].inputs)
    BY <2>1, <2>2 DEF ReportsInv, TotalsCurrent, IsApproved
  <2>5. QED BY <2>2, <2>3, <2>4 DEF FileOf, IsApproved
<1>2. QED BY <1>1, Invariance, PTL

(* Who was shown something by a link, or made one, is on record.           *)
THEOREM OpeningsOnRecord == Spec => []OpenedOnRecord
<1>1. ReportsInv => OpenedOnRecord BY DEF ReportsInv
<1>2. QED BY <1>1, Invariance, PTL

(* A link shows what its scope names and nothing else (kpi.py:243-251).    *)
THEOREM ScopeKept == Spec => []ShownWithinLink
<1>1. ReportsInv => ShownWithinLink BY DEF ReportsInv, OpeningOf, ShownWithinLink
<1>2. QED BY <1>1, Invariance, PTL

(* A link its creator was told of is found, and so is its file.            *)
THEOREM LinkWord == Spec => []LinkKeepsItsWord
<1>1. ReportsInv => LinkKeepsItsWord BY DEF ReportsInv
<1>2. QED BY <1>1, Invariance, PTL

(* What was once shown approved is never shown submitted afterwards.       *)
THEOREM MonotonicShows == Spec => []NoStepBack
<1>1. ReportsInv => NoStepBack BY DEF ReportsInv
<1>2. QED BY <1>1, Invariance, PTL
=============================================================================
