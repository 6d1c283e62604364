# Formal models of KPIAYA

KPIAYA is a FastAPI service in which the KPI instances of employees are filled in, disputed
and approved, with a Telegram bot beside the HTTP API and PostgreSQL below both. This directory
holds TLA+ models of its core, the TLC configurations that check them, and proofs that TLAPS
checks. Paths below are relative to the repository (`app/...`); line numbers are those of the
commit the models were made from.

## 1. The system

| component | state | operations | interacts with |
|---|---|---|---|
| KPI instance API (`app/api/kpi.py`) | `kpi_instances`, `kpi_instance_metrics`, `kpi_disputes` | create or resubmit, finalize, dispute, list | engine, audit, notifier, database |
| KPI templates (`app/api/kpi.py:34`) | `kpi_templates`, `kpi_template_metrics` | create | engine (validation), audit |
| formula engine (`app/services/kpi_engine.py`) | none | validate, evaluate, calculate an instance | API, bot |
| bot (`app/bot/bot.py`) | `KPI_WIZARD_STATE` in memory | start, help, open the wizard, take its message | database, engine, audit |
| notifier (`app/services/telegram.py`) | `notification_logs` | send | Telegram, the session of its caller |
| audit (`app/services/audit.py`) | `kpi_history` | add an entry to the session of its caller | every handler that writes |
| share links (`app/api/kpi.py:224-290`) | `kpi_share_links` | create, view, download | instances, exports, audit |
| exports (`app/services/export.py`, `kpi.py:293`) | none | PDF, XLSX, ZIP of instances | instances |
| reminders (`app/tasks/scheduler.py`) | scheduler jobs in memory | one job on three days a month | users, instances, notifier |
| authentication (`app/api/auth.py`, `deps.py`, `core/security.py`) | `users`, roles; tokens outside | log in, refresh, check a permission | every handler |
| bootstrap (`app/services/bootstrap.py`, `main.py`) | permissions, roles, super admin | run once at start | users |
| user directory (`app/api/users.py`) | none | list, export CSV | users, instances |

One process runs one event loop (`docker-compose.yml`). A handler runs until it awaits, and
every `await` on the database or on Telegram lets other handlers run. Each request has a
session of its own (`app/db/session.py`), which is one transaction at READ COMMITTED, the
default of PostgreSQL. What is hard here:

* handlers read a row, await, and write it later, with no lock and no version column;
* SQLAlchemy writes the columns that differ from what it *loaded*, not all of them;
* row locks and foreign keys make requests wait for each other, and deadlock;
* messages leave before the transaction that logs them commits;
* the state of the wizard is checked before several awaits and changed after them, and the role
  of its user long before either;
* a report reads instances by one statement and their metrics by another;
* tokens say who somebody was when they were made, the tables who somebody is;
* the process may die in its start, and starts again over what the database holds;
* formulas are validated at one point and evaluated at others.

### What makes each component correct

* *Instances.* An approval is final and on record; what a client was told holds; an approved
  instance does not change; there is one instance per employee, month and template; the total
  is that of the instance's metrics; no row dangles; every request is answered. Where
  overlapping requests break one of these, nothing but the overlap that is known to does.
* *Templates and engine.* What was accepted can be evaluated; what cannot is refused as
  invalid; stored amounts add up; an employee within the plan is paid the shares of the metrics
  that were submitted, and earns at most the maximum where these are the template's own.
* *Bot.* One press makes at most one instance, but in two ways that are known, and only for a
  user who had a role when the button was pressed.
* *Notifier and audit.* What was sent is logged; an audit entry tells the state that was.
* *Share links and exports.* What is shown by a link is what the link names and is on record;
  a link that was given out works; an approved instance is shown as it is for good; nobody is
  shown an older state than somebody was before.
* *Authentication and bootstrap.* Whoever is served was active and permitted; the session of a
  banned user ends; a process that serves has its super admin and default grants.
* *Reminders.* A job leaves no admin without the message.

## 2. The modules

| module | models | checked by |
|---|---|---|
| `KpiInstances` | submissions, finalizations, disputes and the bot's insert, statement by statement, over the committed tables, the sessions and the row locks | `MCKpiInstances` |
| `KpiLifecycle` | what holds of the instances under any interleaving: submitted once, then approved, on record | as `ImplementsLifecycle` |
| `KpiRaces` | `KpiInstances` with an observer of which edits of an instance overlap, and what holds of every schedule up to those overlaps | `MCKpiRaces` |
| `KpiSheets` | sheets replaced as a whole until approved, but for those on which submissions have overlapped | as `ImplementsSheets` |
| `KpiInstancesProofs` | proofs about `KpiInstances`: approvals and `KpiLifecycle`, answers, references, messages | TLAPS |
| `SumProofs` | lemmas about `MapThenSumSet`, the sum over a set | TLAPS |
| `KpiRacesProofs` | proofs about `KpiRaces` and `KpiSheets` | TLAPS |
| `BotWizard` | the wizard's memory and its two handlers, await by await, with failures, restarts, and users and roles that change meanwhile | `MCBotWizard` |
| `BotWizardProofs` | proofs about `BotWizard` | TLAPS |
| `Formulas` | decimals and the evaluator, node by node | through `KpiEngine` |
| `KpiEngine` | creation of templates, calculation and storage of an instance from any metrics there are | `MCKpiEngine` |
| `DecimalProofs` | lemmas about the decimals of `Formulas`: lowest terms, order, totals, rounding | TLAPS |
| `KpiEngineProofs` | proofs about `KpiEngine` and the evaluator | TLAPS |
| `Reports` | share links, exports and listings, over sheets that change as `KpiSheets` says | `MCReports` |
| `ReportsProofs` | proofs about `Reports` | TLAPS |
| `Access` | the start of the process, log-in, tokens, the check of user and permission | `MCAccess` |
| `AccessProofs` | proofs about `Access` | TLAPS |
| `Reminders` | the monthly job, in the process and over the users of `Access` | `MCReminders` |

The modules meet at four points. `KpiInstances!BotCreate` is the transaction of a message to the
bot, which `BotWizard` surrounds with the wizard's memory. The constant `Score` of
`KpiInstances` stands for the metric results that `KpiEngine` computes: an instance's total
there is its salary amount and the sum of the scores of its metrics. `Reports` takes
`KpiSheets`, which `KpiRaces` and so `KpiInstances` implement however requests overlap
(proved, section 5), as what happens to the instances while it reads them. `Reminders` extends `Access`: its
job runs in the process that `Access` starts and crashes. The permission check of `Access` comes
before every handler of the other modules, which start after it.

### KpiInstances

`inst`, `metric`, `dispute`, `history` and `log` are the committed tables and `outbox` what
Telegram was given. `ses[r]` is the session of request `r`: the instance it works on as SQLAlchemy holds it
(`obj`), the columns it has written but not committed (`dirty`), the metric rows it has loaded, deletes
and inserts, and the audit and log rows it has added. `pc[r]` is the statement
that `r` awaits. A `SELECT` reads the committed tables; a flush waits for the row locks of other sessions and
stays private; `Commit` merges it. The steps of a submission are:

| action | code | |
|---|---|---|
| `RejectDuplicates`, `RejectClosed`, `LoadExisting`, `InsertNew` | `kpi.py:78-105` | the query, the check of the status, the insert of a new row |
| `LoadMetrics` | `kpi.py:82` | `selectinload`, a second statement |
| `UpdateExisting` | `kpi.py:106-116` | the flush that updates the changed columns |
| `DeleteMetrics`, `DeleteDisputed` | `kpi.py:114-116` | the deletes of the same flush, or their foreign key error |
| `InsertMetrics` | `kpi.py:118-129` | the flush of the new metrics and the refresh of the relationships |
| `CalculateAndAudit`, `RaiseTypeError` | `kpi.py:131-147` | the calculation and the audit entry, or the error of `salary_components` |
| `Notify`, `Commit` | `kpi.py:148-171` | sends, log rows, the commit and the answer |

A finalization is `GetMissing`, `GetApproved` or `GetInstance`, then `Approve`, `Notify` and
`Commit`. An approver who is the employee of the instance is in the session's identity map
already: then no statement flushes the approval before the message, and `Notify`
comes before the write (`own`). A dispute is `InsertDispute` or `RejectDispute`, `Notify`, `Commit`. `Abort` is any statement, connection or
process that fails: the transaction is rolled back and the messages that left stay sent.
`BreakDeadlock` is PostgreSQL's: a session in a cycle of lock waits is aborted.

Abstractions. Keys, periods and metric inputs are members of small sets. The fresh id of a row
is named by the request that inserts it, which inserts one at most. `metric_result` is a
function of the metric's input, so it is not kept as a column, and neither are the updates that only rewrite it. Totals are compared exactly; rounding is the matter of
`KpiEngine`. A formula that fails is an `Abort`. A `DELETE` of a row that is already gone
affects no row, and SQLAlchemy only warns. Permissions are checked before a request starts.

### KpiRaces and KpiSheets

Handlers interleave at every await, so what they promise one at a time does not hold of the
service. `KpiRaces` says what does. `raced` records the pairs of edits of one instance that were
under way at the same time, from the `SELECT` that gave each its row to its end: two
resubmissions (`{"create"}`), two finalizations, one of each, or two inserts of one key. It
steers nothing. Each property excepts the one pair that breaks it and is checked, and
proved, in all other schedules: under aborts, deadlocks, disputes, sends, the bot, and every
other overlap.

`KpiSheets` is the abstract specification to this: `Enter`, `Replace` and `Approve` act on a
whole sheet. `Overlap` marks the sheets on which a submission has overlapped with another edit,
which may never be approved sheets that were not marked before; `Overwrite` is what may happen
to a marked sheet, even after its approval: other metrics, and a total that fits none.

### BotWizard

`awaiting` is `KPI_WIZARD_STATE`; `update` what each update is; `pc` what its handler awaits.
`FindUser`, `FindRoles`, `Open` and `Prompt` are the press (`bot.py:57-79`), `TakeMessage`,
`IgnoreMessage`, `RefuseMessage`, `FindActor`, `Commit` and `ConfirmAndClose` the message
(`bot.py:82-143`). `Fail` is a query, an insert or an answer
that raises (`AnswerFails`), `Restart` a restart of the process, which forgets the wizards and
the running handlers. `standing` is what each user has in `users` and `user_roles`, and
`ChangeUser` an edit of it from outside at any moment, since the service has no operation that
changes them: the role that `FindRoles` has read may be gone when the message comes, which asks
for none, and the row that the press has found when `FindActor` looks for it. `Commit` needs the
row, to which the audit entry has a foreign key. `opened`, `seen`, `had` and `crossed` steer nothing: which presses
have opened a wizard, which of them had when a message found it open, what its user had in the
tables while an update was checked, and whose messages overlapped or lost their answer. No code of the
repository starts the dispatcher; the model is what its handlers do once it runs, each update in
a task of its own as aiogram's polling does (`Parallel` > 1) or one at a time.

### Reports

`sheet` is what the readers see of the tables, `link` and `audit` are `kpi_share_links` and the
entries of links in `kpi_history`; `rows[r]` and `inputs[r]` are the instances and metrics that
request `r` has loaded. `CreateLink`, `RejectLink` and `Refresh` are `create_share_link`;
`FindLink`, `RejectOpening`, `LoadRows`, `LoadMetrics` and `Commit` are `shared_view` and
`export_by_share_link`; an export or a listing is `LoadRows` and `LoadMetrics`, or
`RejectBatch`. `Write` is a submission or approval that commits meanwhile, any step of
`KpiSheets`, with the instances on which submissions have overlapped in `raced`. `known[r]` is what
had been shown as approved when `r` arrived; it steers nothing.

A link is named by the request that made it, and who opens one was told of it or mistypes it,
since a uuid is random. A creation with `expires_at` always fails (the audit entry holds a
datetime that JSON cannot encode), so no link of the model has an expiry, and the branches of
`kpi.py:254` and `273` that check one cannot be reached. Filters of the listing other than
month and employee and the layout of files are left out.

### Access and Reminders

`user` is the table of users with the roles of each, `grant` is `role_permissions`, `server` the
step of the process with the uncommitted writes of its bootstrap, `expiry` until when the last
tokens of each id are valid. `Start`, `BootGrants`, `BootAdmin` and `BootCommit` are the
lifespan with `bootstrap_security`; what `BootAdmin` writes are the columns that differ from
what it loaded, and the rows it has written are `Held` until it commits. `LoginKnown`,
`LoginUnknown`, `InsertUser`, `InsertTwice` and `Reload` are `telegram_auth`, `RefreshUser` is
`refresh_tokens`, `GetUser` and `CheckPermission` the dependencies of every handler. `Crash`
ends the process at any moment. The service has no operation that changes users, roles or
grants, so `Outside` is somebody who edits the database.

`since`, `lacked` and `meddled` steer nothing: when an id was last banned or deleted, which of
activity and permission a caller has lacked ever since its request arrived, and whether what a
start ensures has been changed since it began. A token is the time it expires; tokens are made
in the step that reads their user, as the few milliseconds between do not matter to lives of
minutes and days. Roles and permissions themselves are not deleted, and the super admin's row
is made by the service only.

In `Reminders`, `DateComes` starts the job if the process is up and else passes the date over,
since the jobs are in memory; `FindAdmins`, `ListUsers` and `SendAll` are its statements.

### Formulas and KpiEngine

A formula is a syntax tree: records with a `node` of `Name`, `Constant`, `BinOp`, `UnaryOp`,
`Call` or something else. `Visit` yields a decimal, a function (the name `min` alone is a
formula), a `FormulaValidationError` or another exception, and stops at the first error in
Python's order of evaluation. The formulas there are, with their parts, are given as `Trees` by
the depth of their nesting, so that recursion over a formula ends (`TreesAssumption`); all
formulas, the sets of every natural depth, are one such `Trees`. Decimals are exact fractions: `Decimal` keeps 28 digits, the
columns two or four, and the difference is far below a cent; the weights of a body, floats, are
added exactly. Left out: string constants, powers with anything but a natural constant as their
exponent, a number of digits for `round` that is itself the result of a call (the only way to
the `int` that Python asks for), and amounts too large for their column.

`CreateTemplate`, `CreateInstance` and `CreateInstanceFromBot` are whole handlers, since none of
them reads what another one changes. One template and its first instance are followed:
a later one is calculated from its own inputs only. `CreateOther` makes another template before
it, since a submission may name the metrics of any (`TemplateMetrics`): only the foreign key is
checked. `StoreInstance` calculates with the numbers as they were posted, and stores each in the
places of its column: `posted` and `submitted` are the bodies, `template`, `others` and
`instance` the tables.

## 3. The runs

| run | bounds | shows |
|---|---|---|
| `concurrent` | 3 requests of 4 kinds, 2 at a time, 1 key, 2 periods, 1 metric input or none, salary 0 or 5, any delivery | approvals are final, audited and as acknowledged; no row dangles; `notification_logs` is true and, for requests that succeed, complete; `KpiLifecycle` is implemented; the inductive invariant `IntegrityInv` holds |
| `races` | 3 requests of 4 kinds, all 3 at a time, 1 key, 2 periods, 1 metric input or none, salary 0 or 5 | every duplicate, stale total, mixture of metrics, change after an approval and false history is one known overlap; `KpiSheets` is implemented; the inductive invariant `RaceInv` holds |
| `liveness` | 3 API requests, 2 at a time | every request is answered, through lock waits and deadlocks |
| `wizard` | 3 updates of 2 users, 2 at a time, one change of users or roles, failing statements and answers, restarts | instances need an entitled press before the message; a second instance of one press has one of two causes; the inductive invariants `WizardInv` and `PressInv` hold |
| `engine` | about 9,000 formulas of up to two operators with plans 0 and 2; two metrics of weights 50.125, 49.875 and 100 with plans 0 and 3; another template of two metrics or none; bodies of up to three metrics of either, repeated or unknown, with facts and overtime results that lose places; 6 salaries | accepted formulas are never refused later; regular ones always have a value; the amounts as stored add up to within rounding; within the plan the shares of what was named are paid, and the maximum holds where that is the template's own, once each; the inductive invariant `EngineInv` holds |
| `reports` | 2 requests of any kind, 1 instance with a key of 2 employees and months, metrics or none, overlapping submissions | files show approved instances that were not raced as they are for good; links show what they name, are on record and keep their word; no reader steps back; the inductive invariant `ReportsInv` holds |
| `access` | 2 handlers serving any number of requests, 2 accounts, 3 user ids, 2 roles, 1 permission, 3 clock values, 2 edits from outside, any number of crashes and starts | a process that serves has its super admin; banned users lose their sessions; whoever is served was active and permitted; the inductive invariant `AccessInv` holds |

The bounds suffice for what they are for. Every conflict in the handlers is between two
sessions over one instance, and a third request makes the instance they compete for, or
commits between them. Two
metrics distinguish "the sum" from "each", and weights in eighths are exact in binary and are
changed by rounding to two places. Three updates are a press and two messages, or two presses
and the message of one of them, with another user to be mistaken for. Two readers are a maker
of a link and its user, or one who was shown an approval and one who comes later; every
property of `Reports` is of each instance on its own, and what is shown beyond a link is an
instance of another key, or one made later than the link. Two handlers are two log-ins of a missing super admin; two
edits are making a user and banning it, or deleting the super admin and restoring it by a
log-in; the clock passes twice the life of a refresh token. Requests and updates are alike, so the safety
runs use their symmetry. Each is served once (in `Access` they are
bounded by the clock and the edits instead, and handlers go on serving): `CHECK_DEADLOCK FALSE` is
there because the system of the model really ends when all have been.

### Fairness

`FairSpec` has weak fairness of each handler's own steps and of deadlock detection. The event
loop resumes a coroutine whose await has returned; the database answers or fails; PostgreSQL's
lock queue is first come first served and its detector aborts a session of each cycle. Nothing
is assumed of `Receive` or `Abort`. `AnyRequestAnswered` is stated of one request, which stands
for all since the specification treats them alike; no symmetry is used in that run.

## 4. Where the code and its documents part

Each of these runs checks one property that a document, a message or an assertion of the code
states, and TLC gives a behaviour of the model that violates it.

| run | property | what happens |
|---|---|---|
| `stale_resubmission` | `ApprovedImmutable` | a resubmission that loaded the row before the approval replaces the metrics and total of the approved instance |
| `race_duplicates` | `OneInstancePerKey` | two first submissions both insert, and later ones fail on the duplicate |
| `salary_refused` | `SalaryAccepted` | a body that names a salary field fails with a `TypeError` |
| `wizard_double_message` | `OneInstancePerPress` | two messages of a user handled at once make two instances |
| `reminders_fail` | `AllReminded` | the job raises on the first admin it has found, before it sends anything |

The properties of the passing runs hold under conditions that the code does not enforce.
Without them the same models show more of the same kind, for which no run is kept:

* once a metric is disputed, its instance cannot be resubmitted: the delete of its metrics fails
  on the foreign key of the dispute (`kpi.py:115`, `DeleteDisputed`);
* a message that was sent is not in `notification_logs` if its request fails later, which is why
  `SendLogTrue` asks for it only of requests that succeed (`kpi.py:161`);
* a remainder, or a power, passes validation at 1 and raises once a plan or fact is 0, which is
  why `RegularFormulasPay` excepts them (`kpi_engine.py:54`);
* a file of an instance that is not approved may mix the total of one submission with the
  metrics of the next (`kpi.py:312`); and of an approved one on which submissions have overlapped
  it shows the approval, and not what a later file will show (`ApprovedFileIsFinal`);
* a link with an expiry cannot be created (`kpi.py:232`);
* a user who is taken off the whitelist keeps the session by refreshing it (`auth.py:54`),
  though the whitelist is "enforced by `User.whitelist_enabled`" (`README.md:35`);
* a date on which the process is down is passed over, and a failed job is not repeated, though
  the reminders are called persistent (`README.md:19`);
* two resubmissions that overlap leave the metrics of both and a total that fits neither
  (`MetricsFromOneSubmission` and `TotalCurrent` except them), and of two finalizations that
  overlap the second records a state before the change that was not the state
  (`BeforeStateTrue`; `kpi.py:183-188`);
* the bot inserts a second instance for a key even when requests are served one at a time
  (`bot.py:113`), which is why `DuplicatesExplained` excepts it;
* when an answer fails, the wizard stays open after its instance was committed
  (`bot.py:132-143`), and the next message makes another (`crossed`);
* a message closes a wizard that was opened while it was entered (`bot.py:143`): that press is
  lost, in every schedule in which it comes then;
* a user who is demoted while the wizard is open still makes an instance, and so does one who is
  deleted and registered again: the message asks for the row and for no role (`bot.py:108-111`);
* a formula that raises something else than `FormulaValidationError` on trial, such as
  `round(fact_value, 2)`, is an internal error and not a 400 (`kpi.py:47`);
* nothing asks which template the metrics of a submission belong to, or how often each is named
  (`kpi.py:118-126`, `kpi_engine.py:118`). A metric named twice is paid twice, one of another template is
  paid too, and with either an employee within the plan is paid more than `max_total_amount`.
  `MaximumHolds` bounds these by the shares of what was named, and by the maximum only where
  `OwnMetricsOnce`;
* weights that make 100 as posted can make 100.01 as stored (`Slack`).

## 5. The proofs

All theorems are for every value of the constants that satisfies the assumption of the module
they are about. An invariant that a run checks is seldom inductive: what a commit does depends
on what its session gathered before. So each proof has an invariant that adds what the sessions
may hold at each statement, and one lemma for each action that keeps it. These invariants are
definitions of the modules they are about, and TLC checks them in the runs too.

### Approvals: `KpiInstancesProofs`

For any finite number of requests, any number served at a time (`ConstantsAssumption`):
`TypeCorrect` (`TypeOK`), `AuditOfApprovals` (`ApprovalAudited`), `ApprovalIsFinal`
(`ApprovalPermanent`) and `Refinement` (`ImplementsLifecycle`). They rest on `IInv`:

* `FreshIds`: a committed row belongs to a request that has ended, so no running request can
  insert over it, and its status is submitted or approved;
* `SessionInv`: a session works on a committed row or on its own, and of its own it writes
  every column;
* `CreateWrites`: a resubmission of a committed row never has `status` among its written
  columns. It loaded "submitted" and assigns "submitted", and a column that does not differ
  is not written. This is the whole reason why approvals survive stale resubmissions;
* `FinalizeWrites`: a finalization has written the status and its audit entry, or neither;
* `DisputeWrites` and `ControlInv`: a dispute writes no column, and each statement belongs to
  its handler.

`OwnStep` shows that a request's own step keeps what concerns it, `OtherStep` that another's
does, `AuditStep` and `FreshStep` treat the two global parts, and `LifecycleStep` maps every
step to `Submit`, `Approve` or a stutter of `KpiLifecycle`, from which `ApprovalIsFinal` follows.

### Answers, references and messages: `KpiInstancesProofs`

Under the same assumption: `AcknowledgedApprovals` (`AcknowledgedApprovalHolds`),
`NoDanglingRows` (`ReferentialIntegrity`) and `LogOfMessages` (`SendLogTrue`). `IntegrityInv`
adds to `IInv`:

* `ReferencesInv`: no dispute, committed or still in a session, names a metric that any
  session has deleted. This is what the row locks are for: without the key-share lock that the
  foreign key takes (`Referencers`), a resubmission deletes a metric while a dispute of it waits
  to commit;
* `WritesInv`: only submissions insert metrics, all of the instance they work on, and only
  disputes insert disputes;
* `SendsInv`: which messages of a request have left the process by when, and that its session
  holds the log of them from then until it ends;
* `AnswersInv`: who was answered has ended.

### Overlapping requests: `KpiRacesProofs`

For any requests and any number served at a time (`ConstantsAssumption`, and no other
hypothesis): `TotalsCurrent` (`TotalCurrent`), `MetricsReplaced` (`MetricsFromOneSubmission`),
`DuplicatesAccountedFor` (`DuplicatesExplained`), `ApprovedStaysUnchanged` (`ApprovedUnchanged`),
`HistoryTrue` (`BeforeStateTrue`) and `SheetsRefinement` (`ImplementsSheets`). They are about
`RSpec`, which is `Spec` with the observer: `ObserverSteersNothing` shows `RSpec => Spec`, so
the invariants of `KpiInstancesProofs` are at hand, and they are used.

`RaceInv` says, statement by statement, what a submission has loaded and will leave behind,
whatever the others do (`HoldingOf`), and what more it has if no other submission is at the
instance (`AloneOf`): what it has not written is what is committed; from its delete on it holds
exactly the old metrics as deleted, from its insert on exactly the new ones; and its total is
theirs once it is calculated. `InsertionOf` says of a row about to be inserted that those of
its key are the bot's or of submissions it has overlapped with, `FinalizationOf` that the status a
finalization has read stays the committed one. `OwnRaces` keeps these over a request's own
step. `OtherRaces` keeps them over another's: only the commit of a request changes the tables
(`Effects`), and one that touches this request's instance was an edit of it under way at the same time,
which the observer has seen (`OverlapSeen`). So `SheetsRefinement` maps a commit to `Enter`,
`Replace`, `EnterByBot`, `Approve` or `Overwrite` of `KpiSheets`, a step after which edits
overlap that did not before to `Overlap` (`RacesThaw`: the sheet is not frozen, for a submission
that finds it approved is refused), and every other to a stutter.

The total of a sheet is a sum over its inputs, that of an instance a sum over its metric rows.
Both are `MapThenSumSet`, a fold that chooses elements in an order of its own. `SumProofs` shows that
the order does not matter: `SumsExist`, `SumsUnique` and `SumsAnyOrder` prove that the recursion
defines exactly one function on the finite subsets of a set, and `SumsAlike` that a bijection
preserves the sum. The provers have no induction over data; the argument takes a least
counterexample instead (`LeastSubset`).

### The wizard: `BotWizardProofs`

For any users and updates, any number handled at once, answers that fail or do not, and any
number of changes of users and roles (`WizardAssumption`, and no other hypothesis): `TypeCorrect`
(`TypeOK`), `InstancesOfTheEntitled` (`CreatedByEntitled`) and `NoThirdWay`
(`ExtraInstancesExplained`).

The message handler asks for no role, and an open wizard may be that of a user who has none any
more. What `WizardInv` (theorem `Wizards`) carries from the press to the message is the past:
`had` has what a press was let in by (`PressOf`), a wizard is open only after such a press of its user, and
a message is taken only from an open wizard (`MessageOf`). A change of the tables in between does not
undo what was (`Noted`).

Counting instances and presses is not inductive, because an open wizard is good for one more
instance. `PressInv` (theorem `Presses`) counts it in (`Owed`), for users who were not crossed: the
instances of a user, and one more while a wizard is open that no message is about to close, are at
most as many as the presses, and while a message is entered the wizard is open and no other
message of the user is. A press adds one on both sides, a commit moves one from the wizard to
the instances, a press during a message adds to one side only, and a restart takes one away.

### Formulas: `KpiEngineProofs`

For any formulas of finite depth, weights, plans, facts and salaries (`TreesAssumption`,
`EngineAssumption`, which ask no more than that the numbers of a request are decimals, a
template has metrics, and the bounds that `schemas/kpi.py` checks, beside the two forms of
formulas that section 2 leaves out): `NeverRefusedLater` (`AcceptedIsNeverInvalid`),
`RegularAlwaysPay` (`RegularFormulasPay`), `EngineTypes` (`TypeOK`), `NothingLost`
(`StoredAmountsAddUp`) and `NoMoreThanTheMaximum` (`MaximumHolds`). `EngineInv` adds that each
formula of a template yielded a value on trial, that its weights were weighed, that both are
stored as they were posted, those of the other template too, and that a template has at most one instance. About the evaluator:

* `Visited`: the recursion of `Visit` defines a function. It is built depth by depth
  (`VisitsUpTo`), and the functions of different depths agree (`VisitsAgree`);
* `FromTheLeaves`: what holds of a node whenever it holds of its parts holds of every formula.
  This is induction over formulas, proved for sets from induction over depths, and that from a
  least counterexample (`SumProofs!NumbersFromZero`), since no prover here has either;
* `KeptByNode`: a node that yields a decimal or a function on trial yields the same kind, the
  same function, or an arithmetic exception in every other context of the five symbols. So a
  name, node, operator or call that would be refused has been refused on trial already
  (`NeverInvalid`);
* `RegularNodeYields`: a regular node yields a decimal if its operands and arguments do;
* `NodeTyped`: what a node yields is a decimal, a function or an error, if its parts do
  (`EvaluateTyped`).

About the amounts:

* `EngineTypes` needs that each result is a decimal and that what is stored of it has the
  places of its column (`DecimalProofs!PlacesOf`);
* `AmountsAddUp`: the total is rounded once, from the exact amounts, while each result and each
  overtime result is rounded for its own column, and so is the overtime amount. Each rounding
  moves an amount by half a cent at most, so the stored total is within `2 * Len + 2` half cents
  of the sum of what is stored. The salary part is a product that is not stored; its factors are,
  each half a cent from what was posted at most, and `SalaryNear` bounds what that does to the product
  (`SalarySlack`);
* `StoredWithinShares`: a metric whose fact is not above its plan pays its share at most
  (`ResultWithinShare`), whichever template it is of, so all that were named pay their shares;
* `NoMoreThanTheMaximum` follows the money from the check of the weights: the posted weights
  add up to 100 at most when rounded to two places (`kpi.py:40`), so to 100.005 at most
  exactly; each stored weight is half a hundredth above its own at most, so the shares of a template's
  maximum add up to it and `Slack` (`MetricsShare`); an instance that names each of its own metrics once
  is paid from different shares, a subset of them (`SelectionTotal`); and the stored total is half a
  cent above the results at most.

### Decimals: `DecimalProofs`

A decimal is a fraction in lowest terms, so that equal decimals are one pair, and the
evaluator's comparisons with zero mean what they say. `Gcd` is a recursive function:
`GcdExists` shows that Euclid's algorithm ends and defines it for all pairs, `GcdDivides` and
`GcdScales` that it divides both numbers and that a common factor comes out. With these a
fraction equals the quotient it was made from (`FracOf`), the operations yield decimals
(`Closed`, `RoundedClosed`, `TotalClosed`, `ProductOf`), and storing one yields as many
hundredths as its column keeps (`PlacesOf`) and moves it by half of one at most (`StoreNear`).

The provers do linear arithmetic, and comparing sums of fractions is not linear. So the bounds
are proved in *parts*: any number of decimals are whole numbers of the same small enough parts
(`CommonParts`), in which sums add and comparisons compare (`PartsOf`), whatever the
denominators were. `TotalOf` shows that a `Total` is the last of its partial sums, which is
what the statements about templates and instances of any length are proved from.

### Share links and exports: `ReportsProofs`

For any sheets, readers and links (`ReportsAssumption`), with the tables changing as `KpiSheets`
says, overlapping submissions included, which `KpiRaces` implements: `TypeCorrect` (`TypeOK`),
`ApprovedFiles` (`ApprovedFileIsFinal`), `OpeningsOnRecord`
(`OpenedOnRecord`), `ScopeKept` (`ShownWithinLink`), `LinkWord` (`LinkKeepsItsWord`) and
`MonotonicShows` (`NoStepBack`). `ReportsInv` adds:

* `FinalOf`: what a reader has loaded as approved is approved; unless submissions have
  overlapped on it, it was final when it was loaded, the row by the first statement and the
  metrics by the second; and what was known to be approved when the reader arrived still is. This rests
  on `KpiSheets`, in which nothing changes an approved sheet that is not raced, and none becomes raced;
* `TotalsCurrent`: the total of a sheet that is not raced is the worth of what it holds, so that
  a file's total is the sum of its metrics;
* `LinkOf` and `OpeningOf`: a link is committed with its entry, and the instance it names is
  there and stays; who opens one was told of it, and has loaded what it names;
* `ControlOf`: the statement a reader awaits belongs to its handler.

### Access: `AccessProofs`

For any accounts, ids, roles, permissions, default grants and handlers, any token lives of which
the access token's is not the longer, any number of edits (`AccessAssumption`): `TypeCorrect`
(`TypeOK`), `SuperAdminEnforced` (`SuperAdminInForce`), `SessionsEnd` (`BannedSessionsEnd`) and
`OnlyTheEntitledAreServed` (`ServedHadRights`). `AccessInv` adds:

* `BootRow` and `BootCovers`: a start about to commit either makes the only row of the super
  admin or holds the one there is, and has among its writes all that differs from the
  configuration, unless somebody meddled since it began. So the commit leaves nothing out;
* `TokensExpire`: no token outlives one refresh period from now, so those of a user who is
  banned now satisfy `BannedSessionsEnd`; and `IssueStep` shows that none are made for a banned
  user, for which `RequestOf` says that only the super admin's row is read again by a log-in;
* `CallOf`: what a caller has now it has not lacked all along, and one past its first check was
  active at it. `NoticeKeepsCalls` shows it of every change of users and grants.

There is one lemma per action or group of handlers; `GotoStep`, `IssueStep` and `ArriveStep`
are what the handlers have in common.

### What the proofs changed in the models

Some definitions could not be reasoned about as they were written. In `Reports!AfterRows` and
`Formulas!Apply` the arms of a `CASE` overlapped, and TLA+ leaves open which is taken where TLC takes
the first; they are disjoint now. A submission of `KpiInstances` could post any subset of
`MetricInput`, an infinite one too if the constant is infinite, of which there is no sum; a body is a finite list. The
evaluator and `Gcd` were `RECURSIVE` operators, which the provers cannot take, and are functions.
`Decimal` was any pair of a number and a denominator, of which 0/2 is a zero that the evaluator does not
take for one; it is the fractions in lowest terms now, those that `Frac` makes. What was said of formulas alone
is said of the numbers of a request too: they are decimals (`TreesAssumption`,
`EngineAssumption`). And `ReportsAssumption` needs `0 \in Salary`, since a body that names no
salary has the default 0.

## 6. Only model-checked

* Liveness (`AnyRequestAnswered`): fairness and `ENABLED` are out of the prover's reach. It is
  the only property of a passing run that no theorem states.
* The properties of section 4, which are false.

## 7. Not modelled

Modelled and proved, in this order: `KpiInstances` with `KpiLifecycle`,
`KpiRaces` with `KpiSheets`,
`BotWizard`, `Formulas` and `KpiEngine`, `Reports`, `Access`, `Reminders`. `Reminders` has no
theorem: its job does not touch the variables of `Access`, so what is proved of these holds
beside it by construction, and its one property is false (`reminders_fail`).

Left out for good: the rendering of exports (layout), signatures (cryptography), the user
directory (`users.py`: two reads of one statement each, which change nothing and relate to no
other request), `archive_old_kpis` (no caller), migrations and packaging, and the frontend,
which is a stub.
