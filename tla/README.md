# Formal models of CreditLens

TLA+ models of the parts of CreditLens in which several actors change shared
state, or in which work goes on that may be interrupted, repeated or done on things
that have changed: a credit review run and its human review, the calls of its tools,
the delivery of telemetry, audited question answering, the ingestion of documents
into the search index, the preparation of the demonstration, and the evaluation of
answers by people and by a suite of processes. TLC checks the models on small
instances; TLAPS proves their safety properties for every value of the constants, and
leaves liveness to TLC.

Every model is written from the source. An action is one committed transaction, or one
call that leaves the process (a model call, an export); what happens between two commits
of one session is seen by nobody else and is part of the action (`IndexPipeline` and
`DemoBootstrap` keep what a session has not committed, because there an effect outside
the database precedes the commit; an action of `ToolGateway` goes from one await to the
next; one of `EntailmentReview` is a command of the command line, one of `AnswerSuite` a
read or write of a file). The comments of the modules use the names of the code.

## 1. The system

CreditLens prepares credit reviews. An API process serves requests, runs reviews
and the telemetry worker as tasks of its event loop, and keeps all durable state
in PostgreSQL; documents are in an object store and their vectors in Qdrant.

| Part | State it keeps | Operations | What is hard | What makes it correct |
|---|---|---|---|---|
| Full review run (`agents/supervisor.py`, `apps/api/main.py`) | `review_runs` (status, state_version, completed_at, degraded agents), artifacts, claims, `run_events`, reports | the stages of the Supervisor, each committed; the background task and the marking of its failure | exceptions, cancellation and process death between any two commits; critical and non-critical agents | nothing is released past a gate; failures are disclosed; the trace explains the status; a stopped run is not disturbed |
| Human review (`resume_after_human_review`, decision endpoint) | `human_decisions`, claims, the run row | load, decide, replay, refuse | reviewers race, requests are resent, the ORM holds an old copy of the row | a verdict has one decision; one decision per version; a decision answered is stored |
| Invocation ledger (`observability/writer.py`) | `invocation_records`, `telemetry_outbox` | record, replay of the same id | a row per call, whatever happens to the caller | ledger and outbox rows are one transaction |
| Telemetry outbox worker (`observability/outbox_worker.py`) | `telemetry_outbox` (status, attempts, lease) | claim, export, acknowledge, fail, reclaim, abandon | leases expire under a live owner, exports outlive their task, clocks differ | one owner per attempt; no false acknowledgement; no early giving up; every row settles |
| Question answering (`application/qa_service.py`) | `review_runs` by idempotency key, the answer artifact, events, the manifest of model calls | reserve, execute, repair, complete, replay, fail, cancel | racing and resent requests, cancellation at any await, a lost commit answer, a ledger in other sessions | one executor; replies stand; calls are bounded and accounted for; runs end |
| Event stream (`/runs/{id}/events`) | a cursor per connection | poll, stop | events and status are two reads | no event is skipped before DONE |
| Tool gateway (`tools/gateway.py`) | calls per task, allow lists | invoke | concurrent calls, failing sinks | budget, one terminal record per call |
| Ingestion and indexing (`ingestion/`) | document versions, parse runs, sections, `index_outbox`, vectors | upload, ingest, process a batch, activate, reconcile | two loads of one version, rollbacks after the index was written, entries that are given up | a reader is never led to a run that is not fully indexed; one active run; one run per configuration |
| Snapshots (`application/snapshot_service.py`) | snapshot rows | freeze, load | facts superseded later | a run reads what was frozen |
| Evidence auditor, retrieval, formulas, agents | none | pure functions over rows and model output | boundaries of rules | rules of their own |
| Demonstration (`scripts/bootstrap_demo.py`, `demo_bootstrap.py`, `seed_synthetic_data.py`) | cases, versions, outbox rows, facts, points, raw objects | seed, repair, add facts, inspect | preparations run twice, beside each other, and after one that failed half way | what was prepared once is found ready again, and stays so |
| Entailment review (`evaluation/semantic_entailment.py`, its scripts) | packages, mappings, worksheets, submissions, a report | build, compile, adjudicate, score | files rebuilt after others were derived from them, pairs written by half, people in two roles | a complete report was judged by the people, in the order and of the source it names |
| Answer suite (`run_v16_answer_reevaluation.py`, `generate_answer_predictions.py`) | predictions, scoring data set, report, the record of the run | smoke stage, full stage | sources and settings edited meanwhile, answers replayed, files replaced, interrupts | a summary is of the predictions, sources and data the record names |
| Agent ablation, failure cases, recall, user interface | files | sequential, pure | none of these | reproducible results |

`PROJECT.json` lists every component with its status and every hazard with its
line and the properties that are about it.

## 2. Modules

    ReviewGate                        promise of a full review
      ^ implemented by
    ReviewRun --EXTENDS--> HumanReview --> MCHumanReview
                                      \--> HumanReviewProofs
    DeliveryIntent                    promise of the outbox
      ^ implemented by
    TelemetryOutbox --> MCTelemetryOutbox, TelemetryProofs
    IdempotentAnswer                  promise of an idempotency key
      ^ implemented by
    GroundedQA --> MCGroundedQA, GroundedQAProofs
    PublishedIndex                    promise to readers of a document version
      ^ implemented by
    IndexPipeline --> MCIndexPipeline, IndexProofs
    ToolGateway --> MCToolGateway, ToolGatewayProofs
    DemoBootstrap --> MCDemoBootstrap, BootstrapProofs
    EntailmentReview --> MCEntailmentReview, EntailmentReviewProofs
    AnswerSuite --> MCAnswerSuite, AnswerSuiteProofs

### ReviewRun and HumanReview

`ReviewRun` has one action per stage of `Supervisor._execute_with_event_writer`
and per outcome of a stage, and the states of the task that runs it
(`task`): `TaskRaises` and `TaskCancelled` are the two handlers of
`_execute_review_background`, `MarkAfterException` and `MarkAfterCancellation`
what they do to the row, `MarkLost` a marking that fails, `ProcessDies` the end of
the process. An artifact is its execution status, a claim its review status.
"OK" stands for every status that is neither DEGRADED nor FAILED (SUCCESS,
PARTIAL, INSUFFICIENT_EVIDENCE), which the Supervisor treats alike.

`HumanReview` composes the run with reviewers. A request is built from what a
client saw (`Compose`), may be resent (`Resend`), and is decided in one
transaction under the lock of the row (`Duplicate`, `Refuse`, `Decide`). Reviewers
in `ApiReviewers` come through the endpoint, which has loaded the row before
(`Load`): the service then decides from that copy, because `SELECT ... FOR UPDATE`
does not refresh an object the session already holds. The others open a fresh
session, as the service's own tests do.

`ReviewGate` is the promise: a report is published once, when the run is
released, with no claim open; claims waiting for humans only get fewer; released
and stopped runs do not change.

### TelemetryOutbox

One action per transaction of `TelemetryOutboxWorker` and per export. A worker
holds a batch of claims, each with the attempt it was claimed under, and
`_owns_claim` compares that attempt with the row. Time is a counter that ticks;
each worker reads it with its own skew. `outside` counts what the destination has
received, also from threads whose task was cancelled (`LateExport`).
`DeliveryIntent` is the promise: pending until delivered or given up, then final,
and delivered only if received.

### GroundedQA

A caller is a request being served; a client may send any request under any key at any
time. `pc` is the await the caller is at. The run's row, events, answer and manifest are
`status`, `trace`, `answer`, `manifest`; `ledger` is what `InvocationWriter` stored in
sessions of its own. Model calls are numbered per run. A run of a process without a
model answers with an extract of the context (`DraftAlone`), if the setting allows it,
which the output checks may reject (`QuoteRejected`); it is the same each time, so a
repair brings nothing new. `Fail` is every exception not modelled otherwise, including
the loss of the answer to a commit that was made ("replying"). `Cancel` is the covered
cancellation, `CancelUncovered` the two awaits no handler covers. `IdempotentAnswer` is
the promise of a key: bound to one request, settled once, and nobody is told anything
else.

### IndexPipeline

One document version, and the sessions that work on its index. A session is a
database transaction and the program text that drives it. A *loader* does what
`_ingest_corpus` does in its one `session_scope`: `Start`, `LookForRun`, `NumberRun`,
`InsertRun` and `Parse` are `IngestionPipeline.ingest`, `Claim`, `Index`, `IndexFails`
and `StopDraining` its loop over `process_batch` and `count_pending`, `Activate` is
`activate_parse_run_if_complete`. A *worker* is a session that processes one batch.
`Commit` ends both; an error or the end of the process is `Rollback`.

`runs`, `entries` and `version` are the committed rows of `parse_runs`,
`index_outbox` and `document_versions`. What a session has written is in `mine`,
`plan` and `demoted` until it commits, and `View` is what it sees of the outbox. A
row in `mine` is locked, and `Claim` skips rows others have locked (`SKIP LOCKED`).
The transactions are READ COMMITTED: each action reads what is committed then.
`points` is the vector index, which no rollback touches. SQLAlchemy writes an
attribute only if it differs from what was loaded, so `loaded` and
`ActivationWrites` say which columns a commit writes; the session keeps its objects
by weak reference, so `Activate` reads the version and the old run anew.

Which of the due rows a batch takes first is left open, and a row in backoff may or
may not be due. SUCCEEDED stands for SUCCEEDED_WITH_WARNINGS too, which the code
treats alike; QUEUED, RUNNING and FAILED runs are never committed. A run has a fresh
random id (`Unused`). `PublishedIndex` is the promise: the runs that can be searched
in full only grow, only such a run becomes active, and a snapshot keeps the run it
took.

### ToolGateway

The calls of agents, across all runs that share a gateway. `Invoke` is
`ToolGateway.invoke` up to its first await: the attempt is counted and the allow list
consulted before the tool is. `ToolEnds` goes from the end of the tool to the hand-over
of its terminal record, `SinkAnswers` and `SinkTimesOut` are the writer of production,
which commits in a task of its own, `SinkCancelled` and `DrainEnds` what a cancellation
does to the caller that waits for it: the write goes on, and the caller waits for it a
bounded time only. A run whose session cannot hold a ledger writes events instead.
`EndStage` is the Supervisor at the end of a stage. If the agent returned an artifact, a
lost record of the stage ends the run, also one whose error the agent caught. If the
agent raised, a lost record that it let out ends the run, and any other error fails a
critical stage and degrades another; the calls of that stage are not looked at
(`supervisor.py:333-361`), and the cursor of the next stage is behind them. An agent
that catches the errors of its calls may raise one of its own (`risk_agent.py:157`).
`WhatIsUsedIsRecorded` is therefore about the results agents are given and the artifacts
that are taken, not about every stage that is passed. An envelope is present or absent,
results and fingerprints are left out, and so are repeated calls under one invocation id
(the identity conflict of the writer).

### DemoBootstrap

A process of `scripts/bootstrap_demo.py` goes through the two gates, the seed, the
facts and the inspection; `mine` is what its one transaction of the seed has written,
`View` what it sees, `points` and `objects` the stores no rollback touches. `Reconcile`,
`Upsert` and `Verify` are the repair of an index (`_repair_existing_index`): rows for
the items whose point is not the manifest's, the worker, and the comparison afterwards.
A row another session holds is skipped (`Locked`), the insert of the roots waits for the
other session that inserts them, and the advisory lock of the facts makes others wait.
A point is the set of cases whose borrowers its payload names: an asset two cases share
is first indexed for one and must be indexed again for both. Collections and aliases
are reduced to the points, and the inspection reads the database at once, the other
stores each at once. A row that was given up, or waits, beside a completed one of the
same point is accepted by the seed and refused by the inspection
(`demo_bootstrap.py`, the count of rows that are not COMPLETED): nothing in the code
clears such a row, and a preparation that starts with one does not end ready. That is
what `Undisturbed` leaves out of `RepeatedPrepareIsReady`. `ReadyStays` counts every
report that says ready, of `--check-only` and of a preparation beside which writes
failed too, but for one that something was lost under: the database is inspected first
and each store at its own moment, so what was found may be gone when the report is
made. `intact` holds the processes since whose look at the database nothing was lost.

### EntailmentReview

No process lives between two commands, so the state is the files. A command reads what
it needs, checks it, and writes one file, or a package and then its mapping, between
which it may stop (`PairFails`, `PairKilled`: the new package beside the old mapping). A hash
is the document it is of. `now` is the clock people write down; a command given the
wrong time, or made to overwrite, is a slip, of which `MaxSlips` happen. The report has
the statuses, the counts and the chance-corrected agreement of each claim, computed as
the code computes them (`kappa` as a fraction).

### AnswerSuite

The suite (`pc`, `stage`, `run`, `held`) awaits one child at a time, the generator or
the scorer (`child`). The action of a child is a read or a write: the generator reads
its questions, captures the sources, asks one question after another under a key of
its own, and only then opens the expected answers; the suite reads the predictions,
hashes the files, binds, scores, verifies, hashes again and confirms the score. Between
any two of these someone may edit sources, data sets or settings (`Edit`), start the
generator by hand (`AskElsewhere`) or put a file of another run in its place
(`Replace`). Metrics are a function of data set and predictions (`Score`), a hash is
the content. An edit makes a version that was not there before: one that is undone
before the next verification leaves the same hash, and the docstring of
`source_state.py` claims no less than that nothing changed *during* the run. The
interpreter has loaded code and prompts before the sources are captured. The predictions
are parsed and hashed in two reads, so the recorded hash may be that of a file put in
place in between, with the same score; `SummaryIsOfItsOwn` is therefore about the
predictions the suite holds. A question that fails, or whose citations cannot be
mapped, is a technical failure and never counted as a replay.

A failure is recorded in a step of its own (`RecordFailure`), after the one that finds
it. An interrupt is caught and recorded where the suite awaits a process or validates
its results (`Recorded`), and nowhere else: one that comes between the record of RUNNING
and the `try` around the generator (:448-450), in the branches of a nonzero return code
(:497, :681) or in a handler ends the suite with the record as it stands, which may say
RUNNING. `left` is where that happened. Interrupts arrive at calls, so none falls
between the end of one `try` and the beginning of the next; all the calls and writes of
one step are taken to be before or after it. A killed suite leaves its child running.
Plans without execution and the refusal of the full stage alone change nothing and are
not actions.

## 3. Runs

| Run | Question | Instance | Result |
|---|---|---|---|
| `review_service` | do racing reviewers with resent requests keep the gate, the versions and the verdicts? | 2 reviewers in fresh sessions, 2 keys, 2 claims, any request a client can build | holds |
| `review_api` | what remains true through the endpoint, with its old copies and its role check? | 2 reviewers through the API, one of them an approver, 2 keys, 1 claim, cancellation | holds |
| `supervisor` | does every path of the Supervisor and its task stop, disclose and leave a trace? | every outcome of every agent, all faults, 1 reviewer, 2 claims | holds |
| `api_optimistic_lock` | two decisions on one version through the API | | violated |
| `telemetry` | do two workers keep every row's promise, and does every row settle? | 2 invocations, 2 workers, clocks 1 apart, 2 attempts, leases of 1, batches of 2, fair workers | holds |
| `qa_two_callers` | is the promise of a key kept, is every call accounted for, does every run end and every request get its answer? | 2 callers, 1 key, 2 requests, 1 repair, fair event loop | holds |
| `index_sequential` | with one loader at a time beside a worker, is there one active run, and is it indexed? | 2 configurations, 3 loads, 2 runs, 1 section and 1 summary, 2 attempts, 1 crash | holds |
| `index_concurrent` | what are readers still promised when two loads of a version overlap, and does a session wait or retry for ever? | 2 loaders, 1 worker, 2 configurations, 1 section, 2 attempts, 1 crash, fair sessions | holds |
| `tool_gateway` | do budgets, records and audit failures stay with their run, and does a cancelled run stop? | 2 runs of 2 stages, 2 calls and 1, 1 attempt per task, 1 lost record, 1 cancellation, 2 kinds of sink | holds |
| `demo_bootstrap` | is an undisturbed preparation ready, does ready stay so, does every process end? | 2 processes, 2 starts, 1 asset of 2 cases, 1 section and 1 summary, 2 attempts, 2 mishaps | holds |
| `entailment` | was a complete report judged as it says, of one source, in order, and do its figures add up? | 3 people, 2 slots, 2 claims, 2 runs, 2 hours, 3 ways to fill a worksheet, 1 slip | holds |
| `answer_suite` | is a summary of what its record names, whatever is edited, replayed, replaced or interrupted? | 1 smoke question of 2, 2 settings, 2 edits, 2 faults | holds |

**Bounds.** Two of each actor are enough for the races of the code, which are all
between two transactions on one row; the second key gives a reviewer a decision
that is not a replay. Reviewer runs are kept to Supervisor runs without failing
agents (`PlainRun`) because the agents do not run during the review; `supervisor`
has all of them. Two attempts give a row of the outbox a first claim and a reclaim that
is its last; clocks one tick apart with a lease of one make a live owner lose its row.
One repair gives rounds of two calls, so that a repair of the output happens within a
repair of the audit. One key is enough for
everything within a run, as keys share no state; the theorems about keys are for any
number of them. In the index runs two loaders are enough because every race of the code
is between two sessions; `MaxLoads` and `MaxCrashes` bound how often one is started or
dies, one section beside one summary shows that activation waits for the one and not
the other, and two attempts let an entry fail, be retried and be given up. Runs
and configurations are interchangeable, which `index_sequential` uses as
symmetry; `index_concurrent` checks liveness and does not. In the gateway one attempt
per task and two calls at once make the second wait for nothing but the budget. One
asset shared by two cases is what makes a point right for one preparation and stale for
the next; two starts are one preparation after or beside another, and two mishaps let
one fail, and the next find what it left. Two of three people review and the third
adjudicates, or somebody does both; one slip is one file rebuilt, half written, or
wrongly dated. Two edits let the sources and the settings differ at two places of one
run, two faults let a replaced file meet another failure. `MaxCallsOf`, `MaxLost`,
`MaxCancels`, `MaxStarts`, `MaxMishaps`, `MaxSlips`, `MaxEdits` and `MaxFaults` are
these bounds. No other counter is cut short: those models are finite. No theorem rests on
a bound: the proofs take each as any number.

`CHECK_DEADLOCK FALSE` stands where the system really stops: a run that has
stopped and reviewers without a key left, an outbox with nothing due, every
caller gone, all loads, runs, starts or commands done. `EntailmentReview` and
`AnswerSuite` state safety only: people and faults are never obliged to act, and what a
suite waits for is a child without a limit of time.

**Fairness.** The event loop runs every task that is ready, so the task of a
review and its marking (`WF` of `Supervise` and `Mark`), a caller's next step
(`WF` of `Serve(c)`) and a worker's next step (`WF` of `Work(w)`) are taken. So are the
steps of a load that was started and of a batch that was claimed (`WF` of
`Load(s) \/ Drain(s)`, and of `Drain(s)` for a worker that is not idle). In the gateway
an answer, a limit of time or a cancellation comes for every call that waits for one
(`WF` of `Progress(i)`: a tool is only assumed to end when its run is cancelled), and
the Supervisor goes on when the calls of a stage have ended (`WF` of `EndStage(r)`). A
process of the bootstrap takes its next step (`WF` of `Proceed(p)`), where a row that
waits for its next attempt is never assumed to become due (`Retry`). Time passes
(`WF` of `Tick`). Clients, faults, cancellations and deaths are never
obliged to happen, and nothing is assumed strongly fair.

**Disagreements.** The models show behaviour that differs from what the repository
says of itself. The first is a run of its own.

1. `api_optimistic_lock`: two decisions are accepted on one version when both came
   through the endpoint, because `session.get` (`apps/api/main.py:1006`) put the row
   in the session before the lock.
2. A caller cancelled while its run is being marked after an error
   (`application/qa_service.py:306`, an await that is not shielded) leaves the run in
   RETRIEVING or GENERATING, against the comment at :288-290. `RunsEnd` excepts it.
3. Two activations that overlap each supersede the run they read
   (`ingestion/pipeline.py:248`), and both new runs stay ACTIVE, against the docstring
   at :225-226; the version names one. `OneActiveRun` is therefore checked, and proved,
   for one loader.
4. `_raise_if_invocation_audit_failed` is to "detect agents that caught a fail-closed
   Gateway exception internally" (`agents/supervisor.py:551`). It is not asked about an
   agent that caught one and then raised an error of its own: such a stage is degraded,
   or, if it is critical, fails the run like any other error (:333-361, and :377-397 for
   the challenger), and the lost record is not looked for again. In `ToolGateway` this is
   the branch of `EndStage` that advances with the artifacts as they were.

In the repository only `scripts/seed_synthetic_data.py` and the tests drive the
pipeline, one load after another: 3 says what its functions do when loads overlap, and
`OneActive` below that they do not do it otherwise. Likewise two loads that overlap may
create two runs of one configuration: the lookup of a reusable run and the insert are
two statements, and no key covers the configuration.

## 4. Proofs

The theorems hold for every value of the constants. Their assumptions are the named
ones of the modules: API reviewers and approvers are reviewers, `NoRequest`, `NoRow`,
`NoClaim`, `None` and the like are not requests, rows or claims, limits are natural
numbers, the sets that are counted are finite, and the smoke stage is not empty nor
longer than the full one. Two say more. `BootstrapAssumption`: every asset is seeded for
some case and gone over at the end, and has sections and summaries. `ManifestAssumption`:
a section or summary belongs to one asset, and no asset is listed more than twice in the
corpora; both are so in `evaluation/datasets/demo_asset_manifest_v1.json`. TLC evaluates
all of them in every run. Three theorems, about versions, traces and the promise of
`ReviewGate`, assume in addition what `api_optimistic_lock` shows to be needed: that no
decision is made from the copy of the row that the API endpoint has loaded before the
lock (`ApiReviewers = {}`).

*`HumanReviewProofs`*
- `TypeCorrect`: the type invariant of the run and its reviewers.
- `RunsPassTheGate`, `PublishedReportsStayTrue`, `ImpairmentIsDisclosed`: none of
  the three is inductive. `ReleaseInv` adds what each stage has established by the
  time it is reached: after EXECUTING both critical agents have an artifact that is
  not FAILED, after AUDITING the trace has AUDIT_COMPLETED and a published report
  lists what is publishable now, the manifest names exactly the impaired producers,
  and a loaded copy is of a run that is past the audit. The last part carries the
  gate through decisions made from old copies: the theorems hold for the API too.
- `AnswersStayTrue`: a stored decision is never replaced (`AnswersInv`).
- `OptimisticLocking`: with no reviewer on the API path, every stored decision
  expects a version below the present one (`ConsumedInv`), so no two expect the
  same.
- `VerdictsAreSingle`: a claim that still blocks the report has no stored ruling, and
  only such a claim may be ruled on (`VerdictInv`, which also says that nothing is
  decided before a run waits for humans). Holds for the API too: the claims are read
  under the lock.
- `TraceIsAChain`: a property of sequences, by lemmas on what appending notes and one
  move to a trace does to the status it leads to (`AppendLeads`, `AppendExplains`,
  `EventsExplain`); no induction over the sequence is needed, as `LeadsTo` names the last
  event that moved the run.
- `ReviewKeepsGate`: the refinement of `ReviewGate`. `GateInv` adds to `ReleaseInv` that a
  report exists only in a completed run, which is what an old copy breaks: a decision
  made from one reopens a released run. Every stage is then Work, Park, Release or Stop
  of the gate, a decision Settle, Release or a stutter.
- `ReviewIsNotDiscarded`: no step of the run, its faults or its marking takes a run that
  waits for humans to FAILED.

`TelemetryProofs`
- `OutboxInv` says that a claim in a worker's batch never has a later attempt than
  its row, and has that very attempt only while the row is PROCESSING for that
  worker. From it follow `OutboxTypeCorrect`, `AttemptsHaveOneOwner`,
  `NoFalseAcknowledgement`, `NoEarlyGivingUp`, `SettledForGood`, `LatestClaimSettles`
  and the refinement `OutboxKeepsIntent`.

*`GroundedQAProofs`* proves, for any sets of callers, keys and requests and any
`MaxRepairs`, that `TypeOK`, `OneExecutor` and `RepliesStand` are invariants and that
the service implements `IdempotentAnswer` (`KeepsPromise`). `CoreInv` strengthens the
first two with what is stored of a run (`RunInv`: an answer exactly when it completed,
one failure, its last event, exactly when it failed) and where its executor is
(`PlaceInv`: a place tells the status of the run and what the caller has in memory).
`OneExecutor` alone is not inductive: the insert must find nobody holding an absent
key, and a marking must find a run that has not failed. The lemma `StepAlone` says
that a step touches one caller and one run, so each action is checked on its own run
only; `EndedStays`, that a run that has ended never changes, carries `RepliesStand`.
The refinement then needs no case per action: a step that changes the outcome of a
run found it open, so it settles it.

The same module proves `CallsAccounted` and `CallsBounded` for any `MaxRepairs`. The
invariant `CallInv` says that an executor has named exactly the calls made so far
(one less while the last one is being recorded) and has counted a repair for every
call but one: at most `repairs * (MaxRepairs + 1) + retries` calls when the next one
is about to be made. `TraceTellsStatus` adds to `CoreInv` that every trace explains the
status of its run (`Chained`): each action appends one entry that starts at the status, or
leaves the run alone.

*`IndexProofs`* proves, for any sessions, runs, sections and bounds, that `TypeOK`,
`FrozenRunsAreIndexed` and `EntriesHaveOneHolder` are invariants and that the pipeline
implements `PublishedIndex`. A frozen run is indexed because it was complete when it was
activated, in a session that may since have been overtaken. `IInv` therefore relates
three places: a completed entry has its point, committed or not (`EntryInv`); every
section of a committed run has an entry (`RunInv`); a session holds only committed
entries, or those of the run it created and no one else knows of (`HoldInv`), and once
it means to activate a run all of that run's sections have their points (`LoadInv`).
The lemma `OthersKeep` says that nothing a session relies on is taken back (`Grows`),
so a step is checked on its own session. `OneActive` proves `OneActiveRun` under the
assumption that there is one loader: its decision is then still right when it commits
(`OneInv`).

*`ToolGatewayProofs`* proves `BudgetKept`, `WhatIsUsedIsRecorded` and `AuditFailuresAreOwn`
for any runs, stages, sinks and overlapping calls. `GatewayInv` has one part about a call
alone (`CallInv`: it waits for a writer only if there is one, and an outcome an agent may
build on is committed), one about its place (`PlaceInv`: calls under way belong to the
current stage, whose calls are those after the cursor of the run, and the calls of a stage
whose artifact was taken are recorded), one that the artifacts are of earlier stages
(`Behind`), and the budget, counted over the attempts. `PlaceInv` is what makes the check
of a returned artifact enough: it looks at the calls after the cursor, which are all the
calls of the stage. `ChangeKeeps` proves once what every step on one call must keep.

*`AnswerSuiteProofs`* proves the four properties of the suite for stages of any length and
any number of edits and faults. Versions only grow, and `Earlier` orders them; the
invariant follows one generation: the versions it saw, in the order it saw them
(`GenerationInv`), what the suite read of its file (`HeldInv`), and what it has checked by
the time it scores (`BoundInv`). A version that is the same at both ends of an interval
was the same all through it: that is how a check at the end covers all the questions
asked before it. `ControlInv` relates where the suite is, its child and its record, and
`EndInv` says what the record tells of an end or, while a failure is being recorded, is
about to tell; the two give `EndIsRecorded`.

*`EntailmentReviewProofs`* proves all five properties of the entailment review. `DiskInv`
says what the files between two commands have in common whatever was rebuilt: their
types, the mapping a half-written package waits for, and that a submission is not older
than its worksheet. It says nothing of two files belonging together, because they need
not: that is established anew by the verification in `Score`, and each property of the
report follows from what `Score` verified, not from how the files came about. The counts
are sizes of sets (`Ratings` is the set of ratings received), so that `BooksBalance` is an
argument about disjoint sets, with `NoMoreSubmissions` an injection of submissions into
packages, and the chance-corrected agreement an inequality over the counts of two people
(`ExpectedIsBounded`).

*`BootstrapProofs`* proves the two invariants of the demonstration for any cases, assets,
processes and orders of the corpora. `ReadyIsKept` needs little: the holder of the
advisory lock has looked at the facts and nobody has changed them since (`LockInv`), and
what an inspection has seen holds while it goes on (`InspectInv`); no seed takes anything
back, and a point that is rewritten for an asset whose cases are all bound gets the
payload of the manifest. `PreparedIsReady` needs what a seed has done at each of its
steps:
- `RootsInv`: the seed is committed whole or not at all, and a process that seeds an
  empty database is the only one that seeds. Without it a second seed could complete
  what the first has half done.
- `StepInv`: at step n the assets of the steps before are bound, stored and, in the final
  round, active; an asset is repaired only when all its cases are bound, so the payload
  the worker writes is the one that is compared. `ManifestAssumption` is needed here: the
  first listing of an asset ingests it and the second reconciles it; with a third, the
  comparison after the second would find the payload of two cases where the manifest has
  three.
- `FreshInv`: a row nobody has tried is its writer's own, and gone at the next step.
- `QuietInv` and `CalmInv`: as long as nothing disturbs the preparation, no row waits or
  was given up, what is stored is active, what is repaired is right or about to be
  written, and what it has gone over is right and stays so beside other preparations.

New numbers of rows are taken from a finite set (`NewRowIsNew`), so the invariant needs no
bound on how often a preparation is started.

The type invariants of telemetry, question answering and indexing and the invariants
`OneOwner`, `DeliveredWasReceived`, `NeverGivenUpEarly`, `SettledStays`, `OneExecutor`,
`RepliesStand` and `CallsBounded` are no part of a run: what is proved holds for every
instance, and the runs ask what is beyond it.

**Only model-checked.** Liveness under fairness, which is beyond the prover: `RunStops`,
`EventuallySettled`, `RunsEnd`, `RequestsAnswered`, `SessionsEnd`, `CancelledRunsStop`,
`BootstrapEnds`. Every other property of a passing run is stated by a theorem. What the
theorems leave out: `TraceExplainsStatus` and `KeepsGate` of a review with decisions through
the API (the runs that check them have none either, and `api_optimistic_lock` shows why),
and `OneActiveRun` with two loaders.

## 5. Not modelled

- Authentication, row level security and migrations; the text of prompts, answers and
  reports; retries inside a model provider.
- The rules of the auditor, retrieval and formulas, the metrics of answers, the agent
  ablation and the failure cases: pure functions, of which the models take any outcome.
- Question answering: runs stored by earlier versions, the hash check of a replayed
  payload. Invocations: a second call under one id, and the redaction of envelopes.
- Ingestion: uploads (but for the object `DemoBootstrap` stores), identities derived
  from a key instead of random ones, tombstones (nothing enqueues one), the reconciler.
- Bootstrap: databases of the first format, whose identities are not the frozen ones
  (the seed raises on them, `seed_synthetic_data.py:271`), collections and aliases of the
  vector index.
- The event stream of a run, snapshots of facts, the acceptance run of the
  demonstration and its user interface.

## 6. Plan

1. Full review: `ReviewRun`, `HumanReview`, `ReviewGate`, proofs. Done.
2. Telemetry: `TelemetryOutbox`, `DeliveryIntent`, proofs. Done.
3. Question answering: `GroundedQA`, `IdempotentAnswer`, proofs. Done.
4. Ingestion and indexing: `IndexPipeline`, `PublishedIndex`, proofs. Done; uploads
   and the reconciler remain.
5. `ToolGateway`, `DemoBootstrap`, `EntailmentReview`, `AnswerSuite`, proofs. Done.
6. What remains for proofs: with the endpoint, which decisions may still share a version,
   and what holds of a run reopened by one; promises of their own for the gateway and the
   suite, stated as abstract specifications.
7. `EventStream` beside `ReviewRun`: a client that reconnects sees every event once
   and in order, and DONE only after the last one.
8. `SnapshotFacts`: a run reads what was frozen, whatever is superseded later.
9. Pure algorithms against reference definitions: rank fusion, context packing,
   formula evaluation, audit rules, answer metrics.
