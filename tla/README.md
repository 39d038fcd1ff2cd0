# Atoms platform: TLA+ verification project

Atoms turns a prompt into an application. A person starts a *run* through the
Control API, a worker drives a fixed graph of agents over it, people pause,
resume and approve it, sweepers expire it, a sandbox validates and previews the
result, and a generated database is provisioned for it. Several processes share
rows in PostgreSQL, jobs in Redis, objects in a store and projects at providers;
nobody holds a lock across two steps, and almost every promise of the system
rests on one idea: a version on the row, compared by every write. This project
models that core and the parts around it, model-checks them with TLC on small
instances, and proves the safety properties of most parts with TLAPS for every
instance.

## 1. Inventory

| Part | Source | State | Operations | Hard because |
|---|---|---|---|---|
| Run control | `apps/control-api/src/{app,repository,run-queue}.ts` | `agent_runs` | create, pause, resume, approve, cancel, retry, mark failed | read, then compare-and-swap, then enqueue, and the process may die between any two |
| Run queue, run worker | `run-queue.ts`, `orchestrator-worker/src/{bullmq-worker,processor,errors}.ts` | BullMQ jobs | deliver, claim, retry, give up | stalled jobs are redelivered while the first executor lives |
| Run graph | `graph.ts`, `repository.ts` of the worker | `agent_tasks`, LangGraph checkpoint | prepare, start, complete, fail, skip, two gates | two stores restore a run; each approve/resume job starts the graph over |
| Sweepers | `approval-expiry.ts` | `paused_at`, `reminder_sent_at`, `purged_at` | expire, remind, purge | act on candidates read earlier |
| Project files | both `repository.ts` | `project_files` revisions | person's save, agent's patch, repair | agents write minutes after they read |
| Validation and repair | `processor.ts`, `repair.ts`, `route-coverage.ts`, `validation.ts` | files, sandbox session | validate, repair, give up | writes files while the person edits or cancels |
| Database provisioning | `database-*.ts` of both applications | `database_instances`, `secret_references`, `migration_runs`, Supabase project | create, claim, provision, health, migrate, destroy, fail | an external resource, ambiguous failures, fenced executions |
| Provider secrets | `packages/database-provider/src` | passwords, connections, leases, sandboxes | ensure, create or adopt, connect, lease, migrate | a project exists before its password is known to be kept |
| Database reconciliation | `database-reconciler.ts`, `database-reconciliation-repository.ts` | sweeps, findings | recover, exhaust, dispatch; inventory, orphan cleanup | races with live executions and with deletion |
| Provider budget | `model-budget.ts` | reservations of a run and of a workspace's day | reserve, record, release | concurrent reservations, row locks, crashes, midnight |
| Attachments | `attachment-*.ts` | `project_attachments`, object store | upload, complete, scan, copy, publish, reject, read | fenced scan jobs; an upload link that outlives the check |
| Previews | `validation.ts`, `preview-reopen*.ts`, `packages/preview`, `packages/sandbox-provider`, `apps/preview-gateway` | sandboxes, session and preview rows, Redis targets | validate, publish, revoke, reopen, resolve | three stores, sandboxes that cost money, ids that repeat |
| Event stream | `app.ts` (SSE), `web/src/lib/control-api.ts`, `workspace-shell.tsx` | `run_events`, a cursor, what the page shows | append, list, end, reconnect, refresh | events and status are read separately; answers overtake each other |
| Launch form, file editor | `workspace-shell.tsx` | form, idempotency key, pointer, editor | submit, upload, restore; open, type, save | lost answers; agents write meanwhile |
| Release assessment | `release-*.ts` | assessments, evidence | assess, announce, assess by hand | two triggers and repeated attempts share keys |
| GTM and handoff | `gtm-*.ts`, `customer-success-handoff-*.ts` | scopes, deals, outcomes, suppressions, handoffs | create, move, record, sweep | reads and writes at the default isolation; overlapping sweeps |
| Meetings | `meeting-*.ts`, `workspace-meeting-experience.tsx` | meetings, actions, the page | find or create, validate, save | late and lost answers on two pages |
| Readiness | `readiness-publisher.ts`, `execution-readiness.ts` | one Redis key, a kept verdict | publish, judge, flip the flag | clocks, ages and a cache add up |
| Worker process | `main.ts` | consumers, stores, timers | start, signal, shut down | consumers take jobs from their construction on |
| Browser session | `entra-auth-gate.tsx`, `authenticated-page.tsx` | account, tokens, pointer | restore, renew, sign in, sign out | every call to Microsoft may fail |
| Staging scripts | `scripts/{bootstrap-staging-persistence,smoke-staging-authenticated,rehearse-staging-recovery,bootstrap-azure-staging-oidc}.mjs`, `staging-verifier.ts` | containers, volumes, evidence, identities | each script's steps | any command fails, scripts are repeated |
| The rest | agents and gateway, provider adapters, server-side authorization, admin tables, validators of configuration, workflows | | | pure I/O, or no state that several actors move |

Components interact through rows, jobs, objects and keys only: a request writes
the row and then enqueues a job that carries the row's version, a worker claims
by that version and writes under the next one, sweepers write rows directly, and
pages follow by events and reads. `PROJECT.json` lists every component with its
status, and the hazards, each at the line where it bites.

What makes the parts correct: a run has one job that may write; a decision taken on
an old read never takes effect; gates hold; completed work is neither lost nor paid
twice; no revision is overwritten unseen; a stopped run is out of reach; a fenced
database execution leaves the row alone; READY means usable; no run and no day is
overspent by what the ledgers are told; a run reads only what was scanned; no
sandbox, no project and no isolated resource is forgotten; nothing foreign is
destroyed; evidence is written only of what happened; pages come to show what is;
and whatever dies, what was accepted comes to an end.

## 2. Plan

Order by importance; all of it is done.

1. `RunStateMachine`, `RunControl`: the row and everybody who moves it.
2. `RunControlProofs`: types, the safety properties, the refinement.
3. `RunGraph`, `RunGraphProofs`: what an execution does.
4. `DatabaseLifecycle`: provisioning, deletion, recovery.
5. `SpendCap`, `ProviderBudget`: the ledger of a run and of a workspace's day.
6. `OrphanCleanup`, `ProvisionSecrets`, `AttachmentScan`, `PreviewSession`,
   `EventStream`: the parts with an external store or a second reader.
7. The pages, release assessment, GTM, meetings, readiness, the worker's
   process, the browser session and the staging scripts; `MCServices`, `Staging`
   and `MCProgress` run them.
8. `DatabaseLifecycleProofs`, `ProviderBudgetProofs`, `OperationsProofs`,
   `PageProofs`, all properties of `RunGraph` in `RunGraphProofs`, and
   `ServicesProofs`, which carries the parts' theorems over to the composition
   that TLC checks.
9. `StagingProofs`: the scripts, and their composition. What is left to TLC alone
   is liveness (end of section 5).

## 3. Modules and the code

**RunStateMachine** is the abstract specification: which status may follow
which, that COMPLETED and CANCELLED are final, and that every move but giving up
an enqueue costs a control version.

**RunControl** has the row (`status`, `controlVersion`, `error`, the age of
`paused_at`, `reminded`, `purged`), the newest event, whether the LangGraph
tables hold content, and what each actor remembers: `api[c]` the read of a
request or the job it still owes, `worker[w]` a delivery, `sweep[s]` a
candidate. A request is `ReadForAction`, `TransitionRun`, then `EnqueueOk` or
`EnqueueError` and `MarkRunFailed`; `CrashRequest` ends it anywhere. A worker is
`Deliver`, `ClaimRun`, any number of `TaskStep`, and one of `RequestApproval`,
`CompleteRun`, `FailRun`, `ThrowRetryable`, `DatabaseError`; `Stall` gives its
job to somebody else. Time is `Tick`, which ages a pause from fresh to due to
overdue. `pausedFor` and `cancelledBy` are history variables. BullMQ (delivery,
retry, stall) is external and modelled from how the code uses it. Deliveries are
a set: two deliveries of one job that agree in attempts and stalls cannot exist
at once, because a job is in one place in Redis.

**RunGraph** refines the execution. Its run row is the one of RunControl; a
request with its enqueue is one step, and so are delivery and claim, because
RunControl covers what happens between them. `worker[w].pc` names the call an
execution makes next; every action is one transaction or one external call.
`task` are the durable rows, `thread` the outputs in LangGraph's newest
checkpoint, `outputs` what the execution carries. LangGraph starts a known
thread over from the first node, with the checkpoint's outputs under the input.
A commit may also be answered with an error (`AnswerLost`): the executor is then
"unheard" and `runAgent`'s catch marks the task FAILED that it has just completed.
`files` is the history of one path; each revision records who wrote it and the
version its author had seen. Outputs are told apart only where a gate reads them
("gated": Mike requires approval, or Adrian has copy variants). The graph is the
constant `Nodes`, so a run may use a shorter one than the real ten nodes;
`RunGraphAssumption` says what the chain of `addEdge` calls fixes: no node occurs
twice, Mike comes before the plan gate and Alex behind it, and Adrian, where he
is, before the content gate.
The premise of the second gate, that the outputs of the first pass are still
there, comes from `thread`.

**DatabaseLifecycle** has the row with its operation version, the secret, the
migration run, whether the provider's project exists, the requests, the jobs
with the ids BullMQ has seen, the executions and the reconciler. `stale` stands
for a heartbeat older than the threshold; each write that sets the heartbeat
clears it. The reconciler's lease is modelled as one sweep at a time. SUSPENDED
and the legacy ACTIVE are left out: no modelled operation enters them.

**SpendCap** is the abstract ledger: commit within the limit, spend what was
committed, give back what was not spent. **ProviderBudget** has the run rows
(`total`, `reserved`), the windows per day of the one workspace all runs belong to
(another workspace shares no row), the row locks, and per call where its
transaction stands. A reservation prices one request; but `main.ts` leaves the
SDKs' `maxRetries` at its default of two, and Gemini's gateway starts three more
rounds after a 429, so a call may pay for requests whose answers nobody hears of
(`ResendRequest`, at most `Resends` in a call). `paid` is what the last request of
each call was paid, `unseen` what the earlier ones were. The module implements
SpendCap twice, per run and per day, for `paid`, which is all the ledgers are ever
told. Prices and token counts are small numbers. `actual_usd_micros` is telemetry
that no code reads back.

**OrphanCleanup** keeps of an execution only the calls that touch the provider
or the external id, and adds the sweep lease, the inventory, findings of missing
and of orphaned projects, the operator's approval and the cleanup. An approval is
of the finding that is open: one that is resolved and opened again needs a new one.
`AbandonedSurvives` lets a sweep outlive its lease.

**ProvisionSecrets** follows one operation through Vault, the Management API, the
connection, the lease and the sandbox of a migration. Each call may fail before
or after its effect. `excused` is a history of the failures after which nobody
knows of a lease or a sandbox, or could not take it away: above all the call that
creates one and is not heard of, since its random id comes with the answer.
`Store` picks what an absent key answers: the in-memory
store of the tests or Vault. Names are sequences of "x" and "-" because the cut
and the trim are what a property is about.

**AttachmentScan** has the row, the quarantine object, the clean objects by
hash, requests that complete an upload, the scan job and its executions. A
content stands for its bytes and its hash. Every call may throw, the commits, the
claim and the record of a failure also after they took effect. `DbFails` lets the
database refuse the last attempt's claim or its record of the failure.

**PreviewSession** has the sandboxes, the session rows keyed by run and attempt,
the Redis targets, the preview row, the reopen job, and the worker's pipeline
with its hooks. A cleanup is one step that lets any subset of its calls fail
(`CleanupFails`): nothing reads between them. A person may stop and resume the
run while its old execution is still alive, and every other call may throw before
or after its effect. Two histories record what follows from that and is nobody's
fault in a later step: `unheard` has the sandboxes whose creation and the sessions
whose publication was answered with an error, `contested` the sessions that two
executions had at once, since both versions of a run count their attempts from 1.
`CrashBound` limits workers that die.

**EventStream** has the log, transactions that append under the run's row lock,
the SSE loop (list a page, then read the status), the browser's cursor and the
requests of the page, whose answers may overtake each other (`LateAnswers`).

**WorkspaceLaunch** is one submission after another: intent, upload, completion,
creation under the key of the form's fingerprint, and the restored pointer.
`Lossy` names the calls whose answer may be lost. While a launch runs only the
submit button is disabled: the user may edit the prompt, choose or clear the file
and start a new project beside it. The launch goes on with what it captured, under
the project it captured; `busy` records that a file was chosen, and `left` that the
project was left, meanwhile. **WorkspaceEditor** has the listing, the
two reads of an open, typing and saving; a listing is one step, since a late one
leaves what a listing not made would have left.

**ReleaseAssessment** has the evidence of a session, the assessment's steps, its
one transaction and the manual trigger (one step: it is one transaction after
one read). Attempts and command ids are what makes keys collide. Evidence moves
with its assessment because the schema cascades. The policy is narrowed to a
single check: the standard one asks for checks no code records, so nothing would
ever be READY.

**GtmDeals** has the two statements of a stage change and the handoff sweeps.
**GtmOutreach** has scopes, sequences, outcomes, suppressions and scores;
prospects exist. **Meetings** has one meeting per workspace (the title is
fixed), the page's loads, which are dropped once their effect is over, and its
saves, which are not.

**ReadinessReport** counts time in ticks; heartbeat, maximum age and cache are
scaled down, and clocks differ by `Skews`. `current()` with its read of Redis is one
step. **WorkerProcess** follows `main()` to its signals and through the fixed order
of closes; a close that rejects (`CloseRejects`) ends the process, because the
handler calls `void shutdown()`. **BrowserSession** has the session of one tab on
two pages; MSAL is external. The two readiness gates no page uses are left out.

**StagingScenario** (`staging-verifier.ts`), **StagingEvidence** (bootstrap and
the chain of evidence files), **SmokeRun**, **RecoveryRehearsal** and
**OidcBootstrap** follow the scripts command by command, each command failing
with or without its effect. In StagingEvidence the environment file is not edited
during a bootstrap, and services may go down at any time. In RecoveryRehearsal
the script itself is not killed, and the evidence it starts from is accepted. A
creation that fails may have taken effect, and is then recorded by nobody. In
OidcBootstrap a look-up and the create that follows are one step, there is one
subscription, and foreign groups, apps, templates and keys exist from the start: what
appears between a check and its PUT is outside the model.

**MCServices**, **Staging** and **MCProgress** compose these. The parts of each
share no row, job, object or resource, so what one may do does not depend on
another, and an invariant, action property or leads-to of one part holds in the
interleaved system exactly when it holds where that part runs alone. The variable
`part` picks the part, so one run decides all of them. In MCServices and MCProgress
`s1`, `s2`, ... are the variables of the part that runs. Staging keeps the scripts'
constants and the names of their variables, those of a script that does not run
being `Unused`; **MCStaging** gives the three sequences a value. Where parts do
share a row, the reader's module has that row: RunGraph that of RunControl,
PreviewSession, EventStream and ReleaseAssessment a run that is active, paused or
ended at a control version.

An operator `X_Y` before `X` is a faulty variant of `X` (a dropped guard, a
missing reset, a wrong version). No action uses it; `PROJECT.json` names the
property that notices each one.

## 4. Runs

| Run | Instance | Shows |
|---|---|---|
| `run_control` | 2 requests, 2 workers, 1 sweeper, 1 attempt, 1 stall, versions below 3 | types; one live job; purge, reminder and expiry act on the right pause; the row implements RunStateMachine |
| `run_progress` | 1 request, 2 workers, 2 attempts, 1 stall | no PENDING run is forgotten; every run comes to rest |
| `graph_crashes` | 5 nodes with both gates, 1 executor, 2 attempts, versions below 6 | gates, completed work and both stores survive crashes, retries and approvals |
| `graph_duplicates` | plan gate, 2 executors, 1 repair, 2 personal revisions, plan may change | no lost revision; a stopped run is fenced |
| `database` | 1 request, 2 workers, 1 recovery, versions up to 3 | READY is usable; one command per version; fenced executions leave the row |
| `database_progress` | 1 request, 1 worker, 2 attempts, 1 recovery | every operation settles |
| `budget` | 2 calls, 2 runs, 2 budgets, 1 midnight, 2 resends | for the last request of each call both ledgers implement SpendCap and cover what was paid, and a request sent before it costs at most one more reservation; transactions never wait for each other in a circle |
| `services` | 16 parts of 12 modules, see below | what each part promises (safety) |
| `staging` | 5 scripts | evidence is earned; failure is said; foreign things are safe |
| `progress` | 10 parts | accepted work ends; watchers catch up |
| `gate_duplicate`, `database_deletion` | the smallest instance that reaches the case | what the code does against what a document says; see section 6 |

*Bounds.* `VersionBound` stops people from acting at or above a version: three moves
of the row already include a pause, a resume and a second pause beside a stale read,
and six allow both gates to be asked, answered and asked again. `StallBound` limits
stalls per delivery (in DatabaseLifecycle, over all deliveries at hand); one stall
already makes two executors. `FileBound` limits personal revisions; agents may add
more. `MaxAttempts`, `MaxStalls`, `MaxRepairs` and `MaxRecovery` are parameters of
the code, given small values. In `services` every race of a part has the two actors
it needs: two requests and two executions of a scan, two workers of a release, two
writers of a log with pages of two events, two pages of a meeting, two clients and
two sweepers of a deal, two paths of the editor, and, as a part of its own, one path
with four revisions. Provisioning has three executions, so that two may fail before
one destroys or adopts, and the launch form three edits or new projects and two
runs. Previews are two parts: in `previews` a run is stopped and resumed beside its
old execution (three versions, one attempt), in `retries` it is tried and repaired
(two attempts), each with one reopen. One exception keeps the run small: `orphans`
has one execution, one project and four sweeps, the least in which a finding is
made, confirmed, approved and cleaned while a provision adopts. Previews have no
failing cleanups and no crashes there, the cases in which the code does lose a
sandbox or a preview (section 6; `progress` has one crash). The safety of the
worker's process is checked inside `progress`, beside its shutdown. `progress` uses
smaller instances (one completing request, one previewing worker, three events),
because what one actor must finish does not need the races that `services` decides.
Symmetry is used only in runs without liveness properties, over actors and things
which no action or property names.

*Deadlock* is not checked: a run that is COMPLETED or CANCELLED, a database
that is DELETED with no job left, a script or a process that has ended, and a
part at its bounds really are the end.

*Fairness.* Only the three progress runs need it. `RunControl!Fairness`: BullMQ
gives waiting jobs to idle workers, a claim is attempted, an execution ends
because every provider call has a timeout, and a request that has moved the row
goes on to its enqueue or gives up. No fairness is asked of people, sweepers or
stalls. `run_progress` holds only while no API process dies inside a request, no
database call of a worker fails and stalls stay within what BullMQ forgives; the
code has no reconciler for runs, so without these the run does stay PENDING or
RUNNING, until a person acts. `DatabaseLifecycle!Fairness` asks less: time
passes, sweeps happen and treat candidates, and a worker stops polling health.
Requests, queue, workers and sweepers may die at any other point.

`progress` asks of each part what its module states in `FairSpec`. Attachments and
previews: as for runs, a delivered job goes on, and BullMQ delivers; no API process
dies inside a request, and the database does not refuse what only it can record, the
last attempt's claim and failure of a scan and a reopen's listing and failure
(`DbFails` is FALSE). One execution of a scan is alive at a time, as the object of a
CLEAN attachment needs (section 6). Event stream: requests are answered and pages
listed, and strongly, a connection comes to its age limit, because it is a timer
that other steps cannot push back; no network errors and no late answers, the retry
of a failed run left out (section 6). Handoffs: the scheduler keeps adding sweeps
and a sweep goes on. Readiness: strongly, time passes; heartbeats and probes come.
Worker process: `main()` goes on, and jobs end because they run under timeouts.
Browser session: calls to Microsoft are answered, and a user who is asked to sign in
does; two calls may fail. Smoke: every request and the stream are aborted at the
deadline, so the script goes on and the deadline passes. Rehearsal: docker commands
return. Identity bootstrap: a command returns, and the operator repeats `apply`
while it fails.

## 5. Proofs

TLAPS checks the theorems below for every value of the constants that meets the
assumption of the module. The assumptions give types (bounds are naturals,
switches are Booleans), say that `None` and the like are no data, and five say
more: the order of the graph (section 3), that the set of a budget's calls is
finite, since its ledgers are sums over calls, that what the scanner accepts has
the declared size, that the required checks of a release contain the baseline and
not ACCEPTANCE (`STANDARD_RELEASE_POLICY`), and that a worker reports more often
than a report ages out. TLC evaluates each of them. A hypothesis beyond the
assumption is part of the statement and named here. None of the properties is
inductive; each section says what has to be added, and TLC has checked the
invariants on small instances before they were proved.

**RunControlProofs.** `TypeCorrect`, `OneLiveJobHolds`, `PurgeOnlyExpiredHolds`,
`ReminderDiesWithPauseHolds`, `ExpireOnlyOverdueHolds`, `RefinementHolds`: every
property depends on what an actor read earlier. `IInv` adds: no two jobs carry one
version and none is ahead of the row (`JobsOrdered`, from which at most one job
can match the row); a request acts on a status its action allows
(`RequestsValid`); an expiry candidate whose version still stands is in the pause
that was overdue when it was read, and a purge candidate was expired for good
(`CandidatesValid`, `ExpiryFinal`). The proof goes actor by actor: types, jobs,
then one case per action. `NoStrandedRunHolds` has three hypotheses: no API
process dies inside a request (`~ ApiMayCrash`), no database call of a worker
fails (`~ DatabaseMayFail`), and stalls stay within what BullMQ forgives
(`StallBound <= MaxStalls`). Each is needed: a process may die between the commit
and the enqueue, a claim may fail on the last attempt, a job that stalls too often
is dropped; nothing in the code finds such a run again.

**RunGraphProofs.** Whoever executes, `NoLostRevisionHolds` (every write of a file
is one revision over the newest) and `StoppedRunIsFencedHolds` (an execution of a
run that is not RUNNING fails `touchActiveRun` at each call); `TypeCorrect` from
`PlacesInv`, which says at which node an execution can be at each of its calls. The
others assume that a stalled executor is dead (`~ StallSurvives`):
`CompletedTaskStaysHolds` and `ThreadAgreesWithTasksHolds` rest on `SingleInv`.
There each job is held once (`JobsSingle`), so at most one execution can still
write; its task is RUNNING while it works (`Working`), and every copy of an output,
in the checkpoint or in an execution of any job, is that of a COMPLETED row
(`Agrees`). A result whose executor did not hear of its commit has no copy at all
(`Uncopied`), which is why failing that task, the one exception `CompletedTaskStays`
names, breaks neither of the two nor those that follow. Two more also assume that
the workspace keeps its plan (`~ PlanMayChange`): `CompletedRunIsWholeHolds` from
`WholeInv` (all agents behind an execution are done, and SKIPPED exactly where the
plan or the project asks for it), and `GatesAreAnsweredHolds` from `GatesInv` (who
is past a gate that asked has its approval granted, and a job that carries an
approval was made by granting it). Both hypotheses are needed: with a surviving
executor TLC refutes the gates (`gate_duplicate`) and the completed tasks, and with
a plan that changes it refutes both `CompletedRunIsWhole` (section 6) and
`GatesAreAnswered`: Adrian's copy is stored, his executor dies before the
checkpoint, the plan he began under is lowered, and the next execution skips him,
carries no output of his and passes the gate.

**DatabaseLifecycleProofs.** No hypothesis, so duplicate executions are included.
`TypeCorrect`; `FencedExecutionLeavesRowHolds` step by step;
`OneCommandPerVersionHolds` from `VersionsInv`: it speaks of every job that is
*decided*, in Redis or still owed by a request or a sweep, says none is ahead of the
row, and that the jobs of a DELETING row's version delete, because a recovery reads
the status and sends that version again; `ReadyIsUsableHolds` from `Usable`, which
carries the link and the secret through the health check and the migration, and
`ProjectInv`: the project that the provider has confirmed is lost only to an execution
of a deletion, and `VersionsInv` with `ExecutionsInv` (what waits or runs is known to
BullMQ and does its own command) says that this deletion has an older version, so that
recovery has replaced it. That exception is real (`ReadyHasItsProject`, section 6).

**ProviderBudgetProofs.** No hypothesis. `NoCircularWaitHolds` from `LocksInv`: a
transaction holds exactly the rows its step implies, run row first, and no row is
held twice. `LedgerCoversSpendHolds`, `RunLedgerImplementsSpendCap`,
`WindowLedgerImplementsSpendCap` and their conjunction `SpendIsCappedHolds` from
`LedgerInv`, all of one workspace and of the last request of each call: a
reservation that was found to fit still fits when it is booked (`ReservationsFit`,
which is what the row locks are for), a request cannot cost more than was reserved
for its call (`CallsPriced`), so neither can one that was sent again
(`ResendsBounded`), both ledgers stay within their caps and cover what is paid and
open. The ledgers are sums over sets of calls; that one call's share moves the sum
by that share is proved once (`SumChange`), by induction over the size of a finite
set in the form of a least counterexample, because the induction theorems of the
library take an operator.

**OperationsProofs** holds what is kept beside the runs, one instance per module.

*The cleanup.* `ClaimIsEarnedHolds`: whoever is alive, a cleanup is claimed only of
a project that two different sweeps saw untracked, whose grace period has passed and
whose finding an operator has approved since it was opened (`CountInv`: the count of
a finding is at most the number of sweeps that saw it, since a sweep sees a project
once, and `Sanctioned`: its status names the approval only while it is one).
`CleanupIsEarnedHolds` says the same of the moment of the destroy and assumes that a
sweep does not outlive its lease (`~ AbandonedSurvives`): otherwise one whose
inventory is older than the project may finish, and so resolve the finding, between
the claim and the destroy.

*Provisioning.* `StaysAdoptableHolds` and `NothingIsLeftBehindHolds` from
`ProvisionInv`: there is at most one project (`OneProject`) and one live execution
(`OneByOne`); what an execution found stored is still what is stored at each of its
steps (`Here`), and what it has leased or started it still has to clean up, or it is
excused (`CleansUp`). Any call may fail before or after its effect; the excuses are
part of the property, and each is needed. Both assume one execution of a job at a
time (`~ Duplicates`); without it the first is refuted (section 6).

*Deals and outreach.* No hypothesis. `OneScopeHolds`, `ClosedHasTimeHolds`,
`HandoffIsDurableHolds`: a stage change that has read an open deal holds what makes
its closing time consistent at the commit, and what a sweep lists was won once.
`ScopesDoNotMixHolds`, `SuppressionIsStableHolds`: a request that waits for the
answer of its insert knows the entry that is stored.

*Release assessments.* No hypothesis. `ReadyKeepsItsEvidenceHolds`,
`AnnouncedIsStoredHolds`, `CompletedIsAssessedHolds` and the action property
`WorkerRowIsKeptHolds` from `ReleaseInv`: a worker completes the run only after its
assessment, or the loss of it, is on record (`WorkersAssess`). The evidence of a
READY row stays because evidence ids name the attempt and the step: a second
assessment that meets them fails as a whole instead of taking them over.

*Readiness.* `ReadyIsBackedHolds` from `ReadinessInv`: a report of every gate, and
a verdict that was drawn from one, are not older than the age they are judged by,
up to the skew of the clocks (`KeyIsDated`, `VerdictsAreDated`).

*Previews.* `NoSandboxIsForgottenHolds`, `PublishedIsValidatedHolds` and
`PublishedPreviewIsServedHolds` from `PreviewInv`. The executions of a run have
different versions (`RunsApart`) and at most one execution reopens (`OneReopen`);
those of a run may work beside each other and beside a reopen. They share no sandbox,
and a session only if it is contested (`Apart`). `Holding` says which sandbox and
session an execution has at each step. `Stands` says what is written under a session
that it has alone: its target, its preview and the evidence of the steps behind it.
The newest publisher's preview is its own even where it is not alone
(`PublishesItsOwn`), so the run that it completes leaves no sandbox without a row.
`Numbered` says that reopen sessions are taken in order, one for a request at most,
so there is a fresh one for each; `Shown1` says what stands behind a live preview and
who may still take it down, and `Paid` whose a living sandbox is. All three assume
`Careful`: no process dies and the calls of a cleanup succeed. Every other call may
throw, with or without its effect. Without the hypotheses the properties are false: a
dead process leaves its sandbox until it times out, and a failed cleanup leaves it or
its row. The exceptions that the properties state, for what was not heard of and what
was shared, are needed too: section 6 has the statements without them.

*Attachments.* No hypothesis. `VerdictIsFinalHolds`, whichever commit was not heard
of: no step of an execution or a request writes a row that is settled, and a request
marks a failure only where it found no verdict (`FailsUnsettled`).
`RunReadsScannedBytesHolds` from `ScannedInv`: what an execution copies and commits
it has read and accepted (`BytesInspected`), and the key of a CLEAN row or of a
run's snapshot is the hash of accepted bytes (`KeyIsScanned`), whatever the object
under the key has become; the loader's hash check does the rest. Duplicates, late
uploads and crashes are included.

*The worker's process.* No hypothesis. `NoUseAfterCloseHolds` and
`OneSignalIsGracefulHolds` from `ProcessInv`: the stores of a consumer that takes or
works on jobs are open (`StoresAreOpen`), and `shutdown()` stands at a place of its
order where all consumers before it are at rest (`CloseInv`); in that order a consumer
comes before every store it uses (`ConsumersComeFirst`). A close that rejects ends the
process, and with it the jobs: neither property is about that one.

**PageProofs** holds what a browser keeps, one instance per module.

*Event stream.* `GaplessReplayHolds` from `StreamInv`: the row lock makes the open
append the next one (`LogInv`), a query returns the next events and no others
(`PageIsNext`, for any page size), what is on its way to the browser comes right
behind its cursor, a connection exists only while the browser reads it (`ConnInv`),
and the browser never asks for what lies beyond the events it has (`ClientInv`,
which a restart behind the last event needs). Late answers, network errors, reloads
and retries are included.

*File editor.* `NoRevisionIsOverwrittenHolds` from `EditorInv`: every answer on its
way is a revision that exists (`AnswersExist`), the editor holds what is shown or
what was typed over it (`EditorFollows`), and a save carries what was typed over the
version it expects (`SaveIsOver`).

*Meetings.* `UnlockedIsSavedHolds`, `ConflictIsRealHolds`, `StaleLoadIsIgnoredHolds`
and the action property `BriefIsFinalHolds` from `MeetingsInv`: a row read as
completed stands (`Stands`), a save is answered with success exactly when its own
brief is on record (`SaveAnswer`), and the save of a mounted form carries what the
form shows, or the form was mounted anew over the completed meeting (`SaveIsSent`,
`FormShows`, `PageShows`).

*Launch form.* No hypothesis: the user edits, chooses files and starts new projects
while a launch runs. `OneRunPerSubmissionHolds` and `RunHasItsFileHolds` from
`LaunchInv`: the n-th run has the n-th key (`KeysCount`); the page knows of a row only
for the file the form holds, unless that was chosen during a launch
(`PageKnowsItsFile`); a launch works on what the form held when it began, and on what
it holds now as long as nobody edits (`LaunchFollowsForm`, `LaunchHasItsFile`); it
sends the key that is remembered, unless the project was left (`LaunchIsKeyed`); and a
run whose answer was lost is found by the key that is kept, in the present attempt and
in the next one (`LostRunIsRemembered`). `ShownRunStaysReachableHolds` is about one
step.

**ServicesProofs** proves the properties of the run `services` themselves. While a
part plays, its variables take steps of that part alone (the `Runs` lemmas), so the
theorem of its module holds of them; the part's instance here and the one in its
module's proofs define the same (the `Same` lemmas). The hypotheses above become
facts about the instances: `AbandonedSurvives`, the `Duplicates` of provisioning and
`CleanupFails` are FALSE in `services`, and previews have no crashes.
`WhatIsSettledStaysHolds` carries over the six action properties: a step of the
composition is one of the part or changes nothing.

**StagingProofs** proves the three properties of the run `staging`,
`EvidenceIsEarnedHolds`, `FailureIsSaidHolds` and `ForeignIsSafeHolds`, for any
constants that meet `StagingAssumption`. `StagingInv` says of the script that runs
that its own invariant holds; it is inductive because a step of one script leaves the
variables of the others. TLC has checked it on all states of `staging`. Each script's
properties are theorems about that script alone first, without further hypotheses.

*Provider scenario* (`EvidenceIsTrueHolds`, `ScenarioForeignIsSafeHolds`).
`ScenarioInv`: what is owned is the project that was created, absent before
(`OwnsOnlyItsOwn`); a gate that has passed stays true of the provider although other
projects come and go (`GatesAreTrue`); a lease that stands is revoked later, or the
scenario has failed (`LeaseIsRevoked`).

*Bootstrap and evidence chain* (`BootstrapIsEarnedHolds`, `StartsOnOwnVolumesHolds`,
`VolumesAreKeptHolds`). `BootstrapInv`: an attempt at a step has behind it what the
steps before it make sure of, by itself or by an earlier attempt (`VolumesEnsured`,
`StepsAreEarned`).

*Recovery rehearsal* (`RehearsalIsEarnedHolds`, `RecoveredOrSaidHolds`,
`LeakIsOneCreationHolds`). `RecoveryInv`: the stack is whole wherever the script may
end without a recovery (`StackInv`); an isolated container has a volume that is
recorded, so the cleanup finds both, and besides what is recorded there is at most
the one network or volume whose creation failed (`IsolationInv`); the data, the
witness and the backups agree for each store the loops have passed, unless a command
has failed (`DataInv`, `WitnessInv`).

*Identity bootstrap* (`ClientIsUsableHolds`, `NoTakeoverHolds`,
`RepeatChangesNothingHolds`). The operators run it at once. `OidcInv` says of each that
what it has read or made is still there (`Reached`), that it has seen no other identity
of the name (`Alone`), and that one that goes on to create an identity has set no
secret (`FirstTime`). These survive the others' steps because a step takes nothing
back and makes nothing foreign (`Grows`).

*Smoke* (`PassIsEarnedHolds`, `ReplayHasNoGapHolds`). `SmokeInv`: what the script has
seen when it comes to a stage is still so of the run (`StageInv`, `RunInv`), although
the worker and a member act beside it; and what is on its way in the connection
continues what has been processed
(`StreamInv`). The log and the buffer are sequences of any length within `MaxEvents`.

*Model-checked only.* Liveness (`RunComesToRest`, `OperationSettles`, `JobsSettle`,
`WatchersCatchUp`) is out of the prover's reach, together with `ENABLED` and what
recursive definitions compute. Every invariant and action property of the passing runs
is proved, and so is the safety of the worker's process that `JobsSettle` contains; the
object of a CLEAN attachment, which `JobsSettle` also asks for, is model-checked, with
one execution of a scan at a time. The browser's session has no safety property of its
own.

## 6. What the models found

Two disagreements have runs of their own:

* `gate_duplicate`: an executor whose result was dropped goes on with its own
  output and can pass the plan gate although the stored plan asks.
* `database_deletion`: a deletion that fails once becomes FAILED, its retry is
  refused, and recovery provisions the database again.

The modules also state what other documents, comments and tests say, under the names
below. No run lists these: the code refutes them. To see a counterexample, check the
statement under the module's `Spec` (`FairSpec` for a liveness statement) with the
constants given; the others are those of the module's instance in `MCServices` or
`MCProgress`, those of the scripts in `MCStaging.cfg`. The comment above each
definition says what is promised.

| Statement | Where the code goes another way |
|---|---|
| `RunControl!ApprovalPauseShowsApproval` | the reminder event hides the gate a run waits at: `#loadPendingApproval` looks at the newest event only |
| `RunControl!PurgeLeavesNoContent` | the purge leaves the LangGraph checkpoint of the run |
| `RunGraph!CompletedIsNotBilledTwice` | `completeTask` commits, its answer is lost, and `failTask` marks the COMPLETED task FAILED: the agent is called again |
| `RunGraph!CompletedRunIsWhole`, plan may change, 1 executor | after a plan downgrade a premium task that had failed stays FAILED in a COMPLETED run |
| `DatabaseLifecycle!ReadyHasItsProject` | an execution of a deletion that failed and was recovered as a provision destroys the project without reading the row again |
| `ProviderBudget!CeilingLimitsRealSpend` | a request whose answer was lost is sent again by the SDK and paid again under the same reservation, and the release keeps 1.25 times the last answer's cost only |
| `OrphanCleanup!TrackedIsNotDestroyed`, 2 workers, 2 projects | a provision adopts by name between the claim of a cleanup and the destroy |
| `OrphanCleanup!PresentIsNotFailed`, 2 workers, 2 projects | an absence counted for a removed project counts against its successor |
| `ProvisionSecrets!FirstProvisionSucceeds`, `Store = "vault"`, no faults | Vault answers an absent key with SECRET_STORE_REJECTED, which no caller takes for absent |
| `ProvisionSecrets!ProjectsAreInventoried` | a name cut to 28 characters may end in a hyphen, which the inventory's pattern refuses |
| `ProvisionSecrets!LeaseIsRevoked` | `createLease` comes before the try block: when it stores the lease and its answer is lost, nobody knows the lease's random key |
| `ProvisionSecrets!StaysAdoptable`, `Duplicates` | a second live execution overwrites the password of the first |
| `AttachmentScan!CleanObjectExists`, `Duplicates` | the execution that lost the commit deletes the clean object both made |
| `AttachmentScan!CleanKeyIsItsHash`, `LateUploads` | the copy takes what is in quarantine then, not what was scanned (the loader's hash check refuses it) |
| `AttachmentScan!ScanSettles`, `DbFails` | the last attempt's claim, or its `fail()`, throws: the row stays SCANNING and no job is left |
| `PreviewSession!LivePreviewIsServed` | `recordPreviewReady` commits, its answer is lost, and the catch terminates the sandbox of a READY row; an older execution deletes the target of the newer one's session id |
| `PreviewSession!EverySandboxHasOwner` | of a sandbox whose `create` answered with an error nobody knows the id |
| `PreviewSession!ReopenIsAnswered`, `DbFails` | the files are listed before the try block: the waiting page is told nothing |
| `EventStream!ShownCatchesUp`, `MayRetry` or `LateAnswers` | the stream does not restart after a retry; the answer that arrives last wins |
| `EventStream!FinalEventIsDelivered` | an event committed between listing and status read is not sent |
| `EventStream!LeftRunStaysAway`, `MayLeave` and `LateAnswers` | a late answer brings the run back that the page has left |
| `WorkspaceLaunch!NeverASecondRun` | a new project during the second attempt of a launch forgets the key that the first, whose answer was lost, was sent under |
| `WorkspaceLaunch!NeverAnotherFile` | a file chosen while a launch waits for its scan: the launch's next poll puts back the record of the file before, which has the same name and size |
| `WorkspaceEditor!ComparesWithPredecessor` | the predecessor is computed from an older listing |
| `ReleaseAssessment!SnapshotWasValidated`, `FileBound = 2` | results of old files get the fingerprint of new ones |
| `ReleaseAssessment!FailureIsReal`, no faults | a resumed run's evidence meets the keys of its first attempt and is recorded as a failure |
| `ReleaseAssessment!ManualAssessesItsAttempt`, one manual trigger | the manual trigger reads the commands of all attempts |
| `GtmDeals!ClosedStaysClosed` | of two concurrent stage changes the second overwrites CLOSED_WON |
| `GtmOutreach!OutcomeIsLatest` | a late SENT takes back an OPENED |
| `GtmOutreach!CacheIsLatest` | nothing writes the prospect's cached score |
| `Meetings!ShownIsSelected` | a save that answers late shows the meeting of the workspace that was left |
| `RecoveryRehearsal!IsRemovedOrSaid` | a `docker network create` or `volume create` that fails after it took effect is recorded nowhere, so the cleanup does not remove it and the script ends as plainly failed |
| `RecoveryRehearsal!NoRunInterrupted` | the worker is stopped before active runs are looked for |
| `StagingEvidence!SmokeEvidenceIsAccepted` | the rehearsal requires a check the smoke has renamed |
| `StagingEvidence!SmokeNamesWhatItTested` | the smoke compares the tag with the checkout, never with what runs |
| `SmokeRun!CompletionIsSeen` | the run ends between the stream's listing and its read of the status: the stream closes without the last events, the poll says COMPLETED, and the script passes without them |
| `SmokeRun!PreviewVerdictIsTrue` | the script takes the end of the stream for the end of the events |
| `ReadinessReport!ReadyOfEveryWorker`, 2 workers | replicas overwrite each other's report under one key |
| `WorkerProcess!TakingWorkerReports` | a `main()` that failed halfway leaves consumers that take jobs and no publisher |
| `BrowserSession!InitFailureIsShown` | a failed initialization sets the error but not the client it is shown with |
| `BrowserSession!ShownRunIsSaved` | a sign-out that fails has already discarded the pointer |
| `BrowserSession!TimeoutIsRedirected` | the admin page redirects on `interaction_required` only |

Seen in the models without a statement of a document to set against: `failTask`
also demotes a task that another living executor has completed, so
`CompletedTaskStays` holds only while stalled executors are dead; a reminder
candidate read in one pause is recorded in the next; `fail()` of a duplicate
execution turns READY into FAILED; `markDatabaseOperationFailed` can turn DELETED
into FAILED; a fenced `fail()` still closes the open migration run; a cleanup
whose calls fail one by one leaves a preview that the row calls READY; a `close()`
that rejects during shutdown ends the process with jobs in progress; a lost
answer of `completeAttachmentUpload` is refused with 409 on every retry until the
user selects the file again; and a run whose creation is in flight at sign-out
saves its pointer after it was removed.

## 7. Not modelled

The content of prompts, outputs, files and evidence; agents and model providers
(a call ends in an output, a retryable or a final error); server-side
authorization (it narrows who may send a request) and workspace onboarding; the
adapters of sandbox, storage and queue beyond whether a call failed and whether it
had its effect; proxying, headers and host names of the preview gateway; the
admin tables, revenue adapters and CRM records, which are read only; the page's
layout; the validators of `check-staging-deployment.mjs`, workflows, compose and
bicep files; how a worker derives each execution gate from its environment. They
are pure I/O, cryptography or wording, or have no state that several actors move.
