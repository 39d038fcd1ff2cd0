--------------------------- MODULE DatabaseLifecycle ---------------------------
(***************************************************************************)
(* One generated database: its database_instances row, the requests that   *)
(* create and destroy it, the BullMQ operation queue, the workers that     *)
(* drive the provider, and the reconciler that recovers stale operations.  *)
(*                                                                         *)
(* Recovery fences: it raises operationVersion, which every job carries    *)
(* and every write of a worker compares.  A worker keeps the record it     *)
(* claimed and never reads the row again.                                  *)
(*                                                                         *)
(* An operator named X_Y is a faulty variant of the X after it, kept to    *)
(* show which property notices the fault.  No action uses it.              *)
(***************************************************************************)
EXTENDS Naturals, FiniteSets

CONSTANTS
    Clients,      \* requests of the Control API in flight at once
    Workers,      \* worker slots
    MaxAttempts,  \* `attempts` of the operation queue
    MaxStalls,    \* stalls BullMQ forgives one job
    MaxRecovery,  \* DATABASE_MAX_RECOVERY_ATTEMPTS
    StallBound,   \* bound: no stall while a delivery at hand has met this many
    VersionBound, \* bound: no deletion is asked for at or above this version
    StallSurvives \* may a worker live on after its job stalled, or is it dead?

ASSUME DatabaseLifecycleAssumption ==
    /\ MaxAttempts \in Nat \ {0}
    /\ {MaxStalls, MaxRecovery, StallBound, VersionBound} \subseteq Nat
    /\ StallSurvives \in BOOLEAN

VARIABLES
    status,           \* database_instances.status, "NONE" before the insert
    operationVersion, \* database_instances.operation_version
    recoveryCount,    \* database_instances.recovery_count
    error,            \* database_instances.error: "none", "retryable", "final"
    stale,            \* last_heartbeat_at is older than staleAfterMs
    linked,           \* external_id and connection_secret_ref are recorded
    secretActive,     \* the secret_references row is ACTIVE
    migration,        \* migration_runs.status
    resource,         \* provider: the Supabase project exists
    api,              \* Control API: the job each request still has to enqueue
    queue,            \* deliveries no worker holds
    known,            \* job ids BullMQ has seen: it ignores a second add
    worker,           \* executions
    sweep,            \* the reconciler: the recovery it still has to dispatch
    deletionAsked     \* history: a person has confirmed the deletion

row      == <<status, operationVersion, recoveryCount, error, stale, linked>>
outside  == <<secretActive, migration, resource>>
jobs     == <<queue, known>>
vars     == <<row, outside, api, jobs, worker, sweep, deletionAsked>>

-----------------------------------------------------------------------------
(* Values *)

Statuses == {"NONE", "QUEUED", "PROVISIONING", "HEALTH_CHECK", "MIGRATING",
             "READY", "FAILED", "DELETING", "DELETED"}

Job      == [command : {"provision", "destroy"}, version : Nat]
Delivery == [job : Job, made : Nat, stalls : Nat]
Idle     == [pc |-> "idle"]

Execution ==
    [pc       : {"provision", "record", "health", "migrate",
                 "destroy", "deleted", "fail"},
     delivery : Delivery,
     locked   : BOOLEAN,
     linked   : BOOLEAN,   \* what the claimed record says of externalId
     retry    : BOOLEAN]   \* is the error that was thrown retryable?

TypeOK ==
    /\ status \in Statuses
    /\ operationVersion \in Nat
    /\ recoveryCount \in Nat
    /\ error \in {"none", "retryable", "final"}
    /\ {stale, linked, secretActive, resource, deletionAsked} \subseteq BOOLEAN
    /\ migration \in {"none", "RUNNING", "SUCCEEDED", "FAILED"}
    /\ api \in [Clients -> {Idle} \union [pc : {"enqueue", "markFailed"}, job : Job]]
    /\ queue \in SUBSET Delivery
    /\ known \in SUBSET Job
    /\ worker \in [Workers -> {Idle} \union Execution]
    /\ sweep \in {Idle} \union [pc : {"dispatch", "record"}, job : Job]

Init ==
    /\ status = "NONE"
    /\ operationVersion = 0
    /\ recoveryCount = 0
    /\ error = "none"
    /\ migration = "none"
    /\ stale = FALSE
    /\ linked = FALSE
    /\ secretActive = FALSE
    /\ resource = FALSE
    /\ deletionAsked = FALSE
    /\ api = [c \in Clients |-> Idle]
    /\ queue = {}
    /\ known = {}
    /\ worker = [w \in Workers |-> Idle]
    /\ sweep = Idle

NewDelivery(j) == [job |-> j, made |-> 0, stalls |-> 0]

\* queue.add with jobId operation-command-version: a known id adds nothing.
AddJob(j) ==
    /\ known' = known \union {j}
    /\ queue' = IF j \in known THEN queue ELSE queue \union {NewDelivery(j)}

\* queue.add rejects: Redis may or may not have taken the job.
AddJobFails(j) == AddJob(j) \/ UNCHANGED jobs

MoveTo(s, e) ==
    /\ status' = s
    /\ error' = e
    /\ stale' = FALSE

-----------------------------------------------------------------------------
(* Control API *)

\* POST databases: the insert commits before the enqueue; a replay of the
\* same idempotency key enqueues nothing.
CreateDatabaseOperation(c) ==
    /\ api[c] = Idle
    /\ status = "NONE"
    /\ MoveTo("QUEUED", "none")
    /\ api' = [api EXCEPT ![c] =
                 [pc |-> "enqueue", job |-> [command |-> "provision", version |-> 0]]]
    /\ UNCHANGED <<operationVersion, recoveryCount, linked, outside, jobs,
                   worker, sweep, deletionAsked>>

\* The version a deletion runs under.
DeletionVersion_Same == operationVersion
DeletionVersion == operationVersion + 1

\* POST actions {destroy}: one serializable transaction, then the enqueue.  A
\* second request while DELETING enqueues the same job id again.
RequestDatabaseAction(c) ==
    /\ api[c] = Idle
    /\ operationVersion < VersionBound
    /\ IF status = "DELETING"
       THEN /\ api' = [api EXCEPT ![c] =
                         [pc |-> "enqueue",
                          job |-> [command |-> "destroy", version |-> operationVersion]]]
            /\ UNCHANGED row
       ELSE /\ status \in {"READY", "FAILED"}
            /\ MoveTo("DELETING", "none")
            /\ operationVersion' = DeletionVersion
            /\ api' = [api EXCEPT ![c] =
                         [pc |-> "enqueue",
                          job |-> [command |-> "destroy", version |-> DeletionVersion]]]
            /\ UNCHANGED <<recoveryCount, linked>>
    /\ deletionAsked' = TRUE
    /\ UNCHANGED <<outside, jobs, worker, sweep>>

EnqueueOk(c) ==
    /\ api[c].pc = "enqueue"
    /\ AddJob(api[c].job)
    /\ api' = [api EXCEPT ![c] = Idle]
    /\ UNCHANGED <<row, outside, worker, sweep, deletionAsked>>

EnqueueError(c) ==
    /\ api[c].pc = "enqueue"
    /\ AddJobFails(api[c].job)
    /\ api' = [api EXCEPT ![c].pc = "markFailed"]
    /\ UNCHANGED <<row, outside, worker, sweep, deletionAsked>>

\* markDatabaseOperationFailed compares the version, not the status, and the
\* error it stores has no `retryable`.
MarkOperationFailed(c) ==
    /\ api[c].pc = "markFailed"
    /\ IF operationVersion = api[c].job.version
       THEN MoveTo("FAILED", "final")
       ELSE UNCHANGED <<status, error, stale>>
    /\ api' = [api EXCEPT ![c] = Idle]
    /\ UNCHANGED <<operationVersion, recoveryCount, linked, outside, jobs,
                   worker, sweep, deletionAsked>>

CrashRequest(c) ==
    /\ api[c] # Idle
    /\ api' = [api EXCEPT ![c] = Idle]
    /\ UNCHANGED <<row, outside, jobs, worker, sweep, deletionAsked>>

-----------------------------------------------------------------------------
(* Workers *)

VersionOf(w) == worker[w].delivery.job.version

\* `where: { id, operationId, operationVersion }`
SameVersion(w) == VersionOf(w) = operationVersion

\* ... and `status`: the compare-and-swap of every step but fail().
Owns_AnyVersion(w, s) == status = s
Owns(w, s) == SameVersion(w) /\ status = s

Goto(w, pc) == worker' = [worker EXCEPT ![w].pc = pc]
End_KeepJob(w) == Goto(w, "idle")
End(w) == worker' = [worker EXCEPT ![w] = Idle]

Throw(w, retryable) ==
    worker' = [worker EXCEPT ![w].pc = "fail", ![w].retry = retryable]

Redeliver(d) == queue' = queue \union {d}

\* What a job finds when it is claimed.
MayClaim(j) ==
    /\ j.version = operationVersion
    /\ IF j.command = "destroy"
       THEN status = "DELETING"
       ELSE status \notin {"READY", "DELETING", "DELETED"}

Claim(w, d) ==
    /\ worker[w] = Idle
    /\ d \in queue
    /\ queue' = queue \ {d}
    /\ IF ~ MayClaim(d.job)
       THEN UNCHANGED <<status, error, stale, worker>>
       ELSE /\ IF d.job.command = "destroy"
               THEN MoveTo(status, error)
               ELSE MoveTo("PROVISIONING", "none")
            /\ worker' = [worker EXCEPT ![w] =
                 [pc |-> d.job.command, delivery |-> d, locked |-> TRUE,
                  linked |-> linked, retry |-> FALSE]]
    /\ UNCHANGED <<operationVersion, recoveryCount, linked, outside, known,
                   api, sweep, deletionAsked>>

\* claim() rejects, which costs the job an attempt.
ClaimRejects(w, d) ==
    /\ worker[w] = Idle
    /\ d \in queue
    /\ queue' = (queue \ {d}) \union
         (IF d.made + 1 < MaxAttempts THEN {[d EXCEPT !.made = @ + 1]} ELSE {})
    /\ UNCHANGED <<row, outside, known, api, worker, sweep, deletionAsked>>

\* provider.provision finds the project by its name or creates it, and may
\* fail with the project created (Vault, a lost response).
Provision(w) ==
    /\ worker[w].pc = "provision"
    /\ resource' = TRUE
    /\ Goto(w, "record")
    /\ UNCHANGED <<row, secretActive, migration, api, jobs, sweep, deletionAsked>>

ProvisionFails(w, retryable) ==
    /\ worker[w].pc = "provision"
    /\ resource' \in {resource, TRUE}
    /\ Throw(w, retryable)
    /\ UNCHANGED <<row, secretActive, migration, api, jobs, sweep, deletionAsked>>

RecordProvisioned(w) ==
    /\ worker[w].pc = "record"
    /\ IF Owns(w, "PROVISIONING")
       THEN /\ MoveTo("HEALTH_CHECK", error)
            /\ linked' = TRUE
            /\ secretActive' = TRUE
            /\ Goto(w, "health")
       ELSE End(w) /\ UNCHANGED <<status, error, stale, linked, secretActive>>
    /\ UNCHANGED <<operationVersion, recoveryCount, migration, resource,
                   api, jobs, sweep, deletionAsked>>

\* A poll that finds the services still starting: a heartbeat, and again.
PollHealth(w) ==
    /\ worker[w].pc = "health"
    /\ IF Owns(w, "HEALTH_CHECK")
       THEN MoveTo(status, error) /\ UNCHANGED worker
       ELSE End(w) /\ UNCHANGED <<status, error, stale>>
    /\ UNCHANGED <<operationVersion, recoveryCount, linked, outside,
                   api, jobs, sweep, deletionAsked>>

\* The poll that finds them healthy, and startMigration.
StartMigration(w) ==
    /\ worker[w].pc = "health"
    /\ IF Owns(w, "HEALTH_CHECK")
       THEN /\ MoveTo("MIGRATING", error)
            /\ migration' = "RUNNING"
            /\ Goto(w, "migrate")
       ELSE End(w) /\ UNCHANGED <<status, error, stale, migration>>
    /\ UNCHANGED <<operationVersion, recoveryCount, linked, secretActive, resource,
                   api, jobs, sweep, deletionAsked>>

CompleteMigration(w) ==
    /\ worker[w].pc = "migrate"
    /\ IF Owns(w, "MIGRATING")
       THEN MoveTo("READY", "none") /\ migration' = "SUCCEEDED"
       ELSE UNCHANGED <<status, error, stale, migration>>
    /\ End(w)
    /\ UNCHANGED <<operationVersion, recoveryCount, linked, secretActive, resource,
                   api, jobs, sweep, deletionAsked>>

\* Unhealthy, out of polls or refused by the provider, the migration sandbox
\* fails, or a database call rejects, which is never retryable.
StepFails(w, retryable) ==
    /\ worker[w].pc \in {"record", "health", "migrate", "deleted"}
    /\ retryable => worker[w].pc \in {"health", "migrate"}
    /\ Throw(w, retryable)
    /\ UNCHANGED <<row, outside, api, jobs, sweep, deletionAsked>>

\* provider.destroy, skipped when the claimed record has no external id.
Destroy(w) ==
    /\ worker[w].pc = "destroy"
    /\ resource' = (resource /\ ~ worker[w].linked)
    /\ Goto(w, "deleted")
    /\ UNCHANGED <<row, secretActive, migration, api, jobs, sweep, deletionAsked>>

DestroyFails(w, retryable) ==
    /\ worker[w].pc = "destroy"
    /\ worker[w].linked
    /\ resource' \in {resource, FALSE}
    /\ Throw(w, retryable)
    /\ UNCHANGED <<row, secretActive, migration, api, jobs, sweep, deletionAsked>>

CompleteDestroy(w) ==
    /\ worker[w].pc = "deleted"
    /\ IF Owns(w, "DELETING")
       THEN /\ MoveTo("DELETED", "none")
            /\ secretActive' = (secretActive /\ ~ worker[w].linked)
       ELSE UNCHANGED <<status, error, stale, secretActive>>
    /\ End(w)
    /\ UNCHANGED <<operationVersion, recoveryCount, linked, migration, resource,
                   api, jobs, sweep, deletionAsked>>

\* migrationRun.updateMany where status is QUEUED or RUNNING
ClosedMigration_Any == "FAILED"
ClosedMigration == IF migration = "RUNNING" THEN "FAILED" ELSE migration

\* fail() compares the version but not the status, and closes an open
\* migration run whatever the version; then BullMQ may retry the job.
Fail(w) ==
    /\ worker[w].pc = "fail"
    /\ IF SameVersion(w)
       THEN MoveTo("FAILED", IF worker[w].retry THEN "retryable" ELSE "final")
       ELSE UNCHANGED <<status, error, stale>>
    /\ migration' = ClosedMigration
    /\ LET d == worker[w].delivery IN
       IF worker[w].retry /\ worker[w].locked /\ d.made + 1 < MaxAttempts
       THEN Redeliver([d EXCEPT !.made = @ + 1])
       ELSE UNCHANGED queue
    /\ End(w)
    /\ UNCHANGED <<operationVersion, recoveryCount, linked, secretActive, resource,
                   api, known, sweep, deletionAsked>>

\* fail() itself rejects: BullMQ retries the job whatever the error was.
FailRejects(w) ==
    /\ worker[w].pc = "fail"
    /\ LET d == worker[w].delivery IN
       IF worker[w].locked /\ d.made + 1 < MaxAttempts
       THEN Redeliver([d EXCEPT !.made = @ + 1])
       ELSE UNCHANGED queue
    /\ End(w)
    /\ UNCHANGED <<row, outside, known, api, sweep, deletionAsked>>

\* Deliveries waiting in Redis or held by a worker.
AtHand == queue \union {worker[w].delivery : w \in {v \in Workers : worker[v] # Idle}}

\* The job's lock expires: redelivered, or dropped after MaxStalls.
Stall(w, survives) ==
    /\ worker[w] # Idle
    /\ worker[w].locked
    /\ \A d \in AtHand : d.stalls < StallBound
    /\ LET d == worker[w].delivery IN
       IF d.stalls < MaxStalls
       THEN Redeliver([d EXCEPT !.stalls = @ + 1])
       ELSE UNCHANGED queue
    /\ survives => StallSurvives
    /\ IF survives THEN worker' = [worker EXCEPT ![w].locked = FALSE] ELSE End(w)
    /\ UNCHANGED <<row, outside, known, api, sweep, deletionAsked>>

-----------------------------------------------------------------------------
(* The reconciler.  Its sweep lease lets one sweep run at a time.          *)

Recoverable_NotQueued == {"PROVISIONING", "HEALTH_CHECK", "MIGRATING",
                          "DELETING", "FAILED"}
Recoverable == {"QUEUED", "PROVISIONING", "HEALTH_CHECK", "MIGRATING",
                "DELETING", "FAILED"}

GrowStale ==
    /\ ~ stale
    /\ status \in Recoverable
    /\ stale' = TRUE
    /\ UNCHANGED <<status, operationVersion, recoveryCount, error, linked, outside,
                   api, jobs, worker, sweep, deletionAsked>>

IsCandidate ==
    /\ stale
    /\ status \in Recoverable
    /\ status = "FAILED" => error = "retryable"

\* The command a recovery dispatches is read off the row's status.
RecoveryCommand == IF status = "DELETING" THEN "destroy" ELSE "provision"

MayRecover == recoveryCount < MaxRecovery

RecoverStaleOperation ==
    /\ sweep = Idle
    /\ IsCandidate
    /\ MayRecover
    /\ operationVersion' = operationVersion + 1
    /\ recoveryCount' = recoveryCount + 1
    /\ stale' = FALSE
    /\ sweep' = [pc |-> "dispatch",
                 job |-> [command |-> RecoveryCommand, version |-> operationVersion + 1]]
    /\ UNCHANGED <<status, error, linked, outside, api, jobs, worker, deletionAsked>>

ExhaustRecovery ==
    /\ sweep = Idle
    /\ IsCandidate
    /\ ~ MayRecover
    /\ MoveTo("FAILED", "final")
    /\ UNCHANGED <<operationVersion, recoveryCount, linked, outside,
                   api, jobs, worker, sweep, deletionAsked>>

DispatchRecovery ==
    /\ sweep.pc = "dispatch"
    /\ AddJob(sweep.job)
    /\ sweep' = Idle
    /\ UNCHANGED <<row, outside, api, worker, deletionAsked>>

DispatchFails ==
    /\ sweep.pc = "dispatch"
    /\ AddJobFails(sweep.job)
    /\ sweep' = [sweep EXCEPT !.pc = "record"]
    /\ UNCHANGED <<row, outside, api, worker, deletionAsked>>

\* recordRecoveryDispatchFailure: again the version only.
RecordDispatchFailure ==
    /\ sweep.pc = "record"
    /\ IF operationVersion = sweep.job.version
       THEN MoveTo("FAILED", "retryable")
       ELSE UNCHANGED <<status, error, stale>>
    /\ sweep' = Idle
    /\ UNCHANGED <<operationVersion, recoveryCount, linked, outside,
                   api, jobs, worker, deletionAsked>>

CrashSweep ==
    /\ sweep # Idle
    /\ sweep' = Idle
    /\ UNCHANGED <<row, outside, api, jobs, worker, deletionAsked>>

-----------------------------------------------------------------------------
ApiNext(c) ==
    \/ CreateDatabaseOperation(c) \/ RequestDatabaseAction(c)
    \/ EnqueueOk(c) \/ EnqueueError(c) \/ MarkOperationFailed(c)
    \/ CrashRequest(c)

Advance(w) ==
    \/ Provision(w) \/ RecordProvisioned(w) \/ StartMigration(w) \/ CompleteMigration(w)
    \/ Destroy(w) \/ CompleteDestroy(w) \/ Fail(w)

WorkerNext(w) ==
    \/ \E d \in queue : Claim(w, d) \/ ClaimRejects(w, d)
    \/ Advance(w)
    \/ PollHealth(w) \/ FailRejects(w)
    \/ \E retryable \in BOOLEAN :
         ProvisionFails(w, retryable) \/ StepFails(w, retryable) \/ DestroyFails(w, retryable)
    \/ \E survives \in BOOLEAN : Stall(w, survives)

Reconcile ==
    \/ RecoverStaleOperation \/ ExhaustRecovery
    \/ DispatchRecovery \/ DispatchFails \/ RecordDispatchFailure
    \/ CrashSweep

Next ==
    \/ \E c \in Clients : ApiNext(c)
    \/ \E w \in Workers : WorkerNext(w)
    \/ GrowStale
    \/ Reconcile

Spec == Init /\ [][Next]_vars

\* Time passes, the BullMQ schedule starts a sweep again and again, a sweep
\* that finds a candidate treats it, and a worker polls at most healthAttempts
\* times.  Nothing else is asked of the requests, the queue or the workers:
\* any of them may stop for good at any other point.
Fairness ==
    /\ \A w \in Workers : WF_vars(StartMigration(w) \/ StepFails(w, TRUE))
    /\ WF_vars(GrowStale)
    /\ WF_vars(RecoverStaleOperation \/ ExhaustRecovery)
    /\ WF_vars(DispatchRecovery \/ DispatchFails \/ RecordDispatchFailure)

FairSpec == Spec /\ Fairness

-----------------------------------------------------------------------------
(* Properties *)

\* "The version is included in every database-operation job and in every
\* worker compare-and-swap mutation" (phase-3-database-reconciliation.md): an
\* execution that recovery or a deletion has fenced no longer moves the row,
\* however long it was away and whatever it was about to write.
FencedExecutionLeavesRow ==
    [][\A w \in Workers :
         worker[w] # Idle /\ worker'[w] # worker[w] /\ ~ SameVersion(w) => UNCHANGED row]_vars

\* A person's deletion that recovery has since replaced by a later version.
SupersededDeletion ==
    \E j \in known : j.command = "destroy" /\ j.version < operationVersion

\* A READY database is linked, its connection secret is active, its last
\* migration run succeeded, and its project exists, whichever executions and
\* attempts were mixed to get there.  The one way to lose the project is a
\* deletion that recovery has replaced: its fenced execution, which reads the
\* row no more, may still be on its way to provider.destroy.
ReadyIsUsable ==
    status = "READY" =>
      /\ linked /\ secretActive /\ migration = "SUCCEEDED"
      /\ resource \/ SupersededDeletion

\* "Supabase reconcile + health" comes before "READY" in the flow chart of
\* phase-3-david-database-provisioning.md: who reads READY has a project.
ReadyHasItsProject == status = "READY" => resource

\* The version tells executions apart, and so does the job id BullMQ
\* deduplicates by, because one version never serves both commands.
OneCommandPerVersion ==
    \A j1, j2 \in known : j1.version = j2.version => j1.command = j2.command

\* Whatever request, worker or sweep dies, the operation settles: READY,
\* DELETED, or FAILED for good, and not retryable and forgotten.
Settled == \/ status \in {"READY", "DELETED"}
           \/ status = "FAILED" /\ error = "final"

OperationSettles == status # "NONE" ~> Settled

\* DELETING leads to DELETED (the state diagram and "Teardown" of
\* phase-3-david-database-provisioning.md): a database whose deletion a person
\* has confirmed is not provisioned again.
DeletionIsNotUndone ==
    [][deletionAsked /\ status' = "PROVISIONING" => status = "PROVISIONING"]_vars
=============================================================================
