------------------------ MODULE DatabaseLifecycleProofs ------------------------
(***************************************************************************)
(* The database lifecycle, for any number of requests, workers, retries,   *)
(* stalls and recoveries, whether or not a worker outlives its stall: a    *)
(* fenced execution leaves the row alone, a version serves one command,    *)
(* and a READY database is usable, with its project unless a deletion that *)
(* recovery has replaced still took it away.                               *)
(***************************************************************************)
EXTENDS DatabaseLifecycle, TLAPS

\* The jobs that exist or are about to: BullMQ has seen them, or a request or
\* the reconciler has decided on them and not added them yet.
OfApi(j)   == \E c \in Clients : api[c] # Idle /\ api[c].job = j
OfSweep(j) == sweep # Idle /\ sweep.job = j
Decided(j) == j \in known \/ OfApi(j) \/ OfSweep(j)

NoJobIsAhead == \A j \in Job : Decided(j) => j.version <= operationVersion

OneCommand ==
    \A i, j \in Job : Decided(i) /\ Decided(j) /\ i.version = j.version => i.command = j.command

\* While the row says DELETING, the jobs of its version delete: a recovery that
\* reads the status dispatches the command that is already under way.
DeletingIsDestroy ==
    status = "DELETING" =>
      \A j \in Job : Decided(j) /\ j.version = operationVersion => j.command = "destroy"

NoneIsUntouched == status = "NONE" => operationVersion = 0 /\ \A j \in Job : ~ Decided(j)

\* ... and while it says that a provision is under way or done, they provision.
InProvision == {"PROVISIONING", "HEALTH_CHECK", "MIGRATING", "READY"}

ProvisionIsProvision ==
    status \in InProvision =>
      \A j \in Job : Decided(j) /\ j.version = operationVersion => j.command = "provision"

VersionsInv ==
    NoJobIsAhead /\ OneCommand /\ DeletingIsDestroy /\ ProvisionIsProvision /\ NoneIsUntouched

\* BullMQ has seen every job that waits or runs, and what an execution is about
\* to do belongs to its job's command.
JobsKnown ==
    /\ \A d \in queue : d.job \in known
    /\ \A w \in Workers : worker[w] # Idle => worker[w].delivery.job \in known

DoesItsCommand ==
    \A w \in Workers :
      /\ worker[w].pc \in {"provision", "record", "health", "migrate"} =>
           worker[w].delivery.job.command = "provision"
      /\ worker[w].pc \in {"destroy", "deleted"} => worker[w].delivery.job.command = "destroy"

ExecutionsInv == JobsKnown /\ DoesItsCommand

\* The row is linked and its secret active from the step that records both.
Usable ==
    /\ status \in {"HEALTH_CHECK", "MIGRATING", "READY"} => linked /\ secretActive
    /\ status = "READY" => migration = "SUCCEEDED"

\* The project exists from the provider's answer on, unless a deletion that has
\* been replaced was still at work.
HasProject == resource \/ SupersededDeletion

ProjectInv ==
    /\ status \in {"HEALTH_CHECK", "MIGRATING", "READY"} => HasProject
    /\ \A w \in Workers : worker[w].pc = "record" /\ SameVersion(w) => HasProject

-----------------------------------------------------------------------------
(* Types *)

ApiPending == [pc : {"enqueue", "markFailed"}, job : Job]
SweepPending == [pc : {"dispatch", "record"}, job : Job]

\* Who is not idle has a job.
LEMMA Busy ==
    ASSUME TypeOK
    PROVE  /\ \A c \in Clients : api[c] # Idle => api[c] \in ApiPending
           /\ \A w \in Workers : worker[w] # Idle => worker[w] \in Execution
           /\ sweep # Idle => sweep \in SweepPending
BY DEF TypeOK, ApiPending, SweepPending

LEMMA AddJobType ==
    ASSUME TypeOK, NEW j \in Job, AddJobFails(j) \/ AddJob(j)
    PROVE  queue' \in SUBSET Delivery /\ known' \in SUBSET Job
<1>1. NewDelivery(j) \in Delivery
  BY DEF NewDelivery, Delivery
<1>2. QED
  BY <1>1 DEF TypeOK, AddJobFails, AddJob, jobs

LEMMA ApiType ==
    ASSUME TypeOK, NEW c \in Clients, ApiNext(c)
    PROVE  TypeOK'
<1> USE DEF row, outside, jobs
<1>0. api \in [Clients -> {Idle} \union ApiPending]
  BY DEF TypeOK, ApiPending
<1>1. CASE CreateDatabaseOperation(c)
  <2>1. [pc |-> "enqueue", job |-> [command |-> "provision", version |-> 0]] \in ApiPending
    BY DEF ApiPending, Job
  <2>2. api' \in [Clients -> {Idle} \union ApiPending]
    BY <1>0, <1>1, <2>1 DEF CreateDatabaseOperation
  <2>3. QED
    BY <1>1, <2>2 DEF CreateDatabaseOperation, MoveTo, TypeOK, Statuses, ApiPending
<1>2. CASE RequestDatabaseAction(c)
  <2>1. \A v \in Nat :
           [pc |-> "enqueue", job |-> [command |-> "destroy", version |-> v]] \in ApiPending
    BY DEF ApiPending, Job
  <2>2. operationVersion \in Nat /\ DeletionVersion \in Nat
    BY DEF TypeOK, DeletionVersion
  <2>3. api' \in [Clients -> {Idle} \union ApiPending]
    BY <1>0, <1>2, <2>1, <2>2 DEF RequestDatabaseAction
  <2>4. QED
    BY <1>2, <2>2, <2>3 DEF RequestDatabaseAction, MoveTo, TypeOK, Statuses, ApiPending
<1>3. CASE EnqueueOk(c) \/ EnqueueError(c)
  <2>1. api[c] \in ApiPending
    BY <1>3, Busy DEF EnqueueOk, EnqueueError, Idle
  <2>2. queue' \in SUBSET Delivery /\ known' \in SUBSET Job
    BY <1>3, <2>1, AddJobType DEF EnqueueOk, EnqueueError, ApiPending
  <2>3. api' \in [Clients -> {Idle} \union ApiPending]
    BY <1>0, <1>3, <2>1 DEF EnqueueOk, EnqueueError, ApiPending
  <2>4. QED
    BY <1>3, <2>2, <2>3 DEF EnqueueOk, EnqueueError, TypeOK, ApiPending
<1>4. CASE MarkOperationFailed(c)
  BY <1>4 DEF MarkOperationFailed, MoveTo, TypeOK, Statuses
<1>5. CASE CrashRequest(c)
  BY <1>5 DEF CrashRequest, TypeOK
<1>6. QED
  BY <1>1, <1>2, <1>3, <1>4, <1>5 DEF ApiNext

LEMMA ReconcileType ==
    ASSUME TypeOK, Reconcile
    PROVE  TypeOK'
<1> USE DEF row, outside, jobs
<1>1. CASE RecoverStaleOperation
  <2>1. sweep' \in SweepPending
    BY <1>1 DEF RecoverStaleOperation, RecoveryCommand, SweepPending, Job, TypeOK
  <2>2. /\ operationVersion' \in Nat /\ recoveryCount' \in Nat
        /\ UNCHANGED <<status, error, linked, outside, api, jobs, worker, deletionAsked>>
        /\ stale' = FALSE
    BY <1>1 DEF RecoverStaleOperation, TypeOK
  <2>3. QED
    BY <2>1, <2>2 DEF TypeOK, SweepPending
<1>2. CASE ExhaustRecovery
  BY <1>2 DEF ExhaustRecovery, MoveTo, TypeOK, Statuses
<1>3. CASE DispatchRecovery \/ DispatchFails
  <2>1. sweep \in SweepPending
    BY <1>3, Busy DEF DispatchRecovery, DispatchFails, Idle
  <2>2. queue' \in SUBSET Delivery /\ known' \in SUBSET Job
    BY <1>3, <2>1, AddJobType DEF DispatchRecovery, DispatchFails, SweepPending
  <2>3. sweep' \in {Idle} \union SweepPending
    BY <1>3, <2>1 DEF DispatchRecovery, DispatchFails, SweepPending
  <2>4. QED
    BY <1>3, <2>2, <2>3 DEF DispatchRecovery, DispatchFails, TypeOK, SweepPending
<1>4. CASE RecordDispatchFailure
  BY <1>4 DEF RecordDispatchFailure, MoveTo, TypeOK, Statuses
<1>5. CASE CrashSweep
  BY <1>5 DEF CrashSweep, TypeOK
<1>6. QED
  BY <1>1, <1>2, <1>3, <1>4, <1>5 DEF Reconcile

\* The error of a record, and one attempt or one stall more, keep the types.
LEMMA DeliveryType ==
    ASSUME NEW d \in Delivery
    PROVE  /\ d.made \in Nat /\ d.stalls \in Nat /\ d.job \in Job
           /\ [d EXCEPT !.made = @ + 1] \in Delivery
           /\ [d EXCEPT !.stalls = @ + 1] \in Delivery
BY DEF Delivery

LEMMA ExecutionType ==
    ASSUME TypeOK, NEW w \in Workers, worker[w] # Idle
    PROVE  /\ worker[w] \in Execution /\ worker[w].delivery \in Delivery
           /\ worker' = [worker EXCEPT ![w] = Idle] => worker' \in [Workers -> {Idle} \union Execution]
           /\ worker' = [worker EXCEPT ![w].locked = FALSE] => worker' \in [Workers -> {Idle} \union Execution]
           /\ \A pc \in {"record", "health", "migrate", "deleted"} :
                Goto(w, pc) => worker' \in [Workers -> {Idle} \union Execution]
           /\ \A retryable \in BOOLEAN :
                Throw(w, retryable) => worker' \in [Workers -> {Idle} \union Execution]
<1>1. worker[w] \in Execution /\ worker \in [Workers -> {Idle} \union Execution]
  BY Busy DEF TypeOK
<1>2. /\ \A pc \in {"record", "health", "migrate", "deleted"} :
            [worker[w] EXCEPT !.pc = pc] \in Execution
      /\ \A retryable \in BOOLEAN : [worker[w] EXCEPT !.pc = "fail", !.retry = retryable] \in Execution
      /\ [worker[w] EXCEPT !.locked = FALSE] \in Execution
  BY <1>1 DEF Execution
<1>3. \A e \in {Idle} \union Execution : [worker EXCEPT ![w] = e] \in [Workers -> {Idle} \union Execution]
  BY <1>1
<1>4. \A pc \in {"record", "health", "migrate", "deleted"} :
         Goto(w, pc) => worker' \in [Workers -> {Idle} \union Execution]
  <2> SUFFICES ASSUME NEW pc \in {"record", "health", "migrate", "deleted"}, Goto(w, pc)
               PROVE  worker' \in [Workers -> {Idle} \union Execution]
    OBVIOUS
  <2>1. worker' = [worker EXCEPT ![w] = [worker[w] EXCEPT !.pc = pc]]
    BY DEF Goto
  <2>2. QED
    BY <1>2, <1>3, <2>1
<1>5. \A retryable \in BOOLEAN : Throw(w, retryable) => worker' \in [Workers -> {Idle} \union Execution]
  <2> SUFFICES ASSUME NEW retryable \in BOOLEAN, Throw(w, retryable)
               PROVE  worker' \in [Workers -> {Idle} \union Execution]
    OBVIOUS
  <2>1. worker' = [worker EXCEPT ![w] = [worker[w] EXCEPT !.pc = "fail", !.retry = retryable]]
    BY DEF Throw
  <2>2. QED
    BY <1>2, <1>3, <2>1
<1>6. worker' = [worker EXCEPT ![w].locked = FALSE] => worker' \in [Workers -> {Idle} \union Execution]
  <2>1. [worker EXCEPT ![w].locked = FALSE] = [worker EXCEPT ![w] = [worker[w] EXCEPT !.locked = FALSE]]
    OBVIOUS
  <2>2. QED
    BY <1>2, <1>3, <2>1
<1>7. QED
  BY <1>1, <1>3, <1>4, <1>5, <1>6 DEF Execution

LEMMA WorkerType ==
    ASSUME TypeOK, NEW w \in Workers, WorkerNext(w)
    PROVE  TypeOK'
<1> USE DEF row, outside, jobs
<1> DEFINE Typed == worker' \in [Workers -> {Idle} \union Execution]
<1>0. /\ worker \in [Workers -> {Idle} \union Execution] /\ queue \in SUBSET Delivery
      /\ status \in Statuses /\ error \in {"none", "retryable", "final"}
      /\ linked \in BOOLEAN /\ stale \in BOOLEAN /\ resource \in BOOLEAN /\ secretActive \in BOOLEAN
  BY DEF TypeOK
<1>1. ASSUME NEW d \in queue, Claim(w, d)
      PROVE  TypeOK'
  <2>1. d \in Delivery /\ d.job.command \in {"provision", "destroy"}
    BY <1>0 DEF Delivery, Job
  <2>2. Typed
    <3> DEFINE e == [pc |-> d.job.command, delivery |-> d, locked |-> TRUE,
                     linked |-> linked, retry |-> FALSE]
    <3>1. e \in Execution
      BY <1>0, <2>1 DEF Execution
    <3>2. worker' = worker \/ worker' = [worker EXCEPT ![w] = e]
      BY <1>1 DEF Claim
    <3> HIDE DEF e
    <3>3. QED
      BY <1>0, <3>1, <3>2
  <2>3. QED
    BY <1>1, <2>2 DEF Claim, MoveTo, TypeOK, Statuses
<1>2. ASSUME NEW d \in queue, ClaimRejects(w, d)
      PROVE  TypeOK'
  <2>1. [d EXCEPT !.made = @ + 1] \in Delivery
    BY <1>0, DeliveryType
  <2>2. queue' \in SUBSET Delivery
    BY <1>0, <1>2, <2>1 DEF ClaimRejects
  <2>3. QED
    BY <1>2, <2>2 DEF ClaimRejects, TypeOK
<1>3. CASE Provision(w) \/ Destroy(w)
  <2>1. worker[w] # Idle /\ worker[w].pc \in {"provision", "destroy"}
    BY <1>3 DEF Provision, Destroy, Idle
  <2>2. Typed /\ worker[w].linked \in BOOLEAN
    BY <1>3, <2>1, ExecutionType DEF Provision, Destroy, Execution
  <2>3. QED
    BY <1>3, <2>2 DEF Provision, Destroy, TypeOK
<1>4. ASSUME NEW retryable \in BOOLEAN,
             ProvisionFails(w, retryable) \/ StepFails(w, retryable) \/ DestroyFails(w, retryable)
      PROVE  TypeOK'
  <2>1. worker[w] # Idle
    <3>1. worker[w].pc \in {"provision", "record", "health", "migrate", "deleted", "destroy"}
      BY <1>4 DEF ProvisionFails, StepFails, DestroyFails
    <3>2. QED
      BY <3>1 DEF Idle
  <2>2. Typed
    BY <1>4, <2>1, ExecutionType DEF ProvisionFails, StepFails, DestroyFails
  <2>3. QED
    BY <1>0, <1>4, <2>2 DEF ProvisionFails, StepFails, DestroyFails, TypeOK
<1>5. CASE RecordProvisioned(w) \/ StartMigration(w)
  <2>1. worker[w] # Idle
    BY <1>5 DEF RecordProvisioned, StartMigration, Idle
  <2>2. Typed
    BY <1>5, <2>1, ExecutionType DEF RecordProvisioned, StartMigration, End
  <2>3. QED
    BY <1>5, <2>2 DEF RecordProvisioned, StartMigration, MoveTo, TypeOK, Statuses
<1>6. CASE PollHealth(w) \/ CompleteMigration(w)
  <2>1. worker[w] # Idle
    BY <1>6 DEF PollHealth, CompleteMigration, Idle
  <2>2. Typed
    BY <1>0, <1>6, <2>1, ExecutionType DEF PollHealth, CompleteMigration, End
  <2>3. QED
    BY <1>6, <2>2 DEF PollHealth, CompleteMigration, MoveTo, TypeOK, Statuses
<1>7. CASE CompleteDestroy(w)
  <2>1. worker[w] # Idle
    BY <1>7 DEF CompleteDestroy, Idle
  <2>2. Typed /\ worker[w].linked \in BOOLEAN
    BY <1>7, <2>1, ExecutionType DEF CompleteDestroy, End, Execution
  <2>3. QED
    BY <1>7, <2>2 DEF CompleteDestroy, MoveTo, TypeOK, Statuses
<1>8. CASE Fail(w) \/ FailRejects(w)
  <2>1. worker[w] # Idle
    BY <1>8 DEF Fail, FailRejects, Idle
  <2>2. Typed
    BY <1>8, <2>1, ExecutionType DEF Fail, FailRejects, End
  <2>3. queue' \in SUBSET Delivery
    BY <1>0, <1>8, <2>1, ExecutionType, DeliveryType DEF Fail, FailRejects, Redeliver
  <2>4. QED
    BY <1>8, <2>2, <2>3 DEF Fail, FailRejects, ClosedMigration, MoveTo, TypeOK, Statuses
<1>9. ASSUME NEW survives \in BOOLEAN, Stall(w, survives)
      PROVE  TypeOK'
  <2>1. worker[w] # Idle
    BY <1>9 DEF Stall
  <2>2. Typed
    BY <1>9, <2>1, ExecutionType DEF Stall, End
  <2>3. queue' \in SUBSET Delivery
    BY <1>0, <1>9, <2>1, ExecutionType, DeliveryType DEF Stall, Redeliver
  <2>4. QED
    BY <1>9, <2>2, <2>3 DEF Stall, TypeOK
<1>10. QED
  BY <1>1, <1>2, <1>3, <1>4, <1>5, <1>6, <1>7, <1>8, <1>9 DEF WorkerNext, Advance

LEMMA TypeKept == TypeOK /\ [Next]_vars => TypeOK'
<1> SUFFICES ASSUME TypeOK, [Next]_vars
             PROVE  TypeOK'
  OBVIOUS
<1>1. CASE GrowStale
  BY <1>1 DEF GrowStale, TypeOK, outside, jobs
<1>2. CASE UNCHANGED vars
  BY <1>2 DEF vars, row, outside, jobs, TypeOK
<1>3. QED
  BY <1>1, <1>2, ApiType, WorkerType, ReconcileType DEF Next

LEMMA InitType == Init => TypeOK
<1> SUFFICES ASSUME Init
             PROVE  TypeOK
  OBVIOUS
<1>1. /\ api \in [Clients -> {Idle} \union [pc : {"enqueue", "markFailed"}, job : Job]]
      /\ worker \in [Workers -> {Idle} \union Execution]
  BY DEF Init
<1>2. {stale, linked, secretActive, resource, deletionAsked} \subseteq BOOLEAN
  BY DEF Init
<1>3. QED
  BY <1>1, <1>2 DEF Init, TypeOK, Statuses

\* Every variable of the row, the queue, the requests and the executions has
\* its type.
THEOREM TypeCorrect == Spec => []TypeOK
BY InitType, TypeKept, PTL DEF Spec

-----------------------------------------------------------------------------
(* Fencing *)

\* "The version is included in every database-operation job and in every worker
\* compare-and-swap mutation": whatever a fenced execution does next, the row is
\* not changed by it.
THEOREM FencedExecutionLeavesRowHolds == Spec => FencedExecutionLeavesRow
<1> DEFINE Fenced == \A w \in Workers :
             worker[w] # Idle /\ worker'[w] # worker[w] /\ ~ SameVersion(w) => UNCHANGED row
<1>1. TypeOK /\ [Next]_vars => [Fenced]_vars
  <2> SUFFICES ASSUME TypeOK, [Next]_vars, NEW w \in Workers,
                      worker[w] # Idle, worker'[w] # worker[w], ~ SameVersion(w)
               PROVE  UNCHANGED row
    OBVIOUS
  <2>0. worker \in [Workers -> {Idle} \union Execution]
    BY DEF TypeOK
  <2>1. \E v \in Workers : WorkerNext(v)
    <3>1. worker' # worker
      OBVIOUS
    <3>2. ASSUME NEW c \in Clients, ApiNext(c)
          PROVE  worker' = worker
      BY <3>2 DEF ApiNext, CreateDatabaseOperation, RequestDatabaseAction, EnqueueOk, EnqueueError,
                  MarkOperationFailed, CrashRequest
    <3>3. ~ Reconcile /\ ~ GrowStale /\ ~ UNCHANGED vars
      BY <3>1 DEF Reconcile, RecoverStaleOperation, ExhaustRecovery, DispatchRecovery, DispatchFails,
                  RecordDispatchFailure, CrashSweep, GrowStale, vars
    <3>4. QED
      BY <3>1, <3>2, <3>3 DEF Next
  <2>2. PICK v \in Workers : WorkerNext(v)
    BY <2>1
  <2>3. v = w
    <3> SUFFICES ASSUME v # w
                 PROVE  worker'[w] = worker[w]
      OBVIOUS
    <3>1. \/ worker' = worker
          \/ \E e : worker' = [worker EXCEPT ![v] = e]
      BY <2>2 DEF WorkerNext, Claim, ClaimRejects, Advance, Provision, RecordProvisioned,
                  StartMigration, CompleteMigration, Destroy, CompleteDestroy, Fail, PollHealth,
                  FailRejects, ProvisionFails, StepFails, DestroyFails, Stall, Goto, Throw, End
    <3>2. QED
      BY <2>0, <3>1
  <2>4. WorkerNext(w)
    BY <2>2, <2>3
  <2>5. CASE RecordProvisioned(w) \/ PollHealth(w) \/ StartMigration(w) \/ CompleteMigration(w)
               \/ CompleteDestroy(w) \/ Fail(w)
    BY <2>5 DEF RecordProvisioned, PollHealth, StartMigration, CompleteMigration, CompleteDestroy,
                Fail, Owns, row
  <2>6. ASSUME NEW retryable \in BOOLEAN,
               ProvisionFails(w, retryable) \/ StepFails(w, retryable) \/ DestroyFails(w, retryable)
        PROVE  UNCHANGED row
    BY <2>6 DEF ProvisionFails, StepFails, DestroyFails
  <2>7. CASE Provision(w) \/ Destroy(w) \/ FailRejects(w) \/ \E survives \in BOOLEAN : Stall(w, survives)
    BY <2>7 DEF Provision, Destroy, FailRejects, Stall
  <2>8. ASSUME NEW d \in queue, Claim(w, d) \/ ClaimRejects(w, d)
        PROVE  FALSE
    BY <2>8 DEF Claim, ClaimRejects
  <2>9. QED
    BY <2>4, <2>5, <2>6, <2>7, <2>8 DEF WorkerNext, Advance
<1>2. QED
  BY <1>1, TypeCorrect, PTL DEF Spec, FencedExecutionLeavesRow

-----------------------------------------------------------------------------
(* Versions and commands                                                   *)

\* What a step may do to the jobs and the version: decide nothing new, raise
\* the version for one new job, repeat the deletion that is under way, or
\* create the operation.
NothingNew ==
    /\ operationVersion' = operationVersion
    /\ \A j \in Job : Decided(j)' => Decided(j)
    /\ status' \in {"DELETING", "NONE"} => status' = status
    /\ status' \in InProvision =>
         \/ status \in InProvision
         \/ \E j \in Job : Decided(j) /\ j.version = operationVersion /\ j.command = "provision"

OneMore(n) == \A j \in Job : Decided(j)' => Decided(j) \/ j = n

NewVersion ==
    /\ operationVersion' = operationVersion + 1
    /\ status' # "NONE"
    /\ \E n \in Job : /\ OneMore(n) /\ n.version = operationVersion'
                      /\ status' = "DELETING" => n.command = "destroy"
                      /\ status' \in InProvision => n.command = "provision"

DeletionRepeated ==
    /\ operationVersion' = operationVersion
    /\ status = "DELETING" /\ status' = "DELETING"
    /\ OneMore([command |-> "destroy", version |-> operationVersion])

Created ==
    /\ operationVersion' = operationVersion
    /\ status = "NONE" /\ status' = "QUEUED"
    /\ OneMore([command |-> "provision", version |-> 0])

LEMMA VersionsKept ==
    ASSUME TypeOK, VersionsInv, NothingNew \/ NewVersion \/ DeletionRepeated \/ Created
    PROVE  VersionsInv'
<1>0. operationVersion \in Nat /\ \A j \in Job : j.version \in Nat
  BY DEF TypeOK, Job
<1> USE DEF VersionsInv
<1>1. CASE NothingNew
  <2>1. NoJobIsAhead' /\ OneCommand' /\ DeletingIsDestroy' /\ NoneIsUntouched'
    BY <1>1 DEF NothingNew, NoJobIsAhead, OneCommand, DeletingIsDestroy, NoneIsUntouched
  <2>2. ProvisionIsProvision'
    BY <1>1 DEF NothingNew, OneCommand, ProvisionIsProvision
  <2>3. QED
    BY <2>1, <2>2
<1>2. CASE NewVersion
  <2>1. PICK n \in Job : /\ OneMore(n) /\ n.version = operationVersion + 1
                         /\ status' = "DELETING" => n.command = "destroy"
                         /\ status' \in InProvision => n.command = "provision"
    BY <1>2 DEF NewVersion
  <2>2. operationVersion' = operationVersion + 1 /\ status' # "NONE"
    BY <1>2 DEF NewVersion
  <2>3. \A j \in Job : Decided(j) => j.version <= operationVersion /\ j.version # n.version
    BY <1>0, <2>1 DEF NoJobIsAhead
  <2>4. NoJobIsAhead'
    BY <1>0, <2>1, <2>2, <2>3 DEF NoJobIsAhead, OneMore
  <2>5. OneCommand'
    BY <2>1, <2>3 DEF OneCommand, OneMore
  <2>6. DeletingIsDestroy'
    BY <2>1, <2>2, <2>3 DEF DeletingIsDestroy, OneMore
  <2>7. ProvisionIsProvision'
    BY <2>1, <2>2, <2>3 DEF ProvisionIsProvision, OneMore
  <2>8. QED
    BY <2>2, <2>4, <2>5, <2>6, <2>7 DEF NoneIsUntouched
<1>3. CASE DeletionRepeated
  <2> DEFINE n == [command |-> "destroy", version |-> operationVersion]
  <2>1. n \in Job /\ n.version = operationVersion /\ n.command = "destroy"
    BY <1>0 DEF Job
  <2>2. OneMore(n) /\ operationVersion' = operationVersion /\ status = "DELETING" /\ status' = "DELETING"
    BY <1>3 DEF DeletionRepeated
  <2> HIDE DEF n
  <2>3. NoJobIsAhead'
    BY <1>0, <2>1, <2>2 DEF NoJobIsAhead, OneMore
  <2>4. OneCommand'
    BY <2>1, <2>2 DEF OneCommand, OneMore, DeletingIsDestroy
  <2>5. DeletingIsDestroy'
    BY <2>1, <2>2 DEF DeletingIsDestroy, OneMore
  <2>6. QED
    BY <2>2, <2>3, <2>4, <2>5 DEF NoneIsUntouched, ProvisionIsProvision, InProvision
<1>4. CASE Created
  <2> DEFINE n == [command |-> "provision", version |-> 0]
  <2>1. n \in Job /\ n.version = 0 /\ operationVersion = 0 /\ operationVersion' = 0
    BY <1>4 DEF Job, Created, NoneIsUntouched
  <2>2. \A j \in Job : Decided(j)' => j = n
    BY <1>4 DEF Created, OneMore, NoneIsUntouched
  <2>3. status' = "QUEUED"
    BY <1>4 DEF Created
  <2> HIDE DEF n
  <2>4. QED
    BY <2>1, <2>2, <2>3 DEF NoJobIsAhead, OneCommand, DeletingIsDestroy, NoneIsUntouched,
                            ProvisionIsProvision, InProvision
<1>5. QED
  BY <1>1, <1>2, <1>3, <1>4

\* A request's or the reconciler's own job is decided before BullMQ sees it.
LEMMA StepDecides ==
    ASSUME TypeOK, VersionsInv, JobsKnown, [Next]_vars
    PROVE  NothingNew \/ NewVersion \/ DeletionRepeated \/ Created
<1> USE DEF row, outside, jobs, InProvision
<1>0. /\ api \in [Clients -> {Idle} \union ApiPending]
      /\ operationVersion \in Nat
  BY DEF TypeOK, ApiPending
<1>1. ASSUME NEW c \in Clients, CreateDatabaseOperation(c)
      PROVE  Created
  <2> DEFINE n == [command |-> "provision", version |-> 0]
  <2>1. /\ api' = [api EXCEPT ![c] = [pc |-> "enqueue", job |-> n]]
        /\ known' = known /\ sweep' = sweep /\ operationVersion' = operationVersion
        /\ status = "NONE" /\ status' = "QUEUED"
    BY <1>1 DEF CreateDatabaseOperation, MoveTo
  <2> HIDE DEF n
  <2>2. OneMore(n)
    BY <1>0, <2>1 DEF OneMore, Decided, OfApi, OfSweep
  <2>3. QED
    BY <2>1, <2>2 DEF Created, n
<1>2. ASSUME NEW c \in Clients, RequestDatabaseAction(c)
      PROVE  NewVersion \/ DeletionRepeated
  <2> DEFINE n(v) == [command |-> "destroy", version |-> v]
  <2>1. /\ known' = known /\ sweep' = sweep
        /\ \/ /\ status = "DELETING" /\ status' = status /\ operationVersion' = operationVersion
              /\ api' = [api EXCEPT ![c] = [pc |-> "enqueue", job |-> n(operationVersion)]]
           \/ /\ status' = "DELETING" /\ operationVersion' = operationVersion + 1
              /\ api' = [api EXCEPT ![c] = [pc |-> "enqueue", job |-> n(operationVersion + 1)]]
    BY <1>2 DEF RequestDatabaseAction, MoveTo, DeletionVersion
  <2>2. \A v \in Nat : n(v) \in Job /\ n(v).version = v /\ n(v).command = "destroy"
    BY DEF Job
  <2> HIDE DEF n
  <2>3. \A v \in Nat : api' = [api EXCEPT ![c] = [pc |-> "enqueue", job |-> n(v)]] => OneMore(n(v))
    BY <1>0, <2>1 DEF OneMore, Decided, OfApi, OfSweep
  <2>4. CASE operationVersion' = operationVersion + 1 /\ status' = "DELETING" /\ OneMore(n(operationVersion + 1))
    BY <1>0, <2>2, <2>4 DEF NewVersion
  <2>5. CASE status = "DELETING" /\ status' = status /\ operationVersion' = operationVersion
             /\ OneMore(n(operationVersion))
    BY <2>5 DEF DeletionRepeated, n
  <2>6. QED
    BY <1>0, <2>1, <2>3, <2>4, <2>5
<1>3. ASSUME NEW c \in Clients, EnqueueOk(c) \/ EnqueueError(c)
      PROVE  NothingNew
  <2>1. api[c] \in ApiPending /\ api[c] # Idle
    BY <1>3, Busy DEF EnqueueOk, EnqueueError, Idle
  <2>2. Decided(api[c].job)
    BY <2>1 DEF Decided, OfApi
  <2>3. known' \subseteq known \union {api[c].job}
    BY <1>3 DEF EnqueueOk, EnqueueError, AddJob, AddJobFails
  <2>4. \/ api' = [api EXCEPT ![c] = Idle]
        \/ api' = [api EXCEPT ![c].pc = "markFailed"]
    BY <1>3 DEF EnqueueOk, EnqueueError
  <2>5. \A j \in Job : OfApi(j)' => OfApi(j)
    BY <1>0, <2>1, <2>4 DEF OfApi, ApiPending
  <2>6. UNCHANGED <<status, operationVersion, sweep>>
    BY <1>3 DEF EnqueueOk, EnqueueError
  <2>7. QED
    BY <2>2, <2>3, <2>5, <2>6 DEF NothingNew, Decided, OfSweep
<1>4. ASSUME NEW c \in Clients, MarkOperationFailed(c) \/ CrashRequest(c)
      PROVE  NothingNew
  <2>1. /\ known' = known /\ sweep' = sweep /\ operationVersion' = operationVersion
        /\ status' \in {status, "FAILED"}
        /\ api' = [api EXCEPT ![c] = Idle]
    BY <1>4 DEF MarkOperationFailed, CrashRequest, MoveTo
  <2>2. QED
    BY <1>0, <2>1 DEF NothingNew, Decided, OfApi, OfSweep
<1>5. ASSUME NEW w \in Workers, WorkerNext(w)
      PROVE  NothingNew
  <2>1. UNCHANGED <<operationVersion, known, api, sweep>>
    BY <1>5 DEF WorkerNext, Claim, ClaimRejects, Advance, Provision, RecordProvisioned,
                StartMigration, CompleteMigration, Destroy, CompleteDestroy, Fail, PollHealth,
                FailRejects, ProvisionFails, StepFails, DestroyFails, Stall
  <2>2. status' \in {status, "PROVISIONING", "HEALTH_CHECK", "MIGRATING", "READY", "FAILED", "DELETED"}
    BY <1>5 DEF WorkerNext, Claim, ClaimRejects, Advance, Provision, RecordProvisioned,
                StartMigration, CompleteMigration, Destroy, CompleteDestroy, Fail, PollHealth,
                FailRejects, ProvisionFails, StepFails, DestroyFails, Stall, MoveTo
  <2>3. ASSUME status' \in InProvision, status \notin InProvision
        PROVE  \E j \in Job : Decided(j) /\ j.version = operationVersion /\ j.command = "provision"
    <3>1. PICK d \in queue : Claim(w, d) /\ MayClaim(d.job) /\ d.job.command # "destroy"
      BY <1>5, <2>3 DEF WorkerNext, Claim, ClaimRejects, Advance, Provision, RecordProvisioned,
                  StartMigration, CompleteMigration, Destroy, CompleteDestroy, Fail, PollHealth,
                  FailRejects, ProvisionFails, StepFails, DestroyFails, Stall, MoveTo, Owns
    <3>2. d.job \in known /\ d.job \in Job
      BY DEF JobsKnown, TypeOK
    <3>3. QED
      BY <3>1, <3>2 DEF MayClaim, Decided, Job
  <2>4. QED
    BY <2>1, <2>2, <2>3 DEF NothingNew, Decided, OfApi, OfSweep
<1>6. CASE RecoverStaleOperation
  <2> DEFINE n == [command |-> RecoveryCommand, version |-> operationVersion + 1]
  <2>1. /\ known' = known /\ api' = api /\ status' = status
        /\ sweep' = [pc |-> "dispatch", job |-> n]
        /\ operationVersion' = operationVersion + 1
        /\ status \in Recoverable
    BY <1>6 DEF RecoverStaleOperation, IsCandidate
  <2>2. /\ n \in Job /\ n.version = operationVersion + 1
        /\ status = "DELETING" => n.command = "destroy"
        /\ status # "DELETING" => n.command = "provision"
    BY <1>0 DEF Job, RecoveryCommand
  <2> HIDE DEF n
  <2>3. OneMore(n)
    BY <2>1 DEF OneMore, Decided, OfApi, OfSweep
  <2>4. QED
    BY <2>1, <2>2, <2>3 DEF NewVersion, Recoverable
<1>7. CASE DispatchRecovery \/ DispatchFails
  <2>1. sweep \in SweepPending /\ sweep # Idle
    BY <1>7, Busy DEF DispatchRecovery, DispatchFails, Idle
  <2>2. Decided(sweep.job)
    BY <2>1 DEF Decided, OfSweep
  <2>3. known' \subseteq known \union {sweep.job}
    BY <1>7 DEF DispatchRecovery, DispatchFails, AddJob, AddJobFails
  <2>4. sweep' = Idle \/ sweep' = [sweep EXCEPT !.pc = "record"]
    BY <1>7 DEF DispatchRecovery, DispatchFails
  <2>5. \A j \in Job : OfSweep(j)' => OfSweep(j)
    BY <2>1, <2>4 DEF OfSweep, SweepPending
  <2>6. UNCHANGED <<status, operationVersion, api>>
    BY <1>7 DEF DispatchRecovery, DispatchFails
  <2>7. QED
    BY <2>2, <2>3, <2>5, <2>6 DEF NothingNew, Decided, OfApi
<1>8. CASE ExhaustRecovery \/ RecordDispatchFailure \/ CrashSweep \/ GrowStale
  <2>1. /\ known' = known /\ api' = api /\ operationVersion' = operationVersion
        /\ status' \in {status, "FAILED"}
        /\ sweep' \in {sweep, Idle}
    BY <1>8 DEF ExhaustRecovery, RecordDispatchFailure, CrashSweep, GrowStale, MoveTo
  <2>2. QED
    BY <2>1 DEF NothingNew, Decided, OfApi, OfSweep
<1>9. CASE UNCHANGED vars
  BY <1>9 DEF vars, NothingNew, Decided, OfApi, OfSweep
<1>10. QED
  BY <1>1, <1>2, <1>3, <1>4, <1>5, <1>6, <1>7, <1>8, <1>9 DEF Next, ApiNext, Reconcile

\* What a worker does to the executions: it takes a delivery, goes on, stops,
\* or puts back what it holds.
LEMMA ExecutionsKept ==
    ASSUME TypeOK, ExecutionsInv, [Next]_vars
    PROVE  ExecutionsInv'
<1> USE DEF row, outside, jobs, ExecutionsInv
<1>0. worker \in [Workers -> {Idle} \union Execution] /\ queue \in SUBSET Delivery
  BY DEF TypeOK
<1>1. CASE worker' = worker /\ known \subseteq known' /\ \A d \in queue' : d.job \in known'
  BY <1>1 DEF JobsKnown, DoesItsCommand
<1>2. ASSUME NEW c \in Clients, ApiNext(c)
      PROVE  ExecutionsInv'
  <2>1. /\ worker' = worker
        /\ known \subseteq known' /\ \A d \in queue' : d.job \in known'
    BY <1>2 DEF ApiNext, CreateDatabaseOperation, RequestDatabaseAction, EnqueueOk, EnqueueError,
                MarkOperationFailed, CrashRequest, AddJob, AddJobFails, NewDelivery, JobsKnown
  <2>2. QED
    BY <1>1, <2>1
<1>3. CASE Reconcile \/ GrowStale \/ UNCHANGED vars
  <2>1. /\ worker' = worker
        /\ known \subseteq known' /\ \A d \in queue' : d.job \in known'
    BY <1>3 DEF Reconcile, RecoverStaleOperation, ExhaustRecovery, DispatchRecovery, DispatchFails,
                RecordDispatchFailure, CrashSweep, GrowStale, vars, AddJob, AddJobFails,
                NewDelivery, JobsKnown
  <2>2. QED
    BY <1>1, <2>1
<1>4. ASSUME NEW w \in Workers, WorkerNext(w)
      PROVE  ExecutionsInv'
  <2>0. known' = known
    BY <1>4 DEF WorkerNext, Claim, ClaimRejects, Advance, Provision, RecordProvisioned,
                StartMigration, CompleteMigration, Destroy, CompleteDestroy, Fail, PollHealth,
                FailRejects, ProvisionFails, StepFails, DestroyFails, Stall
  <2>1. \A d \in queue' : d.job \in known
    <3>1. \A d \in queue : /\ d.job \in known
                           /\ [d EXCEPT !.made = @ + 1].job \in known
      BY <1>0 DEF JobsKnown, Delivery
    <3>2. worker[w] # Idle =>
            /\ [worker[w].delivery EXCEPT !.made = @ + 1].job \in known
            /\ [worker[w].delivery EXCEPT !.stalls = @ + 1].job \in known
      BY <1>0 DEF JobsKnown, Execution, Delivery
    <3>3. worker[w].pc = "fail" => worker[w] # Idle
      BY DEF Idle
    <3>4. QED
      BY <1>4, <3>1, <3>2, <3>3 DEF WorkerNext, Claim, ClaimRejects, Advance, Provision, RecordProvisioned,
                StartMigration, CompleteMigration, Destroy, CompleteDestroy, Fail, PollHealth,
                FailRejects, ProvisionFails, StepFails, DestroyFails, Stall, Redeliver
  <2> DEFINE Good(e) ==
          /\ e # Idle => e.delivery.job \in known
          /\ e.pc \in {"provision", "record", "health", "migrate"} =>
               e.delivery.job.command = "provision"
          /\ e.pc \in {"destroy", "deleted"} => e.delivery.job.command = "destroy"
  <2>2. ASSUME NEW e \in {Idle} \union Execution, worker' = [worker EXCEPT ![w] = e], Good(e)
        PROVE  ExecutionsInv'
    BY <1>0, <2>0, <2>1, <2>2 DEF JobsKnown, DoesItsCommand
  <2>3. Good(Idle)
    BY DEF Idle
  <2>4. ASSUME worker' = worker
        PROVE  ExecutionsInv'
    BY <1>1, <2>0, <2>1, <2>4
  <2>5. ASSUME NEW d \in queue, Claim(w, d)
        PROVE  ExecutionsInv'
    <3> DEFINE e == [pc |-> d.job.command, delivery |-> d, locked |-> TRUE,
                     linked |-> linked, retry |-> FALSE]
    <3>1. e \in Execution /\ Good(e)
      BY <1>0 DEF Execution, Delivery, Job, TypeOK, JobsKnown
    <3>2. worker' = worker \/ worker' = [worker EXCEPT ![w] = e]
      BY <2>5 DEF Claim
    <3> HIDE DEF e, Good
    <3>3. QED
      BY <2>2, <2>4, <3>1, <3>2
  <2>6. ASSUME NEW d \in queue, ClaimRejects(w, d)
        PROVE  ExecutionsInv'
    BY <2>4, <2>6 DEF ClaimRejects
  <2>7. ASSUME worker[w] # Idle,
               \/ worker' = [worker EXCEPT ![w].locked = FALSE]
               \/ Goto(w, "record") /\ worker[w].pc = "provision"
               \/ Goto(w, "health") /\ worker[w].pc = "record"
               \/ Goto(w, "migrate") /\ worker[w].pc = "health"
               \/ Goto(w, "deleted") /\ worker[w].pc = "destroy"
               \/ \E retryable \in BOOLEAN : Throw(w, retryable)
        PROVE  ExecutionsInv'
    <3>1. worker[w] \in Execution /\ Good(worker[w])
      BY <1>0, <2>7 DEF JobsKnown, DoesItsCommand
    <3>2. PICK e \in Execution :
            /\ worker' = [worker EXCEPT ![w] = e]
            /\ e.delivery = worker[w].delivery
            /\ \/ e.pc = worker[w].pc
               \/ e.pc = "record" /\ worker[w].pc = "provision"
               \/ e.pc = "health" /\ worker[w].pc = "record"
               \/ e.pc = "migrate" /\ worker[w].pc = "health"
               \/ e.pc = "deleted" /\ worker[w].pc = "destroy"
               \/ e.pc = "fail"
      <4>1. CASE worker' = [worker EXCEPT ![w].locked = FALSE]
        <5>1. [worker[w] EXCEPT !.locked = FALSE] \in Execution
          BY <3>1 DEF Execution
        <5>2. QED
          BY <3>1, <4>1, <5>1 DEF Execution
      <4>2. ASSUME NEW pc \in {"record", "health", "migrate", "deleted"}, Goto(w, pc)
            PROVE  /\ [worker[w] EXCEPT !.pc = pc] \in Execution
                   /\ worker' = [worker EXCEPT ![w] = [worker[w] EXCEPT !.pc = pc]]
                   /\ [worker[w] EXCEPT !.pc = pc].delivery = worker[w].delivery
                   /\ [worker[w] EXCEPT !.pc = pc].pc = pc
        BY <3>1, <4>2 DEF Execution, Goto
      <4>3. ASSUME NEW retryable \in BOOLEAN, Throw(w, retryable)
            PROVE  /\ [worker[w] EXCEPT !.pc = "fail", !.retry = retryable] \in Execution
                   /\ worker' = [worker EXCEPT ![w] = [worker[w] EXCEPT !.pc = "fail", !.retry = retryable]]
                   /\ [worker[w] EXCEPT !.pc = "fail", !.retry = retryable].delivery = worker[w].delivery
                   /\ [worker[w] EXCEPT !.pc = "fail", !.retry = retryable].pc = "fail"
        BY <3>1, <4>3 DEF Execution, Throw
      <4>4. QED
        BY <2>7, <4>1, <4>2, <4>3
    <3>3. Good(e)
      BY <3>1, <3>2 DEF Idle, Execution
    <3> HIDE DEF Good
    <3>4. QED
      BY <2>2, <3>2, <3>3
  <2>8. ASSUME End(w)
        PROVE  ExecutionsInv'
    <3> HIDE DEF Good
    <3>1. QED
      BY <2>2, <2>3, <2>8 DEF End
  <2>9. CASE Advance(w) \/ PollHealth(w) \/ FailRejects(w)
    <3>1. worker[w] # Idle
      BY <2>9 DEF Advance, Provision, RecordProvisioned, StartMigration, CompleteMigration, Destroy,
                  CompleteDestroy, Fail, PollHealth, FailRejects, Idle
    <3>2. QED
      BY <2>4, <2>7, <2>8, <2>9, <3>1 DEF Advance, Provision, RecordProvisioned, StartMigration,
                  CompleteMigration, Destroy, CompleteDestroy, Fail, PollHealth, FailRejects
  <2>10. ASSUME NEW retryable \in BOOLEAN,
                ProvisionFails(w, retryable) \/ StepFails(w, retryable) \/ DestroyFails(w, retryable)
         PROVE  ExecutionsInv'
    <3>0. worker[w].pc \in {"provision", "record", "health", "migrate", "deleted", "destroy"}
      BY <2>10 DEF ProvisionFails, StepFails, DestroyFails
    <3>1. worker[w] # Idle
      BY <3>0 DEF Idle
    <3>2. QED
      BY <2>7, <2>10, <3>1 DEF ProvisionFails, StepFails, DestroyFails
  <2>11. ASSUME NEW survives \in BOOLEAN, Stall(w, survives)
         PROVE  ExecutionsInv'
    BY <2>7, <2>8, <2>11 DEF Stall
  <2>12. QED
    BY <1>4, <2>5, <2>6, <2>9, <2>10, <2>11 DEF WorkerNext
<1>5. QED
  BY <1>2, <1>3, <1>4 DEF Next

LEMMA InitJobs == Init => VersionsInv /\ ExecutionsInv
BY DEF Init, VersionsInv, NoJobIsAhead, OneCommand, DeletingIsDestroy, NoneIsUntouched,
       ProvisionIsProvision, InProvision, Decided, OfApi, OfSweep, ExecutionsInv, JobsKnown,
       DoesItsCommand, Idle

LEMMA JobsInvariant == Spec => [](TypeOK /\ VersionsInv /\ ExecutionsInv)
<1>1. TypeOK /\ VersionsInv /\ ExecutionsInv /\ [Next]_vars => VersionsInv'
  BY StepDecides, VersionsKept DEF ExecutionsInv
<1>2. TypeOK /\ ExecutionsInv /\ [Next]_vars => ExecutionsInv'
  BY ExecutionsKept
<1>3. QED
  BY <1>1, <1>2, InitJobs, TypeCorrect, PTL DEF Spec

\* A version serves one command, so the job id tells executions apart: a
\* request, a repeated request and a recovery never share a version for both.
THEOREM OneCommandPerVersionHolds == Spec => []OneCommandPerVersion
<1>1. TypeOK /\ VersionsInv => OneCommandPerVersion
  BY DEF TypeOK, VersionsInv, OneCommand, OneCommandPerVersion, Decided
<1>2. QED
  BY <1>1, JobsInvariant, PTL

-----------------------------------------------------------------------------
(* A READY database is usable                                              *)

LEMMA UsableKept ==
    ASSUME Usable, [Next]_vars
    PROVE  Usable'
<1> USE DEF row, outside
<1>1. CASE UNCHANGED <<status, linked, secretActive, migration>>
  BY <1>1 DEF Usable
<1>2. CASE /\ status' \notin {"HEALTH_CHECK", "MIGRATING", "READY"}
  BY <1>2 DEF Usable
<1>3. ASSUME NEW c \in Clients, ApiNext(c)
      PROVE  Usable'
  BY <1>1, <1>2, <1>3 DEF ApiNext, CreateDatabaseOperation, RequestDatabaseAction, EnqueueOk,
          EnqueueError, MarkOperationFailed, CrashRequest, MoveTo
<1>4. CASE Reconcile \/ GrowStale \/ UNCHANGED vars
  BY <1>1, <1>2, <1>4 DEF Reconcile, RecoverStaleOperation, ExhaustRecovery, DispatchRecovery,
          DispatchFails, RecordDispatchFailure, CrashSweep, GrowStale, vars, MoveTo
<1>5. ASSUME NEW w \in Workers, WorkerNext(w)
      PROVE  Usable'
  <2>1. CASE RecordProvisioned(w) \/ StartMigration(w) \/ CompleteMigration(w)
    BY <2>1 DEF RecordProvisioned, StartMigration, CompleteMigration, Owns, MoveTo, Usable
  <2>2. CASE CompleteDestroy(w)
    BY <1>1, <1>2, <2>2 DEF CompleteDestroy, MoveTo
  <2>3. CASE Fail(w)
    BY <2>3 DEF Fail, ClosedMigration, MoveTo, Usable
  <2>4. CASE PollHealth(w) \/ FailRejects(w) \/ Provision(w) \/ Destroy(w)
    BY <1>1, <2>4 DEF PollHealth, FailRejects, Provision, Destroy, MoveTo
  <2>5. ASSUME NEW d \in queue, Claim(w, d) \/ ClaimRejects(w, d)
        PROVE  Usable'
    BY <1>1, <1>2, <2>5 DEF Claim, ClaimRejects, MoveTo
  <2>6. ASSUME NEW retryable \in BOOLEAN,
               ProvisionFails(w, retryable) \/ StepFails(w, retryable) \/ DestroyFails(w, retryable)
        PROVE  Usable'
    BY <1>1, <2>6 DEF ProvisionFails, StepFails, DestroyFails
  <2>7. ASSUME NEW survives \in BOOLEAN, Stall(w, survives)
        PROVE  Usable'
    BY <1>1, <2>7 DEF Stall
  <2>8. QED
    BY <1>5, <2>1, <2>2, <2>3, <2>4, <2>5, <2>6, <2>7 DEF WorkerNext, Advance
<1>6. QED
  BY <1>3, <1>4, <1>5 DEF Next

\* A deletion that has been replaced stays one: jobs are never forgotten and the
\* version only rises.
LEMMA SupersededStays ==
    ASSUME TypeOK, [Next]_vars
    PROVE  /\ operationVersion' \in Nat /\ operationVersion <= operationVersion'
           /\ SupersededDeletion => SupersededDeletion'
<1> DEFINE Rises == /\ operationVersion' \in {operationVersion, operationVersion + 1}
                    /\ known \subseteq known'
<1>1. Rises
  <2> USE DEF row, outside, jobs
  <2>1. ASSUME NEW c \in Clients, ApiNext(c)
        PROVE  Rises
    BY <2>1 DEF ApiNext, CreateDatabaseOperation, RequestDatabaseAction, DeletionVersion, EnqueueOk,
                EnqueueError, MarkOperationFailed, CrashRequest, AddJob, AddJobFails
  <2>2. ASSUME Reconcile \/ GrowStale \/ UNCHANGED vars
        PROVE  Rises
    BY <2>2 DEF Reconcile, RecoverStaleOperation, ExhaustRecovery, DispatchRecovery, DispatchFails,
                RecordDispatchFailure, CrashSweep, GrowStale, vars, AddJob, AddJobFails
  <2>3. ASSUME NEW w \in Workers, WorkerNext(w)
        PROVE  Rises
    BY <2>3 DEF WorkerNext, Claim, ClaimRejects, Advance, Provision, RecordProvisioned,
                StartMigration, CompleteMigration, Destroy, CompleteDestroy, Fail, PollHealth,
                FailRejects, ProvisionFails, StepFails, DestroyFails, Stall
  <2> HIDE DEF Rises
  <2>4. QED
    BY <2>1, <2>2, <2>3 DEF Next
<1>2. operationVersion \in Nat /\ \A j \in known : j.version \in Nat
  BY DEF TypeOK, Job
<1>3. QED
  BY <1>1, <1>2 DEF SupersededDeletion

\* The project is lost only to an execution of a deletion; where a provision of
\* the row's version has come as far as its answer, that deletion is replaced.
LEMMA ProjectKept ==
    ASSUME TypeOK, VersionsInv, ExecutionsInv, ProjectInv, [Next]_vars
    PROVE  ProjectInv'
<1> USE DEF row, outside, jobs
<1>0. /\ worker \in [Workers -> {Idle} \union Execution]
      /\ operationVersion \in Nat /\ known \in SUBSET Job /\ resource \in BOOLEAN
  BY DEF TypeOK
<1>1. \A j \in known : j.version <= operationVersion /\ j.version \in Nat
  BY <1>0 DEF VersionsInv, NoJobIsAhead, Decided, Job
<1>2. ASSUME NEW w \in Workers, worker[w].pc \in {"provision", "record", "health", "migrate", "destroy"}
      PROVE  worker[w].delivery.job \in known /\ VersionOf(w) <= operationVersion /\ VersionOf(w) \in Nat
  <2>1. worker[w] # Idle
    BY <1>2 DEF Idle
  <2>2. QED
    BY <1>1, <2>1 DEF ExecutionsInv, JobsKnown, VersionOf
<1> DEFINE Provisioned ==
        \/ status \in {"HEALTH_CHECK", "MIGRATING", "READY"}
        \/ \E w \in Workers : worker[w].pc = "record" /\ SameVersion(w)
<1>3. Provisioned => HasProject
  BY DEF ProjectInv
<1>4. ASSUME NEW w \in Workers, worker[w].pc = "destroy", Provisioned
      PROVE  SupersededDeletion
  <2> DEFINE j == worker[w].delivery.job
  <2>1. j \in known /\ j \in Job /\ j.version <= operationVersion /\ j.version \in Nat
    BY <1>0, <1>2, <1>4 DEF VersionOf
  <2>2. j.command = "destroy"
    BY <1>4 DEF ExecutionsInv, DoesItsCommand
  <2>3. j.version # operationVersion
    <3>1. CASE status \in {"HEALTH_CHECK", "MIGRATING", "READY"}
      BY <2>1, <2>2, <3>1 DEF VersionsInv, ProvisionIsProvision, InProvision, Decided
    <3>2. ASSUME NEW v \in Workers, worker[v].pc = "record", SameVersion(v)
          PROVE  j.version # operationVersion
      <4>1. worker[v].delivery.job \in known /\ worker[v].delivery.job.command = "provision"
        BY <1>2, <3>2 DEF ExecutionsInv, DoesItsCommand
      <4>2. worker[v].delivery.job.version = operationVersion
        BY <3>2 DEF SameVersion, VersionOf
      <4>3. QED
        BY <1>0, <2>1, <2>2, <4>1, <4>2 DEF VersionsInv, OneCommand, Decided
    <3>3. QED
      BY <1>4, <3>1, <3>2
  <2>4. QED
    BY <1>0, <2>1, <2>2, <2>3 DEF SupersededDeletion
<1>5. HasProject /\ Provisioned => HasProject'
  <2>1. CASE SupersededDeletion
    BY <2>1, SupersededStays DEF HasProject
  <2>2. CASE resource' = resource \/ resource'
    BY <2>2, SupersededStays DEF HasProject
  <2>3. CASE resource' # resource /\ ~ resource'
    <3>1. PICK w \in Workers : worker[w].pc = "destroy"
      <4>1. ASSUME NEW c \in Clients, ApiNext(c)
            PROVE  resource' = resource
        BY <4>1 DEF ApiNext, CreateDatabaseOperation, RequestDatabaseAction, EnqueueOk, EnqueueError,
                    MarkOperationFailed, CrashRequest
      <4>2. ASSUME Reconcile \/ GrowStale \/ UNCHANGED vars
            PROVE  resource' = resource
        BY <4>2 DEF Reconcile, RecoverStaleOperation, ExhaustRecovery, DispatchRecovery,
                    DispatchFails, RecordDispatchFailure, CrashSweep, GrowStale, vars
      <4>3. PICK w \in Workers : WorkerNext(w)
        BY <2>3, <4>1, <4>2 DEF Next
      <4>4. QED
        BY <1>0, <2>3, <4>3 DEF WorkerNext, Claim, ClaimRejects, Advance, Provision, RecordProvisioned,
                StartMigration, CompleteMigration, Destroy, CompleteDestroy, Fail, PollHealth,
                FailRejects, ProvisionFails, StepFails, DestroyFails, Stall
    <3>2. QED
      BY <1>4, <3>1, SupersededStays DEF HasProject
  <2>4. QED
    BY <2>1, <2>2, <2>3
<1>6. Provisioned' => Provisioned \/ resource'
  <2>1. ASSUME status' \in {"HEALTH_CHECK", "MIGRATING", "READY"}
        PROVE  Provisioned
    <3>1. ASSUME NEW c \in Clients, ApiNext(c)
          PROVE  status' = status \/ status' \in {"QUEUED", "DELETING", "FAILED"}
      BY <3>1 DEF ApiNext, CreateDatabaseOperation, RequestDatabaseAction, EnqueueOk, EnqueueError,
                  MarkOperationFailed, CrashRequest, MoveTo
    <3>2. CASE Reconcile \/ GrowStale \/ UNCHANGED vars
      BY <2>1, <3>2 DEF Reconcile, RecoverStaleOperation, ExhaustRecovery, DispatchRecovery,
                  DispatchFails, RecordDispatchFailure, CrashSweep, GrowStale, vars, MoveTo
    <3>3. ASSUME NEW w \in Workers, WorkerNext(w)
          PROVE  Provisioned
      BY <2>1, <3>3 DEF WorkerNext, Claim, ClaimRejects, Advance, Provision, RecordProvisioned,
              StartMigration, CompleteMigration, Destroy, CompleteDestroy, Fail, PollHealth,
              FailRejects, ProvisionFails, StepFails, DestroyFails, Stall, MoveTo, Owns
    <3>4. QED
      BY <2>1, <3>1, <3>2, <3>3 DEF Next
  <2>2. ASSUME NEW w \in Workers, worker'[w].pc = "record", SameVersion(w)'
        PROVE  Provisioned \/ resource'
    <3>1. CASE worker'[w] = worker[w]
      <4>1. VersionOf(w) <= operationVersion /\ VersionOf(w) \in Nat
        BY <1>2, <2>2, <3>1
      <4>2. VersionOf(w) = operationVersion'
        BY <2>2, <3>1 DEF SameVersion, VersionOf
      <4>3. SameVersion(w)
        BY <1>0, <4>1, <4>2, SupersededStays DEF SameVersion
      <4>4. QED
        BY <2>2, <3>1, <4>3
    <3>2. CASE worker'[w] # worker[w]
      <4>1. worker' # worker
        BY <3>2
      <4>2. ASSUME NEW c \in Clients, ApiNext(c)
            PROVE  worker' = worker
        BY <4>2 DEF ApiNext, CreateDatabaseOperation, RequestDatabaseAction, EnqueueOk, EnqueueError,
                    MarkOperationFailed, CrashRequest
      <4>3. ~ Reconcile /\ ~ GrowStale /\ ~ UNCHANGED vars
        BY <4>1 DEF Reconcile, RecoverStaleOperation, ExhaustRecovery, DispatchRecovery,
                    DispatchFails, RecordDispatchFailure, CrashSweep, GrowStale, vars
      <4>4. PICK v \in Workers : WorkerNext(v)
        BY <4>1, <4>2, <4>3 DEF Next
      <4>5. /\ operationVersion' = operationVersion
            /\ \/ resource'
               \/ \E b \in BOOLEAN : worker' = [worker EXCEPT ![v].locked = b]
               \/ \E e : worker' = [worker EXCEPT ![v] = e] /\ e.pc # "record"
        <5>1. operationVersion' = operationVersion
          BY <4>4 DEF WorkerNext, Claim, ClaimRejects, Advance, Provision, RecordProvisioned,
              StartMigration, CompleteMigration, Destroy, CompleteDestroy, Fail, PollHealth,
              FailRejects, ProvisionFails, StepFails, DestroyFails, Stall
        <5>2. CASE Provision(v)
          BY <5>1, <5>2 DEF Provision
        <5>3. ASSUME End(v)
              PROVE  \E e : worker' = [worker EXCEPT ![v] = e] /\ e.pc # "record"
          <6>1. Idle.pc # "record" /\ worker' = [worker EXCEPT ![v] = Idle]
            BY <5>3 DEF End, Idle
          <6>2. QED
            BY <6>1
        <5>4. ASSUME worker[v] # Idle,
                     (\E pc \in {"health", "migrate", "deleted"} : Goto(v, pc))
                       \/ \E retryable \in BOOLEAN : Throw(v, retryable)
              PROVE  \E e : worker' = [worker EXCEPT ![v] = e] /\ e.pc # "record"
          <6>1. worker[v] \in Execution
            BY <1>0, <5>4
          <6>2. \A pc \in {"health", "migrate", "deleted"} :
                   Goto(v, pc) => worker' = [worker EXCEPT ![v] = [worker[v] EXCEPT !.pc = pc]]
                                  /\ [worker[v] EXCEPT !.pc = pc].pc # "record"
            BY <6>1 DEF Goto, Execution
          <6>3. \A retryable \in BOOLEAN :
                   Throw(v, retryable) =>
                     /\ worker' = [worker EXCEPT ![v] = [worker[v] EXCEPT !.pc = "fail", !.retry = retryable]]
                     /\ [worker[v] EXCEPT !.pc = "fail", !.retry = retryable].pc # "record"
            BY <6>1 DEF Throw, Execution
          <6>4. QED
            BY <5>4, <6>2, <6>3
        <5>5. worker[v].pc \in {"record", "health", "migrate", "destroy", "deleted", "provision", "fail"}
                 => worker[v] # Idle
          BY DEF Idle
        <5>6. CASE RecordProvisioned(v) \/ StartMigration(v) \/ CompleteMigration(v) \/ Destroy(v)
                     \/ CompleteDestroy(v) \/ Fail(v) \/ PollHealth(v) \/ FailRejects(v)
          BY <4>1, <5>1, <5>3, <5>4, <5>5, <5>6 DEF RecordProvisioned, StartMigration, CompleteMigration,
              Destroy, CompleteDestroy, Fail, PollHealth, FailRejects
        <5>7. ASSUME NEW retryable \in BOOLEAN,
                     ProvisionFails(v, retryable) \/ StepFails(v, retryable) \/ DestroyFails(v, retryable)
              PROVE  \E e : worker' = [worker EXCEPT ![v] = e] /\ e.pc # "record"
          BY <5>4, <5>5, <5>7 DEF ProvisionFails, StepFails, DestroyFails
        <5>8. ASSUME NEW survives \in BOOLEAN, Stall(v, survives)
              PROVE  \/ \E b \in BOOLEAN : worker' = [worker EXCEPT ![v].locked = b]
                     \/ \E e : worker' = [worker EXCEPT ![v] = e] /\ e.pc # "record"
          BY <5>3, <5>8 DEF Stall
        <5>9. ASSUME NEW d \in queue, Claim(v, d) \/ ClaimRejects(v, d)
              PROVE  \E e : worker' = [worker EXCEPT ![v] = e] /\ e.pc # "record"
          <6> DEFINE e == [pc |-> d.job.command, delivery |-> d, locked |-> TRUE,
                           linked |-> linked, retry |-> FALSE]
          <6>1. e.pc # "record"
            BY DEF TypeOK, Delivery, Job
          <6>2. worker' = [worker EXCEPT ![v] = e]
            BY <4>1, <5>9 DEF Claim, ClaimRejects
          <6> HIDE DEF e
          <6>3. QED
            BY <6>1, <6>2
        <5>10. QED
          BY <4>4, <5>1, <5>2, <5>6, <5>7, <5>8, <5>9 DEF WorkerNext, Advance
      <4>6. CASE \E b \in BOOLEAN : worker' = [worker EXCEPT ![v].locked = b]
        <5>1. v = w
          BY <1>0, <3>2, <4>6
        <5>2. worker[w].pc = "record" /\ VersionOf(w)' = VersionOf(w)
          <6>1. CASE worker[w] = Idle
            BY <1>0, <2>2, <4>6, <5>1, <6>1 DEF Idle
          <6>2. CASE worker[w] \in Execution
            BY <1>0, <2>2, <4>6, <5>1, <6>2 DEF Execution, VersionOf
          <6>3. QED
            BY <1>0, <6>1, <6>2
        <5>3. QED
          BY <2>2, <4>5, <5>2 DEF SameVersion
      <4>7. CASE \E e : worker' = [worker EXCEPT ![v] = e] /\ e.pc # "record"
        BY <1>0, <2>2, <3>2, <4>7
      <4>8. QED
        BY <4>5, <4>6, <4>7
    <3>3. QED
      BY <3>1, <3>2
  <2>3. QED
    BY <2>1, <2>2
<1>7. Provisioned' => HasProject'
  BY <1>3, <1>5, <1>6 DEF HasProject
<1>8. QED
  BY <1>7 DEF ProjectInv

\* No mixture of two executions or two attempts makes a row READY that is not
\* linked, has no active secret or did not migrate; and its project is there
\* unless a deletion that recovery has replaced was still destroying.
THEOREM ReadyIsUsableHolds == Spec => []ReadyIsUsable
<1>1. Init => Usable /\ ProjectInv
  BY DEF Init, Usable, ProjectInv, Idle
<1>2. Usable /\ ProjectInv => ReadyIsUsable
  BY DEF Usable, ProjectInv, HasProject, ReadyIsUsable
<1>3. TypeOK /\ VersionsInv /\ ExecutionsInv /\ ProjectInv /\ [Next]_vars => ProjectInv'
  BY ProjectKept
<1>4. Usable /\ [Next]_vars => Usable'
  BY UsableKept
<1>5. QED
  BY <1>1, <1>2, <1>3, <1>4, JobsInvariant, PTL DEF Spec

=================================================================================
