---------------------------- MODULE OrphanCleanup ----------------------------
(***************************************************************************)
(* The provider's inventory against the control plane: sweeps that compare *)
(* the two, findings, an operator's approval, and the cleanup of projects  *)
(* nobody tracks, while executions of the one generated database look its  *)
(* project up by name, create it and record it.  DatabaseLifecycle has the *)
(* details of an execution; here it is the calls that touch the provider   *)
(* or the external id.  Several projects of one name exist only because    *)
(* executions overlap.                                                     *)
(***************************************************************************)
EXTENDS Naturals, FiniteSets

CONSTANTS
    Workers,           \* executions of the database operation at once
    SweepBound,        \* bound: sweeps, in the order in which they begin
    MaxResources,      \* bound: projects the provider creates
    VersionBound,      \* bound: no operation starts at or above this version
    AbandonedSurvives, \* may a sweep live on after its lease expired?
    CleanupEnabled     \* DATABASE_APPROVED_ORPHAN_CLEANUP_ENABLED

(* What the constants satisfy; the modules that instantiate this one assume it. *)
OrphanCleanupAssumption ==
    /\ {SweepBound, MaxResources, VersionBound} \subseteq Nat
    /\ {AbandonedSurvives, CleanupEnabled} \subseteq BOOLEAN

Resources == 1 .. MaxResources
Sweeps == 1 .. SweepBound

VARIABLES
    status,      \* database_instances.status, without the steps in between
    version,     \* database_instances.operation_version
    externalId,  \* database_instances.external_id, 0 for null
    exists,      \* provider: the projects that exist
    created,     \* provider: projects created so far
    exec,        \* the execution each worker is in
    lease,       \* database_reconciliation_sweeps.status, and "expired" RUNNING
    sweep,       \* what the process of each sweep is doing and has read
    orphan,      \* the ORPHAN_PROVIDER_RESOURCE finding of each project
    missing,     \* the PROVIDER_RESOURCE_MISSING finding of the database
    seenBy       \* history: sweeps that saw the project untracked since one saw
                 \* it tracked or gone

row == <<status, version, externalId>>
provider == <<exists, created>>
findings == <<orphan, missing, seenBy>>
vars == <<row, provider, exec, lease, sweep, findings>>

Statuses == {"PROVISIONING", "READY", "FAILED", "DELETING", "DELETED"}
Idle == [pc |-> "idle"]
Exec == {Idle} \union [pc : {"list", "create", "destroy"}, version : Nat]
               \union [pc : {"record"}, version : Nat, ext : Resources]
Leases == {"none", "RUNNING", "expired", "SUCCEEDED", "FAILED"}
NoRow == [ext |-> 0, version |-> 0, status |-> "DELETED"]
Tracked == [ext : 0 .. MaxResources, version : Nat, status : Statuses]
SweepPcs == {"idle", "inventory", "tracked", "missing", "orphans", "claim", "destroy",
             "resolve", "unseen"}
NewSweep == [pc |-> "idle", inv |-> {}, trk |-> NoRow, todo |-> {}, at |-> 0]
SweepState == [pc : SweepPcs, inv : SUBSET Resources, trk : Tracked,
               todo : SUBSET Resources, at : 0 .. MaxResources]
FindingStatuses == {"none", "OPEN", "APPROVED", "CLEANING", "RESOLVED"}
NoFinding == [status |-> "none", count |-> 0, due |-> FALSE, approved |-> FALSE, sweep |-> 0]
Finding == [status : FindingStatuses, count : 0 .. 2, due : BOOLEAN, approved : BOOLEAN,
            sweep : 0 .. SweepBound]

TypeOK ==
    /\ status \in Statuses
    /\ version \in Nat
    /\ externalId \in 0 .. MaxResources
    /\ exists \subseteq Resources /\ created \in 0 .. MaxResources
    /\ exec \in [Workers -> Exec]
    /\ lease \in [Sweeps -> Leases]
    /\ sweep \in [Sweeps -> SweepState]
    /\ orphan \in [Resources -> Finding]
    /\ missing \in Finding
    /\ seenBy \in [Resources -> SUBSET Sweeps]

Init ==
    /\ status = "PROVISIONING" /\ version = 0 /\ externalId = 0
    /\ exists = {} /\ created = 0
    /\ exec = [w \in Workers |-> Idle]
    /\ lease = [s \in Sweeps |-> "none"]
    /\ sweep = [s \in Sweeps |-> NewSweep]
    /\ orphan = [x \in Resources |-> NoFinding]
    /\ missing = NoFinding
    /\ seenBy = [x \in Resources |-> {}]

\* listTrackedResources: `externalId not null, status not DELETED`.
IsTracked(x) == externalId = x /\ status # "DELETED"

-----------------------------------------------------------------------------
(* Executions of the database operation *)

\* A first claim, or a recovery that fences the execution before it.
BeginProvision(w) ==
    /\ exec[w] = Idle
    /\ status \in {"PROVISIONING", "FAILED"}
    /\ version < VersionBound
    /\ version' = version + 1
    /\ status' = "PROVISIONING"
    /\ exec' = [exec EXCEPT ![w] = [pc |-> "list", version |-> version + 1]]
    /\ UNCHANGED <<externalId, provider, lease, sweep, findings>>

\* provider.provision: a project of that name is adopted ...
AdoptByName(w) ==
    /\ exec[w].pc = "list"
    /\ \E x \in exists :
         exec' = [exec EXCEPT ![w] = [pc |-> "record", version |-> @.version, ext |-> x]]
    /\ UNCHANGED <<row, provider, lease, sweep, findings>>

\* ... or there is none, and one is created after the listing.
FindNone(w) ==
    /\ exec[w].pc = "list"
    /\ exists = {}
    /\ exec' = [exec EXCEPT ![w].pc = "create"]
    /\ UNCHANGED <<row, provider, lease, sweep, findings>>

CreateProject(w) ==
    /\ exec[w].pc = "create"
    /\ created < MaxResources
    /\ created' = created + 1
    /\ exists' = exists \union {created + 1}
    /\ exec' = [exec EXCEPT ![w] = [pc |-> "record", version |-> @.version,
                                    ext |-> created + 1]]
    /\ UNCHANGED <<row, lease, sweep, findings>>

\* recordProvisioned and the migration after it, under the execution's version.
RecordProvisioned(w) ==
    /\ exec[w].pc = "record"
    /\ IF version = exec[w].version /\ status = "PROVISIONING"
       THEN externalId' = exec[w].ext /\ status' = "READY"
       ELSE UNCHANGED <<externalId, status>>
    /\ exec' = [exec EXCEPT ![w] = Idle]
    /\ UNCHANGED <<version, provider, lease, sweep, findings>>

\* The call or its answer is lost, or the worker dies.
ExecutionFails(w) ==
    /\ exec[w] # Idle
    /\ exec' = [exec EXCEPT ![w] = Idle]
    /\ status' = IF version = exec[w].version THEN "FAILED" ELSE status
    /\ UNCHANGED <<version, externalId, provider, lease, sweep, findings>>

BeginDestroy(w) ==
    /\ exec[w] = Idle
    /\ status \in {"READY", "FAILED"}
    /\ version < VersionBound
    /\ version' = version + 1
    /\ status' = "DELETING"
    /\ exec' = [exec EXCEPT ![w] = [pc |-> "destroy", version |-> version + 1]]
    /\ UNCHANGED <<externalId, provider, lease, sweep, findings>>

\* provider.destroy of the recorded project, if any, and completeDestroy.
DestroyTracked(w) ==
    /\ exec[w].pc = "destroy"
    /\ exists' = exists \ {externalId}
    /\ status' = IF version = exec[w].version THEN "DELETED" ELSE status
    /\ exec' = [exec EXCEPT ![w] = Idle]
    /\ UNCHANGED <<version, externalId, created, lease, sweep, findings>>

-----------------------------------------------------------------------------
(* DatabaseReconciler.reconcile *)

Read(s, pc) == sweep[s].pc = pc
Goto(s, pc) == sweep' = [sweep EXCEPT ![s].pc = pc]

\* beginSweep, one serializable transaction: expired sweeps fail, their claims
\* are given back, and the partial unique index admits one RUNNING sweep.
Released == [x \in Resources |->
               IF orphan[x].status = "CLEANING" /\ lease[orphan[x].sweep] # "RUNNING"
               THEN [orphan[x] EXCEPT !.status = "APPROVED"] ELSE orphan[x]]

BeginSweep(s) ==
    /\ lease[s] = "none"
    /\ \A t \in Sweeps : t < s => lease[t] # "none"
    /\ \A t \in Sweeps : lease[t] # "RUNNING"
    /\ lease' = [t \in Sweeps |-> CASE t = s -> "RUNNING"
                                    [] lease[t] = "expired" -> "FAILED"
                                    [] OTHER -> lease[t]]
    /\ orphan' = Released
    /\ Goto(s, "inventory")
    /\ UNCHANGED <<row, provider, exec, missing, seenBy>>

\* A sweep that runs for longer than abandonedSweepAfterMs.
LeaseExpires(s) ==
    /\ lease[s] = "RUNNING"
    /\ lease' = [lease EXCEPT ![s] = "expired"]
    /\ IF AbandonedSurvives THEN UNCHANGED sweep ELSE sweep' = [sweep EXCEPT ![s] = NewSweep]
    /\ UNCHANGED <<row, provider, exec, findings>>

\* listManagedResources comes before listTrackedResources.
ListManaged(s) ==
    /\ Read(s, "inventory")
    /\ sweep' = [sweep EXCEPT ![s].pc = "tracked", ![s].inv = exists]
    /\ UNCHANGED <<row, provider, exec, lease, findings>>

ListTracked(s) ==
    /\ Read(s, "tracked")
    /\ sweep' = [sweep EXCEPT ![s].pc = "missing",
                   ![s].trk = IF externalId # 0 /\ status # "DELETED"
                              THEN [ext |-> externalId, version |-> version, status |-> status]
                              ELSE NoRow]
    /\ UNCHANGED <<row, provider, exec, lease, findings>>

\* observeFinding: a first or a resolved finding starts over.
Observed(f, s) ==
    IF f.status \in {"none", "RESOLVED"}
    THEN [status |-> "OPEN", count |-> 1, due |-> FALSE, approved |-> FALSE, sweep |-> s]
    ELSE [f EXCEPT !.count = 2, !.sweep = s]

Resolved_OpenOnly(f, from) == IF f.status = "OPEN" THEN [f EXCEPT !.status = "RESOLVED"] ELSE f
Resolved(f, from) == IF f.status \in from THEN [f EXCEPT !.status = "RESOLVED"] ELSE f

\* Observations a missing project needs before the row fails.
MissingThreshold == 2

\* observeMissingResource or resolveMissingResource of the tracked row.
CompareTracked(s) ==
    LET t == sweep[s].trk  f == Observed(missing, s) IN
    /\ Read(s, "missing")
    /\ IF t.ext = 0
       THEN UNCHANGED <<missing, status>>
       ELSE IF t.ext \in sweep[s].inv
       THEN missing' = Resolved(missing, {"OPEN", "APPROVED"}) /\ UNCHANGED status
       ELSE /\ missing' = f
            /\ status' = IF /\ f.count >= MissingThreshold
                            /\ t.status = "READY" /\ status = "READY"
                            /\ t.version = version
                         THEN "FAILED" ELSE status
    /\ sweep' = [sweep EXCEPT ![s].pc = "orphans", ![s].todo = sweep[s].inv]
    /\ UNCHANGED <<version, externalId, provider, exec, lease, orphan, seenBy>>

\* The next project of the inventory: adopted, or observed as an orphan.
CompareResource(s, x) ==
    LET f == Observed(orphan[x], s) IN
    /\ Read(s, "orphans")
    /\ x \in sweep[s].todo
    /\ IF sweep[s].trk.ext = x
       THEN /\ orphan' = [orphan EXCEPT ![x] = Resolved(@, {"OPEN", "APPROVED", "CLEANING"})]
            /\ seenBy' = [seenBy EXCEPT ![x] = {}]
            /\ sweep' = [sweep EXCEPT ![s].todo = @ \ {x}]
       ELSE /\ orphan' = [orphan EXCEPT ![x] = f]
            /\ seenBy' = [seenBy EXCEPT ![x] = @ \union {s}]
            /\ sweep' = [sweep EXCEPT ![s].todo = @ \ {x}, ![s].at = x,
                           ![s].pc = IF /\ CleanupEnabled
                                        /\ f.status = "APPROVED" /\ f.count >= 2 /\ f.due
                                     THEN "claim" ELSE "orphans"]
    /\ UNCHANGED <<row, provider, exec, lease, missing>>

\* claimOrphanCleanup, one serializable transaction.
MayClean(s, x) ==
    /\ lease[s] \in {"RUNNING", "expired"}
    /\ orphan[x].sweep = s
    /\ orphan[x].status = "APPROVED" /\ orphan[x].count >= 2 /\ orphan[x].due
    /\ ~ IsTracked(x)

ClaimCleanup(s) ==
    LET x == sweep[s].at IN
    /\ Read(s, "claim")
    /\ IF MayClean(s, x)
       THEN /\ orphan' = [orphan EXCEPT ![x].status = "CLEANING"]
            /\ Goto(s, "destroy")
       ELSE Goto(s, "orphans") /\ UNCHANGED orphan
    /\ UNCHANGED <<row, provider, exec, lease, missing, seenBy>>

DestroyOrphan(s) ==
    /\ Read(s, "destroy")
    /\ exists' = exists \ {sweep[s].at}
    /\ Goto(s, "resolve")
    /\ UNCHANGED <<row, created, exec, lease, findings>>

\* provider.destroy rejects: the claim is released and the sweep fails.
DestroyRejects(s) ==
    LET x == sweep[s].at IN
    /\ Read(s, "destroy")
    /\ exists' \in {exists, exists \ {x}}
    /\ orphan' = [orphan EXCEPT ![x].status = IF @ = "CLEANING" THEN "APPROVED" ELSE @]
    /\ sweep' = [sweep EXCEPT ![s] = NewSweep]
    /\ lease' = [lease EXCEPT ![s] = IF @ \in {"RUNNING", "expired"} THEN "FAILED" ELSE @]
    /\ UNCHANGED <<row, created, exec, missing, seenBy>>

ResolveCleaned(s) ==
    /\ Read(s, "resolve")
    /\ orphan' = [orphan EXCEPT ![sweep[s].at] = Resolved(@, {"OPEN", "APPROVED", "CLEANING"})]
    /\ Goto(s, "orphans")
    /\ UNCHANGED <<row, provider, exec, lease, missing, seenBy>>

\* resolveUnseenOrphanResources and completeSweep.
FinishSweep(s) ==
    /\ Read(s, "orphans")
    /\ sweep[s].todo = {}
    /\ orphan' = [x \in Resources |->
                    IF x \in sweep[s].inv THEN orphan[x]
                    ELSE Resolved(orphan[x], {"OPEN", "APPROVED", "CLEANING"})]
    /\ seenBy' = [x \in Resources |-> IF x \in sweep[s].inv THEN seenBy[x] ELSE {}]
    /\ sweep' = [sweep EXCEPT ![s] = NewSweep]
    /\ lease' = [lease EXCEPT ![s] = IF @ \in {"RUNNING", "expired"} THEN "SUCCEEDED" ELSE @]
    /\ UNCHANGED <<row, provider, exec, missing>>

\* The provider, the queue or the database refuses: failSweep.  Or the process
\* dies, and the lease stays RUNNING until it expires.
SweepFails(s) ==
    /\ sweep[s].pc \notin {"idle", "destroy"}
    /\ sweep' = [sweep EXCEPT ![s] = NewSweep]
    /\ lease' \in {lease, [lease EXCEPT ![s] = IF @ \in {"RUNNING", "expired"}
                                               THEN "FAILED" ELSE @]}
    /\ UNCHANGED <<row, provider, exec, findings>>

-----------------------------------------------------------------------------
(* The operator, and time *)

\* approve:orphan-cleanup with the exact external id: approved_by and _at.
ApproveCleanup(x) ==
    /\ orphan[x].status = "OPEN"
    /\ orphan[x].count >= 2
    /\ orphan' = [orphan EXCEPT ![x].status = "APPROVED", ![x].approved = TRUE]
    /\ UNCHANGED <<row, provider, exec, lease, sweep, missing, seenBy>>

GracePasses(x) ==
    /\ orphan[x].status \in {"OPEN", "APPROVED"}
    /\ ~ orphan[x].due
    /\ orphan' = [orphan EXCEPT ![x].due = TRUE]
    /\ UNCHANGED <<row, provider, exec, lease, sweep, missing, seenBy>>

\* Somebody removes a project at the provider.
RemovedOutside(x) ==
    /\ x \in exists
    /\ exists' = exists \ {x}
    /\ UNCHANGED <<row, created, exec, lease, sweep, findings>>

-----------------------------------------------------------------------------
WorkerNext(w) ==
    \/ BeginProvision(w) \/ AdoptByName(w) \/ FindNone(w) \/ CreateProject(w)
    \/ RecordProvisioned(w) \/ ExecutionFails(w) \/ BeginDestroy(w) \/ DestroyTracked(w)

SweepNext(s) ==
    \/ BeginSweep(s) \/ LeaseExpires(s) \/ ListManaged(s) \/ ListTracked(s)
    \/ CompareTracked(s) \/ (\E x \in Resources : CompareResource(s, x))
    \/ ClaimCleanup(s) \/ DestroyOrphan(s) \/ DestroyRejects(s) \/ ResolveCleaned(s)
    \/ FinishSweep(s) \/ SweepFails(s)

Next ==
    \/ \E w \in Workers : WorkerNext(w)
    \/ \E s \in Sweeps : SweepNext(s)
    \/ \E x \in Resources : ApproveCleanup(x) \/ GracePasses(x) \/ RemovedOutside(x)

Spec == Init /\ [][Next]_vars

-----------------------------------------------------------------------------
(* Properties *)

Destroys(s, x) == DestroyOrphan(s) /\ sweep[s].at = x

\* "two or more independent inventory observations; expiration of
\* DATABASE_ORPHAN_GRACE_MS from first observation; an APPROVED durable
\* finding" (phase-3-database-reconciliation.md): a project is cleaned up only
\* when two different sweeps saw it untracked and an operator approved it since
\* its finding was opened, also when it had been adopted, resolved and orphaned
\* again in between: an approval of the old finding is none of the new one.
Earned(x) ==
    /\ Cardinality(seenBy[x]) >= 2
    /\ orphan[x].due
    /\ orphan[x].approved
CleanupIsEarned == \A s \in Sweeps : sweep[s].pc = "destroy" => Earned(sweep[s].at)

\* "A READY/SUSPENDED database is marked failed only after it is absent from two
\* successful provider inventories": a sweep never fails a database whose
\* project exists, although the inventory is older than the tracked rows it is
\* compared with.
PresentIsNotFailed ==
    [][\A s \in Sweeps : CompareTracked(s) /\ status' # status => externalId \notin exists]_vars

\* "Previously orphaned but now tracked: finding resolved as ADOPTED; automatic
\* destructive action: None": the cleanup never destroys a project that the
\* row tracks.
TrackedIsNotDestroyed ==
    [][\A s \in Sweeps, x \in Resources : Destroys(s, x) => ~ IsTracked(x)]_vars
=============================================================================
