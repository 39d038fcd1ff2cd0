---------------------------- MODULE OperationsProofs ----------------------------
(***************************************************************************)
(* What the platform's workers and its people keep beside the runs: the    *)
(* attachments and their scan, the projects at the database provider, from *)
(* their provisioning to the cleanup of those that were forgotten, the     *)
(* sales of the GTM scopes, the release assessments, and the readiness and *)
(* the process of the workers themselves.                                  *)
(***************************************************************************)
EXTENDS Naturals, Sequences, FiniteSets, FiniteSetTheorems, SequenceTheorems, TLAPS

CONSTANTS
    Workers, SweepBound, MaxResources, VersionBound, AbandonedSurvives, CleanupEnabled,
    MaxExecutions, Duplicates, Store, Faults, Slugs, SlugBound,
    Scopes, Clients, Boxes, DealIds, Sweepers, FaultBound,
    Names, Steps, Reasons, Members, TimeBound,
    Replicas, Baseline, RequiredChecks, Attempts, FileBound, DeliveryBound, ManualBound,
    Gates, Egress, HeartbeatMs, MaxAgeMs, CacheMs, Skews, NoReport,
    Validators, Sandboxes, MaxAttempts, MaxRepairs, MaxVersion, ReopenBound, CrashBound,
    CleanupFails, DbFails, NoSession,
    Contents, Acceptable, Mismatched, Completions, Executors, StallBound, DuplicateScans,
    LateUploads, ApiCrashes, ScanDbFails, NoBytes,
    Phase3, SignalBound

VARIABLES
    status, version, externalId, exists, created, exec, lease, sweep,
    orphan, missing, seenBy,                                        \* the cleanup
    slug, database, projectId, password, projects, operation, connection, leases,
    sandboxes, execution, excused,                                  \* provisioning
    prospect, deal, tx, handoff, handing, faults, won,              \* deals
    scope, sequence, outcome, suppressed, request, scores, cached, seen, \* outreach
    runStatus, runVersion, files, criteria, session, work, assessment, evidence,
    announced, failures, delivered, manual, lost,                   \* releases
    env, dated, skew, beat, redis, reported, enabled, kept, replied, lastFull, \* readiness
    run, job, reopen, validation, sandbox, expired, recorded, command,
    preview, store, asked, answered, crashes, unheard, contested,   \* previews
    scanStatus, scanVersion, cleanKey, uploadExpired, quarantine, clean, completing,
    scanJob, scanning, snapshot, loaded,                            \* attachments
    mainStep, toClose, taking, working, openStores, timers, handlers, signals \* the process

Cleanup == INSTANCE OrphanCleanup
Provision == INSTANCE ProvisionSecrets WITH
    status <- database, external <- projectId, created <- projects, exec <- execution
Sales == INSTANCE GtmDeals WITH Deals <- DealIds, sweep <- handing
Outreach == INSTANCE GtmOutreach
Assess == INSTANCE ReleaseAssessment WITH
    Workers <- Replicas, status <- runStatus, version <- runVersion, row <- assessment, faults <- failures
Ready == INSTANCE ReadinessReport WITH
    Workers <- Replicas, None <- NoReport, key <- reported, cached <- kept, answer <- replied
Preview == INSTANCE PreviewSession WITH
    Workers <- Validators, None <- NoSession, exec <- validation, session <- recorded
Attachment == INSTANCE AttachmentScan WITH
    Requests <- Completions, Duplicates <- DuplicateScans, DbFails <- ScanDbFails,
    None <- NoBytes,
    status <- scanStatus, version <- scanVersion, expired <- uploadExpired,
    request <- completing, job <- scanJob, exec <- scanning
Process == INSTANCE WorkerProcess WITH
    pc <- mainStep, left <- toClose, busy <- working, open <- openStores,
    services <- timers, sent <- signals

-----------------------------------------------------------------------------
(* The cleanup of orphaned projects *)

(* The cleanup of orphaned provider projects, for any number of            *)
(* executions, sweeps and projects: a cleanup is claimed only for a        *)
(* project that two sweeps saw untracked, and destroys it on that evidence *)
(* when a sweep does not outlive its lease.                                *)

Executing == [pc : {"list", "create", "destroy"}, version : Nat]
Recording == [pc : {"record"}, version : Nat, ext : Cleanup!Resources]

\* A sweep that claims, destroys or resolves has a project in hand.
TypeInv ==
    /\ Cleanup!TypeOK
    /\ \A s \in Cleanup!Sweeps : sweep[s].pc \in {"claim", "destroy", "resolve"} => sweep[s].at \in Cleanup!Resources

\* A sweep that has begun has taken its lease, if only to lose it.
Started == \A s \in Cleanup!Sweeps : sweep[s].pc # "idle" => lease[s] # "none"

\* A sweep sees a project once: those it has seen are not still to do.
SeenOnce ==
    \A x \in Cleanup!Resources, s \in Cleanup!Sweeps : s \in seenBy[x] =>
        /\ lease[s] # "none"
        /\ sweep[s].pc \notin {"inventory", "tracked", "missing"}
        /\ x \notin sweep[s].todo

Unresolved(x) == orphan[x].status \notin {"none", "RESOLVED"}

\* The count of a finding is a count of different sweeps.
Counted ==
    \A x \in Cleanup!Resources : Unresolved(x) =>
        orphan[x].count >= 1 /\ Cardinality(seenBy[x]) >= orphan[x].count

\* Who may be cleaned up was approved since its finding was opened.
Sanctioned ==
    \A x \in Cleanup!Resources :
        orphan[x].status \in {"APPROVED", "CLEANING"} => orphan[x].approved

CountInv == TypeInv /\ Started /\ SeenOnce /\ Counted /\ Sanctioned

\* Without sweeps that live on, the one that works is the one with the lease.
OneSweep ==
    /\ \A s \in Cleanup!Sweeps : sweep[s].pc # "idle" => lease[s] = "RUNNING"
    /\ \A s, t \in Cleanup!Sweeps : lease[s] = "RUNNING" /\ lease[t] = "RUNNING" => s = t

EarnedInv == CountInv /\ OneSweep /\ Cleanup!CleanupIsEarned

\* claimOrphanCleanup: whoever is alive, a claim rests on two sweeps' sightings,
\* on a grace period that has passed and on an approval.
ClaimIsEarned ==
    \A s \in Cleanup!Sweeps :
        Cleanup!ClaimCleanup(s) /\ sweep[s]'.pc = "destroy" => Cleanup!Earned(sweep[s].at)

-----------------------------------------------------------------------------
(* Types *)

LEMMA WorkerKeepsTypes ==
    ASSUME Cleanup!OrphanCleanupAssumption, TypeInv, NEW w \in Workers, Cleanup!WorkerNext(w)
    PROVE  TypeInv'
<1>t. /\ Cleanup!TypeOK /\ exec \in [Workers -> Cleanup!Exec] /\ exec[w] \in Cleanup!Exec
      /\ Cleanup!Idle \in Cleanup!Exec
  BY DEF TypeInv, Cleanup!TypeOK, Cleanup!Exec
<1>v. version \in Nat /\ status \in Cleanup!Statuses /\ externalId \in 0 .. MaxResources
      /\ exists \subseteq Cleanup!Resources /\ created \in 0 .. MaxResources
  BY <1>t DEF Cleanup!TypeOK
<1>e. exec[w] # Cleanup!Idle => exec[w].version \in Nat /\ (exec[w].pc = "record" => exec[w].ext \in Cleanup!Resources)
  BY <1>t DEF Cleanup!Exec
<1>u. UNCHANGED <<lease, sweep, orphan, missing, seenBy>>
  BY DEF Cleanup!WorkerNext, Cleanup!BeginProvision, Cleanup!AdoptByName, Cleanup!FindNone,
     Cleanup!CreateProject, Cleanup!RecordProvisioned,
         Cleanup!ExecutionFails, Cleanup!BeginDestroy, Cleanup!DestroyTracked, Cleanup!findings
<1>a. ASSUME NEW e \in Cleanup!Exec, exec' = [exec EXCEPT ![w] = e],
             version' \in Nat, status' \in Cleanup!Statuses, externalId' \in 0 .. MaxResources,
             exists' \subseteq Cleanup!Resources, created' \in 0 .. MaxResources
      PROVE  TypeInv'
  BY <1>a, <1>t, <1>u DEF TypeInv, Cleanup!TypeOK
<1>b. \A pc \in {"list", "create", "destroy"}, n \in Nat : [pc |-> pc, version |-> n] \in Cleanup!Exec
  BY DEF Cleanup!Exec
<1>c. \A n \in Nat, x \in Cleanup!Resources : [pc |-> "record", version |-> n, ext |-> x] \in Cleanup!Exec
  BY DEF Cleanup!Exec
<1>1. CASE Cleanup!BeginProvision(w)
  <2>1. exec' = [exec EXCEPT ![w] = [pc |-> "list", version |-> version + 1]]
    BY <1>1 DEF Cleanup!BeginProvision
  <2>2. version + 1 \in Nat
    BY <1>v
  <2>3. [pc |-> "list", version |-> version + 1] \in Cleanup!Exec
    BY <1>b, <2>2
  <2>4. /\ version' \in Nat /\ status' \in Cleanup!Statuses
        /\ UNCHANGED <<externalId, exists, created>>
    BY <1>1, <2>2 DEF Cleanup!BeginProvision, Cleanup!provider, Cleanup!Statuses
  <2>5. QED
    BY <1>a, <1>v, <2>1, <2>3, <2>4
<1>2. CASE Cleanup!AdoptByName(w)
  <2>1. PICK x \in exists :
          exec' = [exec EXCEPT ![w] = [pc |-> "record", version |-> exec[w].version, ext |-> x]]
    BY <1>2 DEF Cleanup!AdoptByName
  <2>2. exec[w].version \in Nat /\ x \in Cleanup!Resources
    BY <1>2, <1>e, <1>v DEF Cleanup!AdoptByName, Cleanup!Idle
  <2>3. QED
    BY <1>2, <1>a, <1>c, <1>v, <2>1, <2>2 DEF Cleanup!AdoptByName, Cleanup!row, Cleanup!provider
<1>3. CASE Cleanup!FindNone(w)
  <2>1. exec[w] \in Executing
    BY <1>3, <1>t DEF Cleanup!FindNone, Cleanup!Exec, Cleanup!Idle, Executing
  <2>2. [exec[w] EXCEPT !.pc = "create"] \in Cleanup!Exec
    BY <2>1 DEF Executing, Cleanup!Exec
  <2>3. exec' = [exec EXCEPT ![w] = [exec[w] EXCEPT !.pc = "create"]]
    BY <1>3 DEF Cleanup!FindNone
  <2>4. QED
    BY <1>3, <1>a, <1>v, <2>2, <2>3 DEF Cleanup!FindNone, Cleanup!row, Cleanup!provider
<1>4. CASE Cleanup!CreateProject(w)
  <2>1. created + 1 \in Cleanup!Resources
    BY <1>4, <1>v DEF Cleanup!CreateProject, Cleanup!Resources, Cleanup!OrphanCleanupAssumption
  <2>2. exec[w].version \in Nat
    BY <1>4, <1>e DEF Cleanup!CreateProject, Cleanup!Idle
  <2>3. exec' = [exec EXCEPT ![w] = [pc |-> "record", version |-> exec[w].version,
                                     ext |-> created + 1]]
    BY <1>4 DEF Cleanup!CreateProject
  <2>4. created' \in 0 .. MaxResources /\ exists' \subseteq Cleanup!Resources
    BY <1>4, <1>v, <2>1 DEF Cleanup!CreateProject, Cleanup!Resources
  <2>5. QED
    BY <1>4, <1>a, <1>c, <1>v, <2>1, <2>2, <2>3, <2>4 DEF Cleanup!CreateProject, Cleanup!row
<1>5. CASE Cleanup!RecordProvisioned(w)
  <2>1. exec[w].ext \in Cleanup!Resources
    BY <1>5, <1>e DEF Cleanup!RecordProvisioned, Cleanup!Idle
  <2>2. externalId' \in 0 .. MaxResources /\ status' \in Cleanup!Statuses
    BY <1>5, <1>v, <2>1 DEF Cleanup!RecordProvisioned, Cleanup!Resources, Cleanup!Statuses,
       Cleanup!OrphanCleanupAssumption
  <2>3. QED
    BY <1>5, <1>a, <1>t, <1>v, <2>2 DEF Cleanup!RecordProvisioned, Cleanup!provider
<1>6. CASE Cleanup!ExecutionFails(w)
  BY <1>6, <1>a, <1>t, <1>v DEF Cleanup!ExecutionFails, Cleanup!provider, Cleanup!Statuses
<1>7. CASE Cleanup!BeginDestroy(w)
  <2>1. exec' = [exec EXCEPT ![w] = [pc |-> "destroy", version |-> version + 1]]
    BY <1>7 DEF Cleanup!BeginDestroy
  <2>2. version + 1 \in Nat
    BY <1>v
  <2>3. [pc |-> "destroy", version |-> version + 1] \in Cleanup!Exec
    BY <1>b, <2>2
  <2>4. /\ version' \in Nat /\ status' \in Cleanup!Statuses
        /\ UNCHANGED <<externalId, exists, created>>
    BY <1>7, <2>2 DEF Cleanup!BeginDestroy, Cleanup!provider, Cleanup!Statuses
  <2>5. QED
    BY <1>a, <1>v, <2>1, <2>3, <2>4
<1>8. CASE Cleanup!DestroyTracked(w)
  BY <1>8, <1>a, <1>t, <1>v DEF Cleanup!DestroyTracked, Cleanup!Statuses
<1>9. QED
  BY <1>1, <1>2, <1>3, <1>4, <1>5, <1>6, <1>7, <1>8 DEF Cleanup!WorkerNext

\* A finding stays one, however it is observed, resolved or released.
LEMMA FindingTypes ==
    ASSUME NEW f \in Cleanup!Finding, NEW s \in Cleanup!Sweeps
    PROVE  /\ Cleanup!Observed(f, s) \in Cleanup!Finding
           /\ \A from : Cleanup!Resolved(f, from) \in Cleanup!Finding
           /\ \A t \in Cleanup!FindingStatuses : [f EXCEPT !.status = t] \in Cleanup!Finding
           /\ [f EXCEPT !.due = TRUE] \in Cleanup!Finding
<1>1. s \in 0 .. SweepBound
  BY DEF Cleanup!Sweeps
<1>2. Cleanup!Observed(f, s) \in Cleanup!Finding
  <2>1. CASE f.status \in {"none", "RESOLVED"}
    <3>1. [status |-> "OPEN", count |-> 1, due |-> FALSE, approved |-> FALSE, sweep |-> s]
            \in Cleanup!Finding
      BY <1>1 DEF Cleanup!Finding, Cleanup!FindingStatuses
    <3>2. QED
      BY <2>1, <3>1 DEF Cleanup!Observed
  <2>2. CASE f.status \notin {"none", "RESOLVED"}
    <3> DEFINE g == [f EXCEPT !.count = 2]
    <3>1. g \in Cleanup!Finding
      BY DEF Cleanup!Finding
    <3>2. Cleanup!Observed(f, s) = [g EXCEPT !.sweep = s]
      BY <2>2 DEF Cleanup!Observed
    <3> HIDE DEF g
    <3>3. [g EXCEPT !.sweep = s] \in Cleanup!Finding
      BY <1>1, <3>1 DEF Cleanup!Finding
    <3>4. QED
      BY <3>2, <3>3
  <2>3. QED
    BY <2>1, <2>2
<1>3. \A t \in Cleanup!FindingStatuses : [f EXCEPT !.status = t] \in Cleanup!Finding
  BY DEF Cleanup!Finding
<1>4. \A from : Cleanup!Resolved(f, from) \in Cleanup!Finding
  BY <1>3 DEF Cleanup!Resolved, Cleanup!FindingStatuses
<1>5. [f EXCEPT !.due = TRUE] \in Cleanup!Finding
  BY DEF Cleanup!Finding
<1>6. QED
  BY <1>2, <1>3, <1>4, <1>5

\* What the steps of a sweep do to its own state.
LEMMA SweepTypes ==
    ASSUME Cleanup!OrphanCleanupAssumption, Cleanup!TypeOK, NEW s \in Cleanup!Sweeps
    PROVE  /\ sweep[s] \in Cleanup!SweepState /\ Cleanup!NewSweep \in Cleanup!SweepState
           /\ \A pc \in Cleanup!SweepPcs : Cleanup!Goto(s, pc) => sweep' \in [Cleanup!Sweeps -> Cleanup!SweepState]
           /\ \A st \in Cleanup!SweepState : sweep' = [sweep EXCEPT ![s] = st] =>
                 sweep' \in [Cleanup!Sweeps -> Cleanup!SweepState]
           /\ \A l \in Cleanup!Leases : lease' = [lease EXCEPT ![s] = l] => lease' \in [Cleanup!Sweeps -> Cleanup!Leases]
<1>1. /\ sweep \in [Cleanup!Sweeps -> Cleanup!SweepState]
      /\ lease \in [Cleanup!Sweeps -> Cleanup!Leases]
  BY DEF Cleanup!TypeOK
<1>2. Cleanup!NewSweep \in Cleanup!SweepState
  BY DEF Cleanup!NewSweep, Cleanup!SweepState, Cleanup!SweepPcs, Cleanup!NoRow, Cleanup!Tracked,
     Cleanup!Statuses, Cleanup!OrphanCleanupAssumption
<1>3. ASSUME NEW pc \in Cleanup!SweepPcs, Cleanup!Goto(s, pc)
      PROVE  sweep' \in [Cleanup!Sweeps -> Cleanup!SweepState]
  <2>1. [sweep[s] EXCEPT !.pc = pc] \in Cleanup!SweepState
    BY <1>1 DEF Cleanup!SweepState
  <2>2. QED
    BY <1>1, <1>3, <2>1 DEF Cleanup!Goto
<1>4. QED
  BY <1>1, <1>2, <1>3

LEMMA SweepKeepsTypes ==
    ASSUME Cleanup!OrphanCleanupAssumption, TypeInv, NEW s \in Cleanup!Sweeps, Cleanup!SweepNext(s)
    PROVE  Cleanup!TypeOK'
<1>t. /\ Cleanup!TypeOK /\ sweep[s] \in Cleanup!SweepState
      /\ sweep \in [Cleanup!Sweeps -> Cleanup!SweepState]
      /\ lease \in [Cleanup!Sweeps -> Cleanup!Leases] /\ lease[s] \in Cleanup!Leases
      /\ orphan \in [Cleanup!Resources -> Cleanup!Finding] /\ missing \in Cleanup!Finding
      /\ seenBy \in [Cleanup!Resources -> SUBSET Cleanup!Sweeps]
      /\ exists \subseteq Cleanup!Resources
      /\ version \in Nat /\ externalId \in 0 .. MaxResources /\ status \in Cleanup!Statuses
  BY DEF TypeInv, Cleanup!TypeOK
<1>f. /\ sweep[s].pc \in Cleanup!SweepPcs /\ sweep[s].inv \subseteq Cleanup!Resources
      /\ sweep[s].todo \subseteq Cleanup!Resources /\ sweep[s].trk \in Cleanup!Tracked
  BY <1>t DEF Cleanup!SweepState
<1>r. UNCHANGED <<version, externalId, created, exec>>
  BY DEF Cleanup!SweepNext, Cleanup!BeginSweep, Cleanup!LeaseExpires, Cleanup!ListManaged,
     Cleanup!ListTracked, Cleanup!CompareTracked,
         Cleanup!CompareResource, Cleanup!ClaimCleanup, Cleanup!DestroyOrphan, Cleanup!DestroyRejects, Cleanup!ResolveCleaned,
         Cleanup!FinishSweep, Cleanup!SweepFails, Cleanup!row, Cleanup!provider, Cleanup!findings
<1>a. ASSUME sweep' \in [Cleanup!Sweeps -> Cleanup!SweepState], lease' \in [Cleanup!Sweeps -> Cleanup!Leases],
             orphan' \in [Cleanup!Resources -> Cleanup!Finding], missing' \in Cleanup!Finding,
             seenBy' \in [Cleanup!Resources -> SUBSET Cleanup!Sweeps], exists' \subseteq Cleanup!Resources,
             status' \in Cleanup!Statuses
      PROVE  Cleanup!TypeOK'
  BY <1>a, <1>t, <1>r DEF Cleanup!TypeOK
<1>g. \A pc \in Cleanup!SweepPcs : Cleanup!Goto(s, pc) => sweep' \in [Cleanup!Sweeps -> Cleanup!SweepState]
  BY <1>t, SweepTypes
<1>n. \A st \in Cleanup!SweepState : sweep' = [sweep EXCEPT ![s] = st] => sweep' \in [Cleanup!Sweeps -> Cleanup!SweepState]
  BY <1>t, SweepTypes
<1>l. \A l \in Cleanup!Leases : lease' = [lease EXCEPT ![s] = l] => lease' \in [Cleanup!Sweeps -> Cleanup!Leases]
  BY <1>t
<1>o. \A x \in Cleanup!Resources : orphan[x] \in Cleanup!Finding
  BY <1>t
<1>1. CASE Cleanup!BeginSweep(s)
  <2>1. lease' \in [Cleanup!Sweeps -> Cleanup!Leases]
    BY <1>1, <1>t DEF Cleanup!BeginSweep, Cleanup!Leases
  <2>2. orphan' \in [Cleanup!Resources -> Cleanup!Finding]
    BY <1>1, <1>o, FindingTypes DEF Cleanup!BeginSweep, Cleanup!Released,
       Cleanup!FindingStatuses, Cleanup!Finding
  <2>3. QED
    BY <1>1, <1>a, <1>g, <1>t, <2>1, <2>2 DEF Cleanup!BeginSweep, Cleanup!SweepPcs, Cleanup!row,
       Cleanup!provider
<1>2. CASE Cleanup!LeaseExpires(s)
  <2>1. lease' \in [Cleanup!Sweeps -> Cleanup!Leases]
    BY <1>2, <1>t DEF Cleanup!LeaseExpires, Cleanup!Leases
  <2>2. sweep' \in [Cleanup!Sweeps -> Cleanup!SweepState]
    BY <1>2, <1>t, SweepTypes DEF Cleanup!LeaseExpires
  <2>3. QED
    BY <1>2, <1>a, <1>t, <2>1, <2>2 DEF Cleanup!LeaseExpires, Cleanup!row, Cleanup!provider,
       Cleanup!findings
<1>3. CASE Cleanup!ListManaged(s)
  <2>1. [sweep[s] EXCEPT !.pc = "tracked", !.inv = exists] \in Cleanup!SweepState
    BY <1>t DEF Cleanup!SweepState, Cleanup!SweepPcs
  <2>2. sweep' = [sweep EXCEPT ![s] = [sweep[s] EXCEPT !.pc = "tracked", !.inv = exists]]
    BY <1>3 DEF Cleanup!ListManaged
  <2>3. QED
    BY <1>3, <1>a, <1>n, <1>t, <2>1, <2>2 DEF Cleanup!ListManaged, Cleanup!row,
       Cleanup!provider, Cleanup!findings
<1>4. CASE Cleanup!ListTracked(s)
  <2> DEFINE t == IF externalId # 0 /\ status # "DELETED"
                  THEN [ext |-> externalId, version |-> version, status |-> status]
                  ELSE Cleanup!NoRow
  <2>1. t \in Cleanup!Tracked
    BY <1>t DEF Cleanup!Tracked, Cleanup!NoRow, Cleanup!Statuses,
       Cleanup!OrphanCleanupAssumption
  <2>2. sweep' = [sweep EXCEPT ![s] = [sweep[s] EXCEPT !.pc = "missing", !.trk = t]]
    BY <1>4 DEF Cleanup!ListTracked
  <2> HIDE DEF t
  <2>3. [sweep[s] EXCEPT !.pc = "missing", !.trk = t] \in Cleanup!SweepState
    BY <1>t, <2>1 DEF Cleanup!SweepState, Cleanup!SweepPcs
  <2>4. QED
    BY <1>4, <1>a, <1>n, <1>t, <2>2, <2>3 DEF Cleanup!ListTracked, Cleanup!row,
       Cleanup!provider, Cleanup!findings
<1>5. CASE Cleanup!CompareTracked(s)
  <2>1. [sweep[s] EXCEPT !.pc = "orphans", !.todo = sweep[s].inv] \in Cleanup!SweepState
    BY <1>f, <1>t DEF Cleanup!SweepState, Cleanup!SweepPcs
  <2>2. sweep' = [sweep EXCEPT ![s] = [sweep[s] EXCEPT !.pc = "orphans", !.todo = sweep[s].inv]]
    BY <1>5 DEF Cleanup!CompareTracked
  <2>3. missing' \in {missing, Cleanup!Observed(missing, s), Cleanup!Resolved(missing, {"OPEN", "APPROVED"})}
    BY <1>5 DEF Cleanup!CompareTracked
  <2>4. missing' \in Cleanup!Finding
    BY <1>t, <2>3, FindingTypes
  <2>5. status' \in Cleanup!Statuses
    BY <1>5, <1>t DEF Cleanup!CompareTracked, Cleanup!Statuses
  <2>6. QED
    BY <1>5, <1>a, <1>n, <1>t, <2>1, <2>2, <2>4, <2>5 DEF Cleanup!CompareTracked,
       Cleanup!provider
<1>6. ASSUME NEW x \in Cleanup!Resources, Cleanup!CompareResource(s, x)
      PROVE  Cleanup!TypeOK'
  <2>1. PICK at \in {sweep[s].at, x}, pc \in {"orphans", "claim"} :
          sweep' = [sweep EXCEPT ![s] = [sweep[s] EXCEPT !.todo = @ \ {x}, !.at = at, !.pc = pc]]
    <3>1. CASE sweep[s].trk.ext = x
      <4>1. sweep' = [sweep EXCEPT ![s] = [sweep[s] EXCEPT !.todo = @ \ {x}]]
        BY <1>6, <3>1 DEF Cleanup!CompareResource
      <4>2. [sweep[s] EXCEPT !.todo = @ \ {x}]
              = [sweep[s] EXCEPT !.todo = @ \ {x}, !.at = sweep[s].at, !.pc = "orphans"]
        BY <1>6, <1>t DEF Cleanup!CompareResource, Cleanup!Read, Cleanup!SweepState
      <4>3. QED
        BY <4>1, <4>2
    <3>2. CASE sweep[s].trk.ext # x
      BY <1>6, <3>2 DEF Cleanup!CompareResource
    <3>3. QED
      BY <3>1, <3>2
  <2>2. at \in 0 .. MaxResources
    BY <1>t DEF Cleanup!SweepState, Cleanup!Resources, Cleanup!OrphanCleanupAssumption
  <2>3. [sweep[s] EXCEPT !.todo = @ \ {x}, !.at = at, !.pc = pc] \in Cleanup!SweepState
    BY <1>f, <1>t, <2>2 DEF Cleanup!SweepState, Cleanup!SweepPcs
  <2>4. orphan' \in [Cleanup!Resources -> Cleanup!Finding]
    <3>1. Cleanup!Observed(orphan[x], s) \in Cleanup!Finding
      BY <1>o, FindingTypes
    <3>2. Cleanup!Resolved(orphan[x], {"OPEN", "APPROVED", "CLEANING"}) \in Cleanup!Finding
      BY <1>o, FindingTypes
    <3>3. QED
      BY <1>6, <1>t, <3>1, <3>2 DEF Cleanup!CompareResource
  <2>5. seenBy' \in [Cleanup!Resources -> SUBSET Cleanup!Sweeps]
    BY <1>6, <1>t DEF Cleanup!CompareResource
  <2>6. QED
    BY <1>6, <1>a, <1>n, <1>t, <2>1, <2>3, <2>4, <2>5 DEF Cleanup!CompareResource, Cleanup!row,
       Cleanup!provider
<1>7. CASE Cleanup!ClaimCleanup(s)
  <2>1. orphan' \in [Cleanup!Resources -> Cleanup!Finding]
    <3>1. sweep[s].at \in Cleanup!Resources
      BY <1>7 DEF Cleanup!ClaimCleanup, Cleanup!Read, TypeInv
    <3>2. [orphan[sweep[s].at] EXCEPT !.status = "CLEANING"] \in Cleanup!Finding
      BY <1>o, <3>1, FindingTypes DEF Cleanup!FindingStatuses
    <3>3. orphan' \in {orphan, [orphan EXCEPT ![sweep[s].at] =
                                  [orphan[sweep[s].at] EXCEPT !.status = "CLEANING"]]}
      BY <1>7 DEF Cleanup!ClaimCleanup
    <3>4. QED
      BY <1>t, <3>2, <3>3
  <2>2. QED
    BY <1>7, <1>a, <1>g, <1>t, <2>1 DEF Cleanup!ClaimCleanup, Cleanup!SweepPcs, Cleanup!row,
       Cleanup!provider
<1>8. CASE Cleanup!DestroyOrphan(s)
  BY <1>8, <1>a, <1>g, <1>t DEF Cleanup!DestroyOrphan, Cleanup!SweepPcs, Cleanup!row,
     Cleanup!findings
<1>9. CASE Cleanup!DestroyRejects(s)
  <2>1. orphan' \in [Cleanup!Resources -> Cleanup!Finding]
    <3> DEFINE x == sweep[s].at
    <3>1. CASE x \in Cleanup!Resources
      <4>1. orphan[x].status \in Cleanup!FindingStatuses
        BY <1>o, <3>1 DEF Cleanup!Finding
      <4>2. orphan' = [orphan EXCEPT ![x] = [orphan[x] EXCEPT
                !.status = IF orphan[x].status = "CLEANING" THEN "APPROVED" ELSE orphan[x].status]]
        BY <1>9 DEF Cleanup!DestroyRejects
      <4>3. (IF orphan[x].status = "CLEANING" THEN "APPROVED" ELSE orphan[x].status) \in Cleanup!FindingStatuses
        BY <4>1 DEF Cleanup!FindingStatuses
      <4>4. QED
        BY <1>o, <1>t, <3>1, <4>2, <4>3, FindingTypes
    <3>2. QED
      BY <1>9, <3>1 DEF Cleanup!DestroyRejects, Cleanup!Read, TypeInv
  <2>2. lease' \in [Cleanup!Sweeps -> Cleanup!Leases]
    BY <1>9, <1>t DEF Cleanup!DestroyRejects, Cleanup!Leases
  <2>3. sweep' \in [Cleanup!Sweeps -> Cleanup!SweepState]
    BY <1>9, <1>t, SweepTypes DEF Cleanup!DestroyRejects
  <2>4. QED
    BY <1>9, <1>a, <1>t, <2>1, <2>2, <2>3 DEF Cleanup!DestroyRejects, Cleanup!row
<1>10. CASE Cleanup!ResolveCleaned(s)
  <2>1. orphan' \in [Cleanup!Resources -> Cleanup!Finding]
    BY <1>10, <1>o, <1>t, FindingTypes DEF Cleanup!ResolveCleaned
  <2>2. QED
    BY <1>10, <1>a, <1>g, <1>t, <2>1 DEF Cleanup!ResolveCleaned, Cleanup!SweepPcs, Cleanup!row,
       Cleanup!provider
<1>11. CASE Cleanup!FinishSweep(s)
  <2>1. orphan' \in [Cleanup!Resources -> Cleanup!Finding]
    BY <1>11, <1>o, FindingTypes DEF Cleanup!FinishSweep
  <2>2. lease' \in [Cleanup!Sweeps -> Cleanup!Leases]
    BY <1>11, <1>t DEF Cleanup!FinishSweep, Cleanup!Leases
  <2>3. sweep' \in [Cleanup!Sweeps -> Cleanup!SweepState]
    BY <1>11, <1>t, SweepTypes DEF Cleanup!FinishSweep
  <2>4. seenBy' \in [Cleanup!Resources -> SUBSET Cleanup!Sweeps]
    BY <1>11, <1>t DEF Cleanup!FinishSweep
  <2>5. QED
    BY <1>11, <1>a, <1>t, <2>1, <2>2, <2>3, <2>4 DEF Cleanup!FinishSweep, Cleanup!row,
       Cleanup!provider
<1>12. CASE Cleanup!SweepFails(s)
  <2>1. lease' \in [Cleanup!Sweeps -> Cleanup!Leases]
    BY <1>12, <1>t DEF Cleanup!SweepFails, Cleanup!Leases
  <2>2. sweep' \in [Cleanup!Sweeps -> Cleanup!SweepState]
    BY <1>12, <1>t, SweepTypes DEF Cleanup!SweepFails
  <2>3. QED
    BY <1>12, <1>a, <1>t, <2>1, <2>2 DEF Cleanup!SweepFails, Cleanup!row, Cleanup!provider,
       Cleanup!findings
<1>13. QED
  BY <1>1, <1>2, <1>3, <1>4, <1>5, <1>6, <1>7, <1>8, <1>9, <1>10, <1>11, <1>12
     DEF Cleanup!SweepNext

\* A sweep touches no other sweep; it takes its lease only when nobody has one.
LEMMA SweepFrame ==
    ASSUME TypeInv, NEW s \in Cleanup!Sweeps, Cleanup!SweepNext(s)
    PROVE  /\ \A t \in Cleanup!Sweeps \ {s} : sweep'[t] = sweep[t]
           /\ \A t \in Cleanup!Sweeps : lease[t] # "none" => lease'[t] # "none"
<1>t. /\ sweep \in [Cleanup!Sweeps -> Cleanup!SweepState]
      /\ lease \in [Cleanup!Sweeps -> Cleanup!Leases]
  BY DEF TypeInv, Cleanup!TypeOK
<1>1. CASE Cleanup!BeginSweep(s)
  BY <1>1, <1>t DEF Cleanup!BeginSweep, Cleanup!Goto
<1>2. CASE Cleanup!LeaseExpires(s)
  BY <1>2, <1>t DEF Cleanup!LeaseExpires
<1>3. CASE Cleanup!DestroyRejects(s) \/ Cleanup!FinishSweep(s) \/ Cleanup!SweepFails(s)
  BY <1>3, <1>t DEF Cleanup!DestroyRejects, Cleanup!FinishSweep, Cleanup!SweepFails
<1>4. CASE Cleanup!ListManaged(s) \/ Cleanup!ListTracked(s) \/ Cleanup!CompareTracked(s)
  BY <1>4, <1>t DEF Cleanup!ListManaged, Cleanup!ListTracked, Cleanup!CompareTracked
<1>5. CASE Cleanup!ClaimCleanup(s) \/ Cleanup!DestroyOrphan(s) \/ Cleanup!ResolveCleaned(s)
  BY <1>5, <1>t DEF Cleanup!ClaimCleanup, Cleanup!DestroyOrphan, Cleanup!ResolveCleaned,
     Cleanup!Goto
<1>6. ASSUME NEW x \in Cleanup!Resources, Cleanup!CompareResource(s, x)
      PROVE  lease' = lease /\ \A t \in Cleanup!Sweeps \ {s} : sweep'[t] = sweep[t]
  BY <1>6, <1>t DEF Cleanup!CompareResource
<1>7. QED
  BY <1>1, <1>2, <1>3, <1>4, <1>5, <1>6 DEF Cleanup!SweepNext

\* What a sweep's own step leaves it with: a project in hand where it needs one,
\* its lease taken, and nothing to do that it has seen.
LEMMA SweepKeepsOwn ==
    ASSUME Cleanup!OrphanCleanupAssumption, TypeInv, Started, SeenOnce, NEW s \in Cleanup!Sweeps, Cleanup!SweepNext(s)
    PROVE  /\ sweep'[s].pc \in {"claim", "destroy", "resolve"} => sweep'[s].at \in Cleanup!Resources
           /\ sweep'[s].pc # "idle" => lease'[s] # "none"
           /\ \A x \in Cleanup!Resources : s \in seenBy'[x] =>
                /\ lease'[s] # "none"
                /\ sweep'[s].pc \notin {"inventory", "tracked", "missing"}
                /\ x \notin sweep'[s].todo
<1>t. /\ sweep \in [Cleanup!Sweeps -> Cleanup!SweepState]
      /\ lease \in [Cleanup!Sweeps -> Cleanup!Leases]
      /\ seenBy \in [Cleanup!Resources -> SUBSET Cleanup!Sweeps]
      /\ sweep[s] \in Cleanup!SweepState
  BY DEF TypeInv, Cleanup!TypeOK
<1>l. lease[s] # "none" => lease'[s] # "none"
  BY SweepFrame
<1>s. sweep[s].pc # "idle" => lease[s] # "none"
  BY DEF Started
<1>o. \A x \in Cleanup!Resources : s \in seenBy[x] =>
        /\ lease[s] # "none" /\ sweep[s].pc \notin {"inventory", "tracked", "missing"}
        /\ x \notin sweep[s].todo
  BY DEF SeenOnce
<1>h. sweep[s].pc \in {"claim", "destroy", "resolve"} => sweep[s].at \in Cleanup!Resources
  BY DEF TypeInv
\* A step that ends the sweep, and one that moves it where it has all it needs.
<1>a. ASSUME sweep'[s] = Cleanup!NewSweep, \A x \in Cleanup!Resources : s \in seenBy'[x] => s \in seenBy[x]
      PROVE  /\ sweep'[s].pc = "idle" /\ sweep'[s].todo = {}
             /\ \A x \in Cleanup!Resources : s \in seenBy'[x] => lease'[s] # "none"
  BY <1>a, <1>l, <1>o DEF Cleanup!NewSweep
<1>b. ASSUME NEW pc, Cleanup!Goto(s, pc)
      PROVE  /\ sweep'[s].pc = pc /\ sweep'[s].todo = sweep[s].todo /\ sweep'[s].at = sweep[s].at
  BY <1>b, <1>t DEF Cleanup!Goto, Cleanup!SweepState
<1>1. CASE Cleanup!BeginSweep(s)
  <2>1. /\ sweep'[s].pc = "inventory" /\ lease'[s] = "RUNNING" /\ UNCHANGED seenBy
        /\ lease[s] = "none"
    BY <1>1, <1>b, <1>t DEF Cleanup!BeginSweep
  <2>2. QED
    BY <1>o, <2>1
<1>2. CASE Cleanup!LeaseExpires(s)
  <2>1. lease'[s] # "none" /\ UNCHANGED seenBy /\ lease[s] = "RUNNING"
    BY <1>2, <1>t DEF Cleanup!LeaseExpires, Cleanup!findings
  <2>2. sweep'[s] = sweep[s] \/ sweep'[s] = Cleanup!NewSweep
    BY <1>2, <1>t DEF Cleanup!LeaseExpires
  <2>3. CASE sweep'[s] = sweep[s]
    BY <1>h, <1>o, <2>1, <2>3
  <2>4. CASE sweep'[s] = Cleanup!NewSweep
    BY <1>a, <2>1, <2>4
  <2>5. QED
    BY <2>2, <2>3, <2>4
<1>3. CASE Cleanup!ListManaged(s)
  <2>1. sweep[s].pc = "inventory" /\ sweep'[s].pc = "tracked" /\ UNCHANGED <<seenBy, lease>>
    BY <1>3, <1>t DEF Cleanup!ListManaged, Cleanup!Read, Cleanup!findings, Cleanup!SweepState
  <2>2. QED
    BY <1>o, <1>s, <2>1
<1>4. CASE Cleanup!ListTracked(s)
  <2>1. sweep[s].pc = "tracked" /\ UNCHANGED <<seenBy, lease>>
    BY <1>4 DEF Cleanup!ListTracked, Cleanup!Read, Cleanup!findings
  <2>2. sweep'[s].pc = "missing"
    BY <1>4, <1>t DEF Cleanup!ListTracked, Cleanup!SweepState
  <2>3. QED
    BY <1>o, <1>s, <2>1, <2>2
<1>5. CASE Cleanup!CompareTracked(s)
  <2>1. sweep[s].pc = "missing" /\ UNCHANGED <<seenBy, lease>>
    BY <1>5 DEF Cleanup!CompareTracked, Cleanup!Read
  <2>2. sweep'[s].pc = "orphans"
    BY <1>5, <1>t DEF Cleanup!CompareTracked, Cleanup!SweepState
  <2>3. QED
    BY <1>o, <1>s, <2>1, <2>2
<1>6. ASSUME NEW y \in Cleanup!Resources, Cleanup!CompareResource(s, y)
      PROVE  /\ sweep'[s].pc \in {"claim", "destroy", "resolve"} => sweep'[s].at \in Cleanup!Resources
             /\ sweep'[s].pc # "idle" => lease'[s] # "none"
             /\ \A x \in Cleanup!Resources : s \in seenBy'[x] =>
                  /\ lease'[s] # "none"
                  /\ sweep'[s].pc \notin {"inventory", "tracked", "missing"}
                  /\ x \notin sweep'[s].todo
  <2>1. sweep[s].pc = "orphans" /\ UNCHANGED lease
    BY <1>6 DEF Cleanup!CompareResource, Cleanup!Read
  <2>2. CASE sweep[s].trk.ext = y
    <3>1. /\ sweep'[s].pc = "orphans" /\ sweep'[s].todo = sweep[s].todo \ {y}
          /\ \A x \in Cleanup!Resources : seenBy'[x] \subseteq seenBy[x]
      BY <1>6, <1>t, <2>1, <2>2 DEF Cleanup!CompareResource, Cleanup!SweepState
    <3>2. QED
      BY <1>o, <1>s, <2>1, <3>1
  <2>3. CASE sweep[s].trk.ext # y
    <3>1. PICK pc \in {"orphans", "claim"} :
            sweep' = [sweep EXCEPT ![s] = [sweep[s] EXCEPT !.todo = @ \ {y}, !.at = y, !.pc = pc]]
      BY <1>6, <2>3 DEF Cleanup!CompareResource
    <3>2. /\ sweep'[s].pc \in {"orphans", "claim"} /\ sweep'[s].at = y
          /\ sweep'[s].todo = sweep[s].todo \ {y}
      BY <1>t, <3>1 DEF Cleanup!SweepState
    <3>3. \A x \in Cleanup!Resources : x # y => seenBy'[x] = seenBy[x]
      BY <1>6, <1>t, <2>3 DEF Cleanup!CompareResource
    <3>4. QED
      BY <1>o, <1>s, <2>1, <3>2, <3>3
  <2>4. QED
    BY <2>2, <2>3
<1>7. CASE Cleanup!ClaimCleanup(s)
  <2>1. sweep[s].pc = "claim" /\ UNCHANGED <<lease, seenBy>> /\ (Cleanup!Goto(s, "destroy") \/ Cleanup!Goto(s, "orphans"))
    BY <1>7 DEF Cleanup!ClaimCleanup, Cleanup!Read
  <2>2. QED
    BY <1>b, <1>h, <1>o, <1>s, <2>1
<1>8. CASE Cleanup!DestroyOrphan(s)
  <2>1. sweep[s].pc = "destroy" /\ UNCHANGED <<lease, seenBy>> /\ Cleanup!Goto(s, "resolve")
    BY <1>8 DEF Cleanup!DestroyOrphan, Cleanup!Read, Cleanup!findings
  <2>2. QED
    BY <1>b, <1>h, <1>o, <1>s, <2>1
<1>9. CASE Cleanup!ResolveCleaned(s)
  <2>1. sweep[s].pc = "resolve" /\ UNCHANGED <<lease, seenBy>> /\ Cleanup!Goto(s, "orphans")
    BY <1>9 DEF Cleanup!ResolveCleaned, Cleanup!Read
  <2>2. QED
    BY <1>b, <1>h, <1>o, <1>s, <2>1
<1>10. CASE Cleanup!DestroyRejects(s) \/ Cleanup!FinishSweep(s) \/ Cleanup!SweepFails(s)
  <2>1. sweep'[s] = Cleanup!NewSweep /\ \A x \in Cleanup!Resources : s \in seenBy'[x] => s \in seenBy[x]
    BY <1>10, <1>t DEF Cleanup!DestroyRejects, Cleanup!FinishSweep, Cleanup!SweepFails,
       Cleanup!findings
  <2>2. QED
    BY <1>a, <2>1
<1>11. QED
  BY <1>1, <1>2, <1>3, <1>4, <1>5, <1>6, <1>7, <1>8, <1>9, <1>10 DEF Cleanup!SweepNext

-----------------------------------------------------------------------------
(* The count of a finding *)

LEMMA SeenIsFinite ==
    ASSUME Cleanup!OrphanCleanupAssumption, TypeInv, NEW x \in Cleanup!Resources
    PROVE  seenBy[x] \subseteq Cleanup!Sweeps /\ IsFiniteSet(seenBy[x])
<1>1. IsFiniteSet(Cleanup!Sweeps)
  BY FS_Interval DEF Cleanup!Sweeps, Cleanup!OrphanCleanupAssumption
<1>2. seenBy[x] \subseteq Cleanup!Sweeps
  BY DEF TypeInv, Cleanup!TypeOK
<1>3. QED
  BY <1>1, <1>2, FS_Subset

\* A sweep that has a project still to do has not seen it: the second
\* observation of a finding is another sweep's.
LEMMA CompareKeepsCounted ==
    ASSUME Cleanup!OrphanCleanupAssumption, CountInv,
           NEW s \in Cleanup!Sweeps, NEW y \in Cleanup!Resources, Cleanup!CompareResource(s, y)
    PROVE  Counted'
<1>t. /\ orphan \in [Cleanup!Resources -> Cleanup!Finding]
      /\ seenBy \in [Cleanup!Resources -> SUBSET Cleanup!Sweeps]
      /\ orphan[y] \in Cleanup!Finding /\ seenBy[y] \subseteq Cleanup!Sweeps
  BY DEF CountInv, TypeInv, Cleanup!TypeOK
<1>1. IsFiniteSet(seenBy[y])
  BY SeenIsFinite DEF CountInv
<1>2. s \notin seenBy[y]
  BY DEF Cleanup!CompareResource, CountInv, SeenOnce
<1>3. ASSUME NEW x \in Cleanup!Resources, x # y
      PROVE  orphan'[x] = orphan[x] /\ seenBy'[x] = seenBy[x]
  BY <1>3, <1>t DEF Cleanup!CompareResource
<1>4. CASE sweep[s].trk.ext = y
  <2>1. orphan'[y] = Cleanup!Resolved(orphan[y], {"OPEN", "APPROVED", "CLEANING"})
    BY <1>4, <1>t DEF Cleanup!CompareResource
  <2>2. orphan'[y].status \in {"none", "RESOLVED"}
    BY <1>t, <2>1 DEF Cleanup!Resolved, Cleanup!Finding, Cleanup!FindingStatuses
  <2>3. QED
    BY <1>3, <2>2 DEF CountInv, Counted, Unresolved
<1>5. CASE sweep[s].trk.ext # y
  <2>1. orphan'[y] = Cleanup!Observed(orphan[y], s) /\ seenBy'[y] = seenBy[y] \union {s}
    BY <1>5, <1>t DEF Cleanup!CompareResource
  <2>2. Cardinality(seenBy'[y]) = Cardinality(seenBy[y]) + 1 /\ Cardinality(seenBy[y]) \in Nat
    BY <1>1, <1>2, <2>1, FS_AddElement, FS_CardinalityType
  <2>3. CASE orphan[y].status \in {"none", "RESOLVED"}
    <3>1. orphan'[y].count = 1
      BY <2>1, <2>3 DEF Cleanup!Observed
    <3>2. QED
      BY <1>3, <2>2, <3>1 DEF CountInv, Counted, Unresolved
  <2>4. CASE orphan[y].status \notin {"none", "RESOLVED"}
    <3>1. orphan'[y].count = 2
      BY <1>t, <2>1, <2>4 DEF Cleanup!Observed, Cleanup!Finding
    <3>2. /\ orphan[y].count >= 1 /\ Cardinality(seenBy[y]) >= orphan[y].count
          /\ orphan[y].count \in Nat
      BY <1>t, <2>4 DEF CountInv, Counted, Unresolved, Cleanup!Finding
    <3>3. Cardinality(seenBy'[y]) >= 2
      BY <2>2, <3>2
    <3>4. QED
      BY <1>3, <3>1, <3>3 DEF CountInv, Counted, Unresolved
  <2>5. QED
    BY <2>3, <2>4
<1>6. QED
  BY <1>4, <1>5

\* No other step opens a finding or changes its count.
LEMMA SweepKeepsCounted ==
    ASSUME Cleanup!OrphanCleanupAssumption, CountInv, NEW s \in Cleanup!Sweeps, Cleanup!SweepNext(s)
    PROVE  Counted'
<1>t. /\ orphan \in [Cleanup!Resources -> Cleanup!Finding]
      /\ seenBy \in [Cleanup!Resources -> SUBSET Cleanup!Sweeps]
      /\ \A x \in Cleanup!Resources : orphan[x] \in Cleanup!Finding /\ orphan[x].status \in Cleanup!FindingStatuses
  BY DEF CountInv, TypeInv, Cleanup!TypeOK, Cleanup!Finding
<1>a. ASSUME \A x \in Cleanup!Resources :
               \/ orphan'[x].status \in {"none", "RESOLVED"}
               \/ /\ Unresolved(x) /\ orphan'[x].count = orphan[x].count
                  /\ seenBy'[x] = seenBy[x]
      PROVE  Counted'
  BY <1>a DEF CountInv, Counted, Unresolved
<1>b. ASSUME NEW y \in Cleanup!Resources, NEW f, orphan' = [orphan EXCEPT ![y] = f], UNCHANGED seenBy,
             \/ f.status \in {"none", "RESOLVED"}
             \/ Unresolved(y) /\ f.count = orphan[y].count
      PROVE  Counted'
  <2>1. \A x \in Cleanup!Resources \ {y} : orphan'[x] = orphan[x]
    BY <1>b, <1>t
  <2>2. orphan'[y] = f
    BY <1>b, <1>t
  <2>3. QED
    BY <1>b, <2>1, <2>2 DEF CountInv, Counted, Unresolved
<1>h. sweep[s].pc \in {"claim", "destroy", "resolve"} => sweep[s].at \in Cleanup!Resources
  BY DEF CountInv, TypeInv
<1>1. CASE Cleanup!BeginSweep(s)
  <2>1. ASSUME NEW x \in Cleanup!Resources
        PROVE  \/ orphan'[x].status \in {"none", "RESOLVED"}
               \/ Unresolved(x) /\ orphan'[x].count = orphan[x].count
    BY <1>1, <1>t, <2>1 DEF Cleanup!BeginSweep, Cleanup!Released, Unresolved, Cleanup!Finding
  <2>2. UNCHANGED seenBy
    BY <1>1 DEF Cleanup!BeginSweep
  <2>3. QED
    BY <1>a, <2>1, <2>2
<1>2. CASE Cleanup!LeaseExpires(s) \/ Cleanup!ListManaged(s) \/ Cleanup!ListTracked(s) \/ Cleanup!SweepFails(s)
  BY <1>2 DEF Cleanup!LeaseExpires, Cleanup!ListManaged, Cleanup!ListTracked,
     Cleanup!SweepFails, Cleanup!findings, CountInv, Counted,
              Unresolved
<1>3. CASE Cleanup!CompareTracked(s) \/ Cleanup!DestroyOrphan(s)
  BY <1>3 DEF Cleanup!CompareTracked, Cleanup!DestroyOrphan, Cleanup!findings, CountInv,
     Counted, Unresolved
<1>4. CASE \E x \in Cleanup!Resources : Cleanup!CompareResource(s, x)
  BY <1>4, CompareKeepsCounted
<1>5. CASE Cleanup!ClaimCleanup(s)
  <2>1. CASE Cleanup!MayClean(s, sweep[s].at)
    <3> DEFINE y == sweep[s].at
               f == [orphan[y] EXCEPT !.status = "CLEANING"]
    <3>1. y \in Cleanup!Resources /\ orphan' = [orphan EXCEPT ![y] = f] /\ UNCHANGED seenBy
      BY <1>5, <1>h, <2>1 DEF Cleanup!ClaimCleanup, Cleanup!Read
    <3>2. Unresolved(y) /\ f.count = orphan[y].count
      BY <1>t, <2>1, <3>1 DEF Cleanup!MayClean, Unresolved, Cleanup!Finding
    <3>3. QED
      BY <1>b, <3>1, <3>2
  <2>2. CASE ~ Cleanup!MayClean(s, sweep[s].at)
    BY <1>5, <2>2 DEF Cleanup!ClaimCleanup, CountInv, Counted, Unresolved
  <2>3. QED
    BY <2>1, <2>2
<1>6. CASE Cleanup!DestroyRejects(s)
  <2> DEFINE y == sweep[s].at
             f == [orphan[y] EXCEPT !.status =
                     IF orphan[y].status = "CLEANING" THEN "APPROVED" ELSE orphan[y].status]
  <2>1. y \in Cleanup!Resources /\ orphan' = [orphan EXCEPT ![y] = f] /\ UNCHANGED seenBy
    BY <1>6, <1>h DEF Cleanup!DestroyRejects, Cleanup!Read
  <2>2. f.status \in {"none", "RESOLVED"} \/ (Unresolved(y) /\ f.count = orphan[y].count)
    BY <1>t, <2>1 DEF Unresolved, Cleanup!Finding
  <2>3. QED
    BY <1>b, <2>1, <2>2
<1>7. CASE Cleanup!ResolveCleaned(s)
  <2> DEFINE y == sweep[s].at
             f == Cleanup!Resolved(orphan[y], {"OPEN", "APPROVED", "CLEANING"})
  <2>1. y \in Cleanup!Resources /\ orphan' = [orphan EXCEPT ![y] = f] /\ UNCHANGED seenBy
    BY <1>7, <1>h DEF Cleanup!ResolveCleaned, Cleanup!Read
  <2>2. f.status \in {"none", "RESOLVED"}
    BY <1>t, <2>1 DEF Cleanup!Resolved, Cleanup!Finding, Cleanup!FindingStatuses
  <2>3. QED
    BY <1>b, <2>1, <2>2
<1>8. CASE Cleanup!FinishSweep(s)
  <2>1. ASSUME NEW x \in Cleanup!Resources
        PROVE  \/ orphan'[x].status \in {"none", "RESOLVED"}
               \/ /\ Unresolved(x) /\ orphan'[x].count = orphan[x].count
                  /\ seenBy'[x] = seenBy[x]
    <3>1. CASE x \in sweep[s].inv
      BY <1>8, <1>t, <3>1 DEF Cleanup!FinishSweep, Unresolved
    <3>2. CASE x \notin sweep[s].inv
      <4>1. orphan'[x] = Cleanup!Resolved(orphan[x], {"OPEN", "APPROVED", "CLEANING"})
        BY <1>8, <3>2 DEF Cleanup!FinishSweep
      <4>2. QED
        BY <1>t, <4>1 DEF Cleanup!Resolved, Cleanup!Finding, Cleanup!FindingStatuses
    <3>3. QED
      BY <3>1, <3>2
  <2>2. QED
    BY <1>a, <2>1
<1>9. QED
  BY <1>1, <1>2, <1>3, <1>4, <1>5, <1>6, <1>7, <1>8 DEF Cleanup!SweepNext

\* A finding that is approved, or being cleaned up, was so before the step of a
\* sweep: a new finding is OPEN.
LEMMA SweepKeepsSanctioned ==
    ASSUME CountInv, NEW s \in Cleanup!Sweeps, Cleanup!SweepNext(s)
    PROVE  Sanctioned'
<1> DEFINE Keeps(f, g) ==
      \/ g.status \notin {"APPROVED", "CLEANING"}
      \/ f.status \in {"APPROVED", "CLEANING"} /\ g.approved = f.approved
<1>t. /\ orphan \in [Cleanup!Resources -> Cleanup!Finding]
      /\ \A x \in Cleanup!Resources : orphan[x] \in Cleanup!Finding
  BY DEF CountInv, TypeInv, Cleanup!TypeOK
<1>a. ASSUME \A x \in Cleanup!Resources : Keeps(orphan[x], orphan'[x])
      PROVE  Sanctioned'
  BY <1>a DEF CountInv, Sanctioned
<1>b. ASSUME NEW y \in Cleanup!Resources, NEW g, orphan' = [orphan EXCEPT ![y] = g],
             Keeps(orphan[y], g)
      PROVE  Sanctioned'
  <2>1. \A x \in Cleanup!Resources : orphan'[x] = IF x = y THEN g ELSE orphan[x]
    BY <1>b, <1>t
  <2>2. \A x \in Cleanup!Resources : Keeps(orphan[x], orphan'[x])
    BY <1>b, <2>1
  <2>3. QED
    BY <1>a, <2>2
<1>r. \A x \in Cleanup!Resources :
        Keeps(orphan[x], Cleanup!Resolved(orphan[x], {"OPEN", "APPROVED", "CLEANING"}))
  BY <1>t DEF Cleanup!Resolved, Cleanup!Finding
<1>h. sweep[s].pc \in {"claim", "destroy", "resolve"} => sweep[s].at \in Cleanup!Resources
  BY DEF CountInv, TypeInv
<1>1. CASE Cleanup!BeginSweep(s)
  <2>1. \A x \in Cleanup!Resources : Keeps(orphan[x], orphan'[x])
    BY <1>1, <1>t DEF Cleanup!BeginSweep, Cleanup!Released, Cleanup!Finding
  <2>2. QED
    BY <1>a, <2>1
<1>2. CASE UNCHANGED orphan
  BY <1>2 DEF CountInv, Sanctioned
<1>3. ASSUME NEW x \in Cleanup!Resources, Cleanup!CompareResource(s, x)
      PROVE  Sanctioned'
  <2>1. CASE sweep[s].trk.ext = x
    BY <1>3, <1>b, <1>r, <1>t, <2>1 DEF Cleanup!CompareResource
  <2>2. CASE sweep[s].trk.ext # x
    <3>1. orphan' = [orphan EXCEPT ![x] = Cleanup!Observed(orphan[x], s)]
      BY <1>3, <2>2 DEF Cleanup!CompareResource
    <3>2. Keeps(orphan[x], Cleanup!Observed(orphan[x], s))
      BY <1>t DEF Cleanup!Observed, Cleanup!Finding
    <3>3. QED
      BY <1>b, <3>1, <3>2
  <2>3. QED
    BY <2>1, <2>2
<1>4. CASE Cleanup!ClaimCleanup(s)
  <2> DEFINE y == sweep[s].at
             g == [orphan[y] EXCEPT !.status = "CLEANING"]
  <2>1. CASE Cleanup!MayClean(s, y)
    <3>1. y \in Cleanup!Resources /\ orphan' = [orphan EXCEPT ![y] = g]
      BY <1>4, <1>h, <2>1 DEF Cleanup!ClaimCleanup, Cleanup!Read
    <3>2. Keeps(orphan[y], g)
      BY <1>t, <2>1, <3>1 DEF Cleanup!MayClean, Cleanup!Finding
    <3>3. QED
      BY <1>b, <3>1, <3>2
  <2>2. CASE ~ Cleanup!MayClean(s, y)
    BY <1>2, <1>4, <2>2 DEF Cleanup!ClaimCleanup
  <2>3. QED
    BY <2>1, <2>2
<1>5. CASE Cleanup!DestroyRejects(s)
  <2> DEFINE y == sweep[s].at
             g == [orphan[y] EXCEPT !.status =
                     IF orphan[y].status = "CLEANING" THEN "APPROVED" ELSE orphan[y].status]
  <2>1. y \in Cleanup!Resources /\ orphan' = [orphan EXCEPT ![y] = g]
    BY <1>5, <1>h DEF Cleanup!DestroyRejects, Cleanup!Read
  <2>2. Keeps(orphan[y], g)
    BY <1>t, <2>1 DEF Cleanup!Finding
  <2>3. QED
    BY <1>b, <2>1, <2>2
<1>6. CASE Cleanup!ResolveCleaned(s)
  BY <1>6, <1>b, <1>h, <1>r, <1>t DEF Cleanup!ResolveCleaned, Cleanup!Read
<1>7. CASE Cleanup!FinishSweep(s)
  <2>1. \A x \in Cleanup!Resources :
          orphan'[x] \in {orphan[x],
                         Cleanup!Resolved(orphan[x], {"OPEN", "APPROVED", "CLEANING"})}
    BY <1>7 DEF Cleanup!FinishSweep
  <2>2. QED
    BY <1>a, <1>r, <2>1
<1>8. QED
  BY <1>1, <1>2, <1>3, <1>4, <1>5, <1>6, <1>7 DEF Cleanup!SweepNext, Cleanup!LeaseExpires,
     Cleanup!ListManaged, Cleanup!ListTracked, Cleanup!CompareTracked, Cleanup!DestroyOrphan,
     Cleanup!SweepFails, Cleanup!findings

LEMMA NextKeepsCount ==
    ASSUME Cleanup!OrphanCleanupAssumption, CountInv, [Cleanup!Next]_(Cleanup!vars)
    PROVE  CountInv'
<1> USE DEF CountInv
<1>t. /\ Cleanup!TypeOK /\ orphan \in [Cleanup!Resources -> Cleanup!Finding]
      /\ \A x \in Cleanup!Resources : orphan[x] \in Cleanup!Finding
  BY DEF TypeInv, Cleanup!TypeOK
<1>1. ASSUME NEW w \in Workers, Cleanup!WorkerNext(w)
      PROVE  CountInv'
  <2>1. UNCHANGED <<lease, sweep, Cleanup!findings>>
    BY <1>1 DEF Cleanup!WorkerNext, Cleanup!BeginProvision, Cleanup!AdoptByName,
       Cleanup!FindNone, Cleanup!CreateProject,
         Cleanup!RecordProvisioned, Cleanup!ExecutionFails, Cleanup!BeginDestroy, Cleanup!DestroyTracked
  <2>2. TypeInv'
    BY <1>1, WorkerKeepsTypes
  <2>3. QED
    BY <2>1, <2>2 DEF Started, SeenOnce, Counted, Sanctioned, Unresolved, Cleanup!findings
<1>2. ASSUME NEW s \in Cleanup!Sweeps, Cleanup!SweepNext(s)
      PROVE  CountInv'
  <2>1. Cleanup!TypeOK'
    BY <1>2, SweepKeepsTypes
  <2>2. TypeInv'
    BY <1>2, <2>1, SweepFrame, SweepKeepsOwn DEF TypeInv
  <2>3. Started'
    BY <1>2, SweepFrame, SweepKeepsOwn DEF Started
  <2>4. SeenOnce'
    <3>1. ASSUME NEW x \in Cleanup!Resources, NEW t \in Cleanup!Sweeps \ {s}, t \in seenBy'[x]
          PROVE  t \in seenBy[x]
      <4>1. ASSUME NEW y \in Cleanup!Resources, Cleanup!CompareResource(s, y)
            PROVE  seenBy'[x] \subseteq seenBy[x] \union {s}
        BY <4>1 DEF Cleanup!CompareResource, TypeInv, Cleanup!TypeOK
      <4>2. CASE Cleanup!FinishSweep(s)
        BY <3>1, <4>2 DEF Cleanup!FinishSweep
      <4>3. QED
        BY <1>2, <3>1, <4>1, <4>2
           DEF Cleanup!SweepNext, Cleanup!BeginSweep, Cleanup!LeaseExpires, Cleanup!ListManaged, Cleanup!ListTracked, Cleanup!CompareTracked,
               Cleanup!ClaimCleanup, Cleanup!DestroyOrphan, Cleanup!DestroyRejects, Cleanup!ResolveCleaned, Cleanup!SweepFails, Cleanup!findings
    <3>2. QED
      BY <1>2, <3>1, SweepFrame, SweepKeepsOwn DEF SeenOnce
  <2>5. Counted' /\ Sanctioned'
    BY <1>2, SweepKeepsCounted, SweepKeepsSanctioned
  <2>6. QED
    BY <2>2, <2>3, <2>4, <2>5
<1>3. ASSUME NEW x \in Cleanup!Resources, Cleanup!ApproveCleanup(x) \/ Cleanup!GracePasses(x)
      PROVE  CountInv'
  <2>1. PICK f \in {[orphan[x] EXCEPT !.status = "APPROVED", !.approved = TRUE],
                   [orphan[x] EXCEPT !.due = TRUE]} :
          orphan' = [orphan EXCEPT ![x] = f]
    BY <1>3 DEF Cleanup!ApproveCleanup, Cleanup!GracePasses
  <2>2. f \in Cleanup!Finding
    <3>1. [orphan[x] EXCEPT !.status = "APPROVED", !.approved = TRUE] \in Cleanup!Finding
      BY <1>t DEF Cleanup!Finding, Cleanup!FindingStatuses
    <3>2. [orphan[x] EXCEPT !.due = TRUE] \in Cleanup!Finding
      BY <1>t DEF Cleanup!Finding
    <3>3. QED
      BY <3>1, <3>2
  <2>3. f.count = orphan[x].count /\ Unresolved(x)
    BY <1>3, <1>t DEF Cleanup!ApproveCleanup, Cleanup!GracePasses, Cleanup!Finding, Unresolved
  <2>4. UNCHANGED <<Cleanup!row, Cleanup!provider, exec, lease, sweep, missing, seenBy>>
    BY <1>3 DEF Cleanup!ApproveCleanup, Cleanup!GracePasses
  <2>5. orphan' \in [Cleanup!Resources -> Cleanup!Finding]
    BY <1>t, <2>1, <2>2
  <2>6. TypeInv'
    BY <2>4, <2>5 DEF TypeInv, Cleanup!TypeOK, Cleanup!row, Cleanup!provider
  <2>7. Counted'
    BY <1>t, <2>1, <2>3, <2>4 DEF Counted, Unresolved
  <2>8. \A z \in Cleanup!Resources : orphan'[z] = IF z = x THEN f ELSE orphan[z]
    BY <1>t, <2>1
  <2>9. f.status \in {"APPROVED", "CLEANING"} => f.approved
    <3>1. CASE f = [orphan[x] EXCEPT !.status = "APPROVED", !.approved = TRUE]
      BY <1>t, <3>1 DEF Cleanup!Finding
    <3>2. CASE f = [orphan[x] EXCEPT !.due = TRUE]
      BY <1>t, <3>2 DEF Cleanup!Finding, Sanctioned
    <3>3. QED
      BY <2>1, <3>1, <3>2
  <2>10. Sanctioned'
    BY <2>8, <2>9 DEF Sanctioned
  <2>11. QED
    BY <2>4, <2>6, <2>7, <2>10 DEF Started, SeenOnce
<1>4. ASSUME NEW x \in Cleanup!Resources, Cleanup!RemovedOutside(x)
      PROVE  CountInv'
  BY <1>4 DEF Cleanup!RemovedOutside, TypeInv, Cleanup!TypeOK, Started, SeenOnce, Counted,
     Sanctioned, Unresolved, Cleanup!row, Cleanup!findings
<1>5. CASE UNCHANGED Cleanup!vars
  BY <1>5 DEF Cleanup!vars, TypeInv, Cleanup!TypeOK, Started, SeenOnce, Counted, Sanctioned, Unresolved,
     Cleanup!row, Cleanup!provider, Cleanup!findings
<1>6. QED
  BY <1>1, <1>2, <1>3, <1>4, <1>5 DEF Cleanup!Next

LEMMA InitCount ==
    ASSUME Cleanup!OrphanCleanupAssumption, Cleanup!Init
    PROVE  CountInv
<1>1. Cleanup!NewSweep \in Cleanup!SweepState /\ Cleanup!NewSweep.pc = "idle"
  BY DEF Cleanup!NewSweep, Cleanup!SweepState, Cleanup!SweepPcs, Cleanup!NoRow, Cleanup!Tracked,
     Cleanup!Statuses, Cleanup!OrphanCleanupAssumption
<1>2. Cleanup!NoFinding \in Cleanup!Finding /\ Cleanup!NoFinding.status = "none"
  BY DEF Cleanup!NoFinding, Cleanup!Finding, Cleanup!FindingStatuses,
     Cleanup!OrphanCleanupAssumption
<1>3. Cleanup!TypeOK
  BY <1>1, <1>2 DEF Cleanup!Init, Cleanup!TypeOK, Cleanup!Statuses, Cleanup!Exec,
     Cleanup!Leases, Cleanup!OrphanCleanupAssumption
<1>4. TypeInv /\ Started /\ SeenOnce /\ Counted /\ Sanctioned
  BY <1>1, <1>2, <1>3 DEF Cleanup!Init, TypeInv, Started, SeenOnce, Counted, Sanctioned, Unresolved
<1>5. QED
  BY <1>4 DEF CountInv

\* Every variable of the orphan cleanup keeps its type, whatever sweeps and
\* executions overlap.
THEOREM CleanupTypeCorrect ==
    ASSUME Cleanup!OrphanCleanupAssumption
    PROVE  Cleanup!Spec => []Cleanup!TypeOK
<1>1. CountInv => Cleanup!TypeOK
  BY DEF CountInv, TypeInv
<1>2. QED
  BY <1>1, InitCount, NextKeepsCount, PTL DEF Cleanup!Spec

\* claimOrphanCleanup: a claim rests on two different sweeps that saw the
\* project untracked, on a grace period that has passed and on an operator's
\* approval of this finding, also when sweeps outlive their leases.
THEOREM ClaimIsEarnedHolds ==
    ASSUME Cleanup!OrphanCleanupAssumption
    PROVE  Cleanup!Spec => [][ClaimIsEarned]_(Cleanup!vars)
<1>1. ASSUME CountInv, NEW s \in Cleanup!Sweeps, Cleanup!ClaimCleanup(s), sweep[s]'.pc = "destroy"
      PROVE  Cleanup!Earned(sweep[s].at)
  <2>1. sweep[s].at \in Cleanup!Resources /\ IsFiniteSet(seenBy[sweep[s].at])
    BY <1>1, SeenIsFinite DEF Cleanup!ClaimCleanup, Cleanup!Read, CountInv, TypeInv
  <2>2. Cleanup!MayClean(s, sweep[s].at)
    BY <1>1 DEF Cleanup!ClaimCleanup, Cleanup!Goto, CountInv, TypeInv, Cleanup!TypeOK,
       Cleanup!SweepState
  <2>3. /\ Unresolved(sweep[s].at) /\ orphan[sweep[s].at].count >= 2 /\ orphan[sweep[s].at].due
        /\ orphan[sweep[s].at].approved
    BY <1>1, <2>1, <2>2 DEF Cleanup!MayClean, Unresolved, CountInv, Sanctioned
  <2>4. orphan[sweep[s].at].count \in Nat /\ Cardinality(seenBy[sweep[s].at]) \in Nat
    <3>1. orphan[sweep[s].at] \in Cleanup!Finding
      BY <1>1, <2>1 DEF CountInv, TypeInv, Cleanup!TypeOK
    <3>2. orphan[sweep[s].at].count \in Nat
      BY <3>1 DEF Cleanup!Finding
    <3>3. QED
      BY <2>1, <3>2, FS_CardinalityType
  <2>5. Cardinality(seenBy[sweep[s].at]) >= orphan[sweep[s].at].count
    BY <1>1, <2>1, <2>3 DEF CountInv, Counted
  <2>6. \A x : Cleanup!Cardinality(x) = Cardinality(x)
    BY DEF Cleanup!Cardinality, Cardinality, Cleanup!IsFiniteSet, IsFiniteSet
  <2>7. QED
    BY <2>3, <2>4, <2>5, <2>6 DEF Cleanup!Earned
<1>2. ASSUME CountInv, [Cleanup!Next]_(Cleanup!vars)
      PROVE  [ClaimIsEarned]_(Cleanup!vars)
  BY <1>1, <1>2 DEF ClaimIsEarned
<1>3. QED
  BY <1>2, InitCount, NextKeepsCount, PTL DEF Cleanup!Spec

-----------------------------------------------------------------------------
(* The destroy call *)

\* Nobody else sweeps between a claim and the destroy call, so the evidence of
\* the claim is still there.
LEMMA NextKeepsEarned ==
    ASSUME Cleanup!OrphanCleanupAssumption, ~ AbandonedSurvives, EarnedInv, [Cleanup!Next]_(Cleanup!vars)
    PROVE  EarnedInv'
<1> USE DEF EarnedInv
<1>c. CountInv /\ CountInv'
  BY NextKeepsCount
<1>t. /\ sweep \in [Cleanup!Sweeps -> Cleanup!SweepState]
      /\ lease \in [Cleanup!Sweeps -> Cleanup!Leases]
      /\ orphan \in [Cleanup!Resources -> Cleanup!Finding]
      /\ seenBy \in [Cleanup!Resources -> SUBSET Cleanup!Sweeps]
  BY <1>c DEF CountInv, TypeInv, Cleanup!TypeOK
<1>h. \A t \in Cleanup!Sweeps : sweep[t].pc = "destroy" => sweep[t].at \in Cleanup!Resources
  BY <1>c DEF CountInv, TypeInv
<1>1. ASSUME NEW s \in Cleanup!Sweeps, Cleanup!SweepNext(s)
      PROVE  OneSweep' /\ Cleanup!CleanupIsEarned'
  <2>f. \A t \in Cleanup!Sweeps \ {s} : sweep'[t] = sweep[t]
    BY <1>1, <1>c, SweepFrame DEF CountInv
  \* Every step of a sweep but its first is one of the sweep with the lease.
  <2>a. ASSUME sweep[s].pc # "idle"
        PROVE  /\ lease[s] = "RUNNING"
               /\ \A t \in Cleanup!Sweeps \ {s} : sweep'[t].pc = "idle"
    BY <2>a, <2>f DEF OneSweep
  <2>1. CASE Cleanup!BeginSweep(s)
    <3>1. \A t \in Cleanup!Sweeps : lease[t] # "RUNNING" /\ sweep[t].pc = "idle"
      BY <2>1 DEF Cleanup!BeginSweep, OneSweep
    <3>2. \A t \in Cleanup!Sweeps : lease'[t] = "RUNNING" <=> t = s
      BY <2>1, <1>t, <3>1 DEF Cleanup!BeginSweep
    <3>3. sweep'[s].pc = "inventory"
      BY <2>1, <1>t DEF Cleanup!BeginSweep, Cleanup!Goto, Cleanup!SweepState
    <3>4. QED
      BY <2>f, <3>1, <3>2, <3>3 DEF OneSweep, Cleanup!CleanupIsEarned
  <2>2. CASE Cleanup!LeaseExpires(s)
    <3>1. sweep'[s] = Cleanup!NewSweep
      BY <2>2, <1>t DEF Cleanup!LeaseExpires
    <3>2. \A t \in Cleanup!Sweeps \ {s} : sweep'[t].pc = "idle"
      BY <2>2, <2>f DEF Cleanup!LeaseExpires, OneSweep
    <3>3. \A t \in Cleanup!Sweeps : lease'[t] = "RUNNING" => lease[t] = "RUNNING"
      BY <2>2, <1>t DEF Cleanup!LeaseExpires
    <3>4. QED
      BY <3>1, <3>2, <3>3 DEF OneSweep, Cleanup!CleanupIsEarned, Cleanup!NewSweep
  <2>3. CASE Cleanup!ListManaged(s) \/ Cleanup!ListTracked(s) \/ Cleanup!CompareTracked(s) \/ Cleanup!DestroyOrphan(s)
               \/ Cleanup!ResolveCleaned(s) \/ (\E x \in Cleanup!Resources : Cleanup!CompareResource(s, x))
    <3>1. sweep[s].pc # "idle" /\ UNCHANGED lease
      BY <2>3 DEF Cleanup!ListManaged, Cleanup!ListTracked, Cleanup!CompareTracked,
         Cleanup!DestroyOrphan, Cleanup!ResolveCleaned,
                  Cleanup!CompareResource, Cleanup!Read
    <3>2. CASE sweep'[s].pc # "destroy"
      BY <2>a, <3>1, <3>2 DEF OneSweep, Cleanup!CleanupIsEarned
    <3>3. sweep'[s].pc # "destroy"
      <4>1. CASE Cleanup!ListManaged(s) \/ Cleanup!ListTracked(s) \/ Cleanup!CompareTracked(s)
        BY <4>1, <1>t DEF Cleanup!ListManaged, Cleanup!ListTracked, Cleanup!CompareTracked,
           Cleanup!SweepState
      <4>2. CASE Cleanup!DestroyOrphan(s) \/ Cleanup!ResolveCleaned(s)
        BY <4>2, <1>t DEF Cleanup!DestroyOrphan, Cleanup!ResolveCleaned, Cleanup!Goto,
           Cleanup!SweepState
      <4>3. ASSUME NEW x \in Cleanup!Resources, Cleanup!CompareResource(s, x)
            PROVE  sweep'[s].pc # "destroy"
        <5>1. sweep[s].pc = "orphans"
          BY <4>3 DEF Cleanup!CompareResource, Cleanup!Read
        <5>2. CASE sweep[s].trk.ext = x
          BY <4>3, <1>t, <5>1, <5>2 DEF Cleanup!CompareResource, Cleanup!SweepState
        <5>3. CASE sweep[s].trk.ext # x
          <6>1. PICK pc \in {"orphans", "claim"} :
                  sweep' = [sweep EXCEPT ![s] = [sweep[s] EXCEPT !.todo = @ \ {x}, !.at = x, !.pc = pc]]
            BY <4>3, <5>3 DEF Cleanup!CompareResource
          <6>2. QED
            BY <1>t, <6>1 DEF Cleanup!SweepState
        <5>4. QED
          BY <5>2, <5>3
      <4>4. QED
        BY <2>3, <4>1, <4>2, <4>3
    <3>4. QED
      BY <3>2, <3>3
  <2>4. CASE Cleanup!ClaimCleanup(s)
    <3>1. sweep[s].pc # "idle" /\ UNCHANGED <<lease, seenBy>>
      BY <2>4 DEF Cleanup!ClaimCleanup, Cleanup!Read
    <3>2. OneSweep'
      BY <2>a, <3>1 DEF OneSweep
    <3>3. CASE Cleanup!MayClean(s, sweep[s].at)
      <4> DEFINE y == sweep[s].at
      <4>1. y \in Cleanup!Resources
        BY <2>4, <1>c DEF Cleanup!ClaimCleanup, Cleanup!Read, CountInv, TypeInv
      <4>2. /\ sweep'[s].at = y /\ orphan'[y].due = orphan[y].due
            /\ orphan'[y].approved = orphan[y].approved
        BY <2>4, <1>t, <3>3, <4>1 DEF Cleanup!ClaimCleanup, Cleanup!Goto, Cleanup!SweepState,
           Cleanup!Finding
      <4>3. orphan[y].due /\ orphan[y].approved /\ Cardinality(seenBy[y]) >= 2
        <5>1. orphan[y].due /\ orphan[y].approved /\ orphan[y].count >= 2 /\ Unresolved(y)
          BY <1>c, <3>3, <4>1 DEF Cleanup!MayClean, Unresolved, CountInv, Sanctioned
        <5>2. Cardinality(seenBy[y]) >= orphan[y].count
          BY <1>c, <4>1, <5>1 DEF CountInv, Counted
        <5>3. orphan[y].count \in Nat /\ Cardinality(seenBy[y]) \in Nat
          BY <1>c, <1>t, <4>1, SeenIsFinite, FS_CardinalityType, SMTT(40) DEF CountInv, TypeInv,
             Cleanup!Finding
        <5>4. QED
          BY <5>1, <5>2, <5>3
      <4>4. \A x : Cleanup!Cardinality(x) = Cardinality(x)
        BY DEF Cleanup!Cardinality, Cardinality, Cleanup!IsFiniteSet, IsFiniteSet
      <4>5. QED
        BY <2>a, <3>1, <3>2, <4>2, <4>3, <4>4 DEF Cleanup!CleanupIsEarned, Cleanup!Earned
    <3>4. CASE ~ Cleanup!MayClean(s, sweep[s].at)
      <4>1. sweep'[s].pc = "orphans"
        BY <2>4, <1>t, <3>4 DEF Cleanup!ClaimCleanup, Cleanup!Goto, Cleanup!SweepState
      <4>2. QED
        BY <2>a, <3>1, <3>2, <4>1 DEF Cleanup!CleanupIsEarned
    <3>5. QED
      BY <3>3, <3>4
  <2>5. CASE Cleanup!DestroyRejects(s) \/ Cleanup!FinishSweep(s) \/ Cleanup!SweepFails(s)
    <3>1. sweep[s].pc # "idle" /\ sweep'[s] = Cleanup!NewSweep
      BY <2>5, <1>t DEF Cleanup!DestroyRejects, Cleanup!FinishSweep, Cleanup!SweepFails,
         Cleanup!Read
    <3>2. \A t \in Cleanup!Sweeps : lease'[t] = "RUNNING" => lease[t] = "RUNNING"
      BY <2>5, <1>t DEF Cleanup!DestroyRejects, Cleanup!FinishSweep, Cleanup!SweepFails
    <3>3. QED
      BY <2>a, <3>1, <3>2 DEF OneSweep, Cleanup!CleanupIsEarned, Cleanup!NewSweep
  <2>6. QED
    BY <1>1, <2>1, <2>2, <2>3, <2>4, <2>5 DEF Cleanup!SweepNext
<1>2. ASSUME NEW w \in Workers, Cleanup!WorkerNext(w)
      PROVE  UNCHANGED <<lease, sweep, orphan, seenBy>>
  BY <1>2 DEF Cleanup!WorkerNext, Cleanup!BeginProvision, Cleanup!AdoptByName, Cleanup!FindNone,
     Cleanup!CreateProject,
         Cleanup!RecordProvisioned, Cleanup!ExecutionFails, Cleanup!BeginDestroy, Cleanup!DestroyTracked, Cleanup!findings
<1>3. ASSUME NEW x \in Cleanup!Resources, Cleanup!RemovedOutside(x)
      PROVE  UNCHANGED <<lease, sweep, orphan, seenBy>>
  BY <1>3 DEF Cleanup!RemovedOutside, Cleanup!findings
<1>4. ASSUME UNCHANGED <<lease, sweep, orphan, seenBy>>
      PROVE  OneSweep' /\ Cleanup!CleanupIsEarned'
  BY <1>4 DEF OneSweep, Cleanup!CleanupIsEarned, Cleanup!Earned
<1>5. ASSUME NEW x \in Cleanup!Resources, Cleanup!ApproveCleanup(x) \/ Cleanup!GracePasses(x)
      PROVE  OneSweep' /\ Cleanup!CleanupIsEarned'
  <2>1. UNCHANGED <<lease, sweep, seenBy>>
    BY <1>5 DEF Cleanup!ApproveCleanup, Cleanup!GracePasses
  <2>2. \A y \in Cleanup!Resources :
          (orphan[y].due => orphan'[y].due) /\ (orphan[y].approved => orphan'[y].approved)
    BY <1>5, <1>t DEF Cleanup!ApproveCleanup, Cleanup!GracePasses, Cleanup!Finding
  <2>3. QED
    BY <1>h, <2>1, <2>2 DEF OneSweep, Cleanup!CleanupIsEarned, Cleanup!Earned
<1>6. CASE UNCHANGED Cleanup!vars
  BY <1>4, <1>6, <1>c DEF Cleanup!vars, Cleanup!findings
<1>7. QED
  BY <1>c, <1>1, <1>2, <1>3, <1>4, <1>5, <1>6 DEF Cleanup!Next

\* "two or more independent inventory observations; expiration of
\* DATABASE_ORPHAN_GRACE_MS from first observation; an APPROVED durable finding"
\* (phase-3-database-reconciliation.md): when a project is destroyed, two
\* different sweeps saw it untracked since one saw it tracked or gone, and an
\* operator approved the finding they opened, provided that a sweep does not
\* work on after its lease expired.
THEOREM CleanupIsEarnedHolds ==
    ASSUME Cleanup!OrphanCleanupAssumption, ~ AbandonedSurvives
    PROVE  Cleanup!Spec => []Cleanup!CleanupIsEarned
<1>1. Cleanup!Init => EarnedInv
  <2>1. ASSUME Cleanup!Init PROVE OneSweep /\ Cleanup!CleanupIsEarned
    BY <2>1 DEF Cleanup!Init, Cleanup!NewSweep, OneSweep, Cleanup!CleanupIsEarned
  <2>2. QED
    BY <2>1, InitCount DEF EarnedInv
<1>2. EarnedInv => Cleanup!CleanupIsEarned
  BY DEF EarnedInv
<1>3. QED
  BY <1>1, <1>2, NextKeepsEarned, PTL DEF Cleanup!Spec

-----------------------------------------------------------------------------
(* Provisioning *)

\* A project that the execution has found or made, and one it only names.
HasProject == {"readConnection", "readOperation", "putConnection", "revokeOperation"}
NamesProject == HasProject \union {"record", "lease"}
\* The recorded project is destroyed.
Destroyed == {"revokeConnection", "completeDestroy"}
\* The way to a project of its own.
FoundNone == {"ensure", "putOperation", "getOperation", "create"}
HasLease == {"sandbox", "migrate", "terminate", "complete", "revokeLease"}
HasSandbox == {"migrate", "terminate"}

ProvisionTypes ==
    /\ slug \in Slugs
    /\ database \in {"PROVISIONING", "READY", "DELETED"} /\ projectId \in 0 .. MaxExecutions
    /\ password \in [Provision!Projects -> Provision!Passwords]
    /\ projects \in 0 .. MaxExecutions
    /\ operation \in Provision!Passwords
    /\ connection \in [Provision!Projects -> Provision!Passwords]
    /\ leases \subseteq Provision!Executions /\ sandboxes \subseteq Provision!Executions
    /\ excused \in [Provision!Executions -> SUBSET Provision!Reasons]

\* There is one project at a time, and its password is where the next looks.
OneProject ==
    /\ \A p \in Provision!Projects : p > projects => password[p] = 0 /\ connection[p] = 0
    /\ \A p, q \in Provision!Projects : password[p] # 0 /\ password[q] # 0 => p = q
    /\ Provision!StaysAdoptable

\* Executions start in their order, one after the other, and each that has
\* started made at most one project.
OneByOne ==
    /\ execution \in [Provision!Executions -> Provision!Exec]
    /\ \A e, f \in Provision!Executions : Provision!Live(e) /\ Provision!Live(f) => e = f
    /\ \A e, f \in Provision!Executions : f < e /\ ~ Provision!At(e, "none") => ~ Provision!At(f, "none")
    /\ \A e \in Provision!Executions : Provision!At(e, "none") => projects < e

\* What an execution knows at the step it has reached.
Here(e) ==
    LET x == execution[e] IN
    /\ x.pc \in NamesProject => x.ext \in Provision!Projects
    /\ x.pc \in HasProject => password[x.ext] # 0
    /\ x.pc = "readOperation" => connection[x.ext] = 0
    /\ x.pc = "create" => x.pw = operation /\ operation # 0
    /\ x.pc = "putConnection" => x.pw = password[x.ext]
    /\ x.pc = "revokeOperation" => connection[x.ext] = password[x.ext]
    /\ x.pc \in Destroyed => projectId \in Provision!Projects /\ password[projectId] = 0
    /\ x.pc \in FoundNone => \A p \in Provision!Projects : password[p] = 0
    /\ x.pc \in FoundNone \union {"list"} => projects < e

\* What an execution has to clean up is ahead of it.
LeaseExcuses == {"died", "revoke failed", "lease unheard"}
SandboxExcuses == {"died", "terminate failed", "sandbox unheard"}
CleansUp(e) ==
    /\ e \in leases => execution[e].pc \in HasLease \/ Provision!Excused(e, LeaseExcuses)
    /\ e \in sandboxes => execution[e].pc \in HasSandbox \/ Provision!Excused(e, SandboxExcuses)

ProvisionInv ==
    /\ ProvisionTypes /\ OneProject /\ OneByOne
    /\ \A e \in Provision!Executions : Here(e) /\ CleansUp(e)

LEMMA ProvisionInit ==
    ASSUME Provision!ProvisionSecretsAssumption
    PROVE  Provision!Init => ProvisionInv
<1> SUFFICES ASSUME Provision!Init PROVE ProvisionInv
  OBVIOUS
<1>1. MaxExecutions \in Nat
  BY DEF Provision!ProvisionSecretsAssumption
<1>2. Provision!NotStarted \in Provision!Exec /\ Provision!NotStarted.pc = "none"
  BY <1>1 DEF Provision!NotStarted, Provision!Exec, Provision!Pcs, Provision!Passwords
<1>3. \A e \in Provision!Executions : execution[e].pc = "none"
  BY <1>2 DEF Provision!Init
<1>4. ProvisionTypes
  BY <1>1 DEF Provision!Init, ProvisionTypes, Provision!Passwords
<1>5. OneProject
  BY DEF Provision!Init, OneProject, Provision!StaysAdoptable
<1>6. OneByOne
  BY <1>2, <1>3 DEF Provision!Init, OneByOne, Provision!Live, Provision!At, Provision!Executions
<1>7. \A e \in Provision!Executions : Here(e) /\ CleansUp(e)
  BY <1>3 DEF Provision!Init, Here, CleansUp, HasProject, NamesProject, FoundNone, Destroyed
<1>8. QED
  BY <1>4, <1>5, <1>6, <1>7 DEF ProvisionInv

\* Whoever takes a step, or starts, is alone.
Alone(e) ==
    \/ Provision!Live(e)
    \/ Provision!At(e, "none") /\ \A f \in Provision!Executions : ~ Provision!Live(f) /\ (f < e => ~ Provision!At(f, "none"))

\* It touches no lease, sandbox or excuse of another, and makes one project at most.
OthersKeep(e) ==
    \A f \in Provision!Executions \ {e} :
        /\ f \in leases' => f \in leases
        /\ f \in sandboxes' => f \in sandboxes
        /\ excused'[f] = excused[f]
Counts(e) == projects' = projects \/ projects' \in 0 .. e

\* An execution moves, and nobody else is alive to be disturbed.
LEMMA OneExecutionMoves ==
    ASSUME Provision!ProvisionSecretsAssumption, ProvisionInv, NEW e \in Provision!Executions, NEW x \in Provision!Exec, x.pc # "none",
           execution' = [execution EXCEPT ![e] = x], Alone(e), OthersKeep(e), Counts(e),
           ProvisionTypes', OneProject', Here(e)', CleansUp(e)'
    PROVE  ProvisionInv'
<1>1. /\ execution \in [Provision!Executions -> Provision!Exec]
      /\ execution' \in [Provision!Executions -> Provision!Exec] /\ execution'[e] = x
      /\ \A f \in Provision!Executions \ {e} : execution'[f] = execution[f]
  BY DEF ProvisionInv, OneByOne
<1>2. \A f \in Provision!Executions \ {e} : ~ Provision!Live(f) /\ execution[f].pc \in {"none", "over"}
  BY DEF ProvisionInv, OneByOne, Provision!Live, Alone
<1>3. \A f \in Provision!Executions \ {e} : execution'[f].pc \in {"none", "over"}
  BY <1>1, <1>2
<1>4. \A f \in Provision!Executions : f < e => ~ Provision!At(f, "none")
  BY DEF ProvisionInv, OneByOne, Provision!Live, Provision!At, Alone
<1>5. OneByOne'
  <2>1. \A f, g \in Provision!Executions : execution'[f].pc \notin {"none", "over"} /\ execution'[g].pc \notin {"none", "over"} => f = g
    BY <1>3
  <2>2. \A f, g \in Provision!Executions : g < f /\ execution'[f].pc # "none" => execution'[g].pc # "none"
    BY <1>1, <1>4 DEF ProvisionInv, OneByOne, Provision!At
  <2>3. ASSUME NEW f \in Provision!Executions, execution'[f].pc = "none"
        PROVE  projects' < f
    <3>1. f # e /\ Provision!At(f, "none") /\ projects < f
      BY <1>1, <2>3 DEF ProvisionInv, OneByOne, Provision!At
    <3>2. ~ (f < e)
      BY <1>4, <3>1
    <3>3. QED
      BY <3>1, <3>2 DEF Provision!Executions, Provision!ProvisionSecretsAssumption, Counts
  <2>4. QED
    BY <1>1, <2>1, <2>2, <2>3 DEF OneByOne, Provision!Live, Provision!At
<1>6. ASSUME NEW f \in Provision!Executions
      PROVE  Here(f)' /\ CleansUp(f)'
  <2>1. CASE f = e
    BY <2>1
  <2>2. CASE f # e
    <3>1. Here(f)'
      BY <1>3, <2>2 DEF Here, HasProject, NamesProject, FoundNone, Destroyed
    <3>2. CleansUp(f)'
      BY <1>1, <1>2, <2>2 DEF ProvisionInv, CleansUp, HasLease, HasSandbox, OthersKeep,
         Provision!Excused
    <3>3. QED
      BY <3>1, <3>2
  <2>3. QED
    BY <2>1, <2>2
<1>7. QED
  BY <1>5, <1>6 DEF ProvisionInv

\* An execution at another step.
LEMMA ToStep ==
    ASSUME NEW r \in Provision!Exec, NEW pc \in Provision!Pcs
    PROVE  /\ [r EXCEPT !.pc = pc] \in Provision!Exec /\ [r EXCEPT !.pc = pc].pc = pc
           /\ [r EXCEPT !.pc = pc].ext = r.ext /\ [r EXCEPT !.pc = pc].pw = r.pw
BY DEF Provision!Exec

\* A call that is answered, one that throws, and either of them.
LEMMA GotoMoves ==
    ASSUME NEW e \in Provision!Executions, execution[e] \in Provision!Exec,
           NEW pc \in Provision!Pcs, Provision!Goto(e, pc)
    PROVE  \E x \in Provision!Exec :
              /\ execution' = [execution EXCEPT ![e] = x] /\ x.pc = pc
              /\ x.ext = execution[e].ext /\ x.pw = execution[e].pw
<1> DEFINE x == [execution[e] EXCEPT !.pc = pc]
<1>1. x \in Provision!Exec /\ x.pc = pc /\ x.ext = execution[e].ext /\ x.pw = execution[e].pw
  BY ToStep
<1>2. execution' = [execution EXCEPT ![e] = x]
  BY DEF Provision!Goto
<1>3. QED
  BY <1>1, <1>2

LEMMA ThrowsMoves ==
    ASSUME NEW e \in Provision!Executions, execution[e] \in Provision!Exec, Provision!Throws(e)
    PROVE  \E x \in Provision!Exec :
              /\ execution' = [execution EXCEPT ![e] = x]
              /\ x.pc = Provision!Unwound(execution[e].pc)
              /\ x.ext = execution[e].ext /\ x.pw = execution[e].pw
<1> DEFINE pc == Provision!Unwound(execution[e].pc)
           x == [execution[e] EXCEPT !.pc = pc, !.ok = FALSE]
<1>1. pc \in Provision!Pcs
  BY DEF Provision!Unwound, Provision!Pcs
<1>2. execution' = [execution EXCEPT ![e] = x]
  BY DEF Provision!Throws
<1> HIDE DEF pc
<1>3. /\ x \in Provision!Exec /\ x.pc = pc
      /\ x.ext = execution[e].ext /\ x.pw = execution[e].pw
  BY <1>1 DEF Provision!Exec
<1>4. QED
  BY <1>2, <1>3 DEF pc

LEMMA AnswerMoves ==
    ASSUME NEW e \in Provision!Executions, execution[e] \in Provision!Exec,
           NEW pc \in Provision!Pcs, Provision!Answer(e, pc)
    PROVE  \E x \in Provision!Exec :
              /\ execution' = [execution EXCEPT ![e] = x]
              /\ x.pc \in {pc, Provision!Unwound(execution[e].pc)}
              /\ x.ext = execution[e].ext /\ x.pw = execution[e].pw
<1>1. CASE Provision!Goto(e, pc)
  BY <1>1, GotoMoves
<1>2. CASE Provision!Throws(e)
  BY <1>2, ThrowsMoves
<1>3. QED
  BY <1>1, <1>2 DEF Provision!Answer

\* An excuse is added to those of its execution, and to no other's.
LEMMA ExcuseAdds ==
    ASSUME NEW e \in Provision!Executions, NEW why \in Provision!Reasons,
           excused \in [Provision!Executions -> SUBSET Provision!Reasons],
           Provision!Excuse(e, why)
    PROVE  /\ excused' \in [Provision!Executions -> SUBSET Provision!Reasons]
           /\ excused'[e] = excused[e] \union {why}
           /\ \A f \in Provision!Executions \ {e} : excused'[f] = excused[f]
<1>1. excused' = [excused EXCEPT ![e] = excused[e] \union {why}]
  BY DEF Provision!Excuse
<1>2. excused[e] \union {why} \in SUBSET Provision!Reasons
  OBVIOUS
<1>3. QED
  BY <1>1, <1>2

\* A live execution goes to another step, and the secrets and the provider stay.
LEMMA OnlyMoves ==
    ASSUME Provision!ProvisionSecretsAssumption, ProvisionInv, NEW e \in Provision!Executions, NEW x \in Provision!Exec, x.pc # "none",
           execution' = [execution EXCEPT ![e] = x], Provision!Live(e),
           UNCHANGED <<slug, Provision!provider, operation, connection>>,
           database' \in {"PROVISIONING", "READY", "DELETED"}, projectId' \in 0 .. MaxExecutions,
           leases' \subseteq Provision!Executions, sandboxes' \subseteq Provision!Executions,
           excused' \in [Provision!Executions -> SUBSET Provision!Reasons],
           Here(e)', CleansUp(e)', OthersKeep(e)
    PROVE  ProvisionInv'
<1>1. ProvisionTypes'
  BY DEF ProvisionInv, ProvisionTypes, Provision!provider
<1>2. OneProject'
  BY DEF ProvisionInv, OneProject, Provision!StaysAdoptable, Provision!provider
<1>3. Counts(e) /\ Alone(e)
  BY DEF Counts, Alone, Provision!provider
<1>4. QED
  BY <1>1, <1>2, <1>3, OneExecutionMoves

LEMMA StartKeeps ==
    ASSUME Provision!ProvisionSecretsAssumption, ~ Duplicates, ProvisionInv, NEW e \in Provision!Executions,
           NEW pc \in {"list", "destroy"}, Provision!Start(e, pc)
    PROVE  ProvisionInv'
<1> DEFINE x == [execution[e] EXCEPT !.pc = pc]
<1>1. x \in Provision!Exec /\ x.pc = pc
  <2>1. execution[e] \in Provision!Exec /\ pc \in Provision!Pcs
    BY DEF ProvisionInv, OneByOne, Provision!Pcs
  <2>2. QED
    BY <2>1, ToStep
<1>2. /\ Provision!At(e, "none") /\ execution' = [execution EXCEPT ![e] = x]
      /\ \A f \in Provision!Executions : ~ Provision!Live(f) /\ (f < e => ~ Provision!At(f, "none"))
      /\ UNCHANGED <<slug, database, projectId, password, projects, operation, connection, leases, sandboxes, excused>>
  BY DEF Provision!Start, Provision!provider, Provision!secrets, Provision!row
<1>3. execution \in [Provision!Executions -> Provision!Exec] /\ projects < e /\ projects \in Nat
  BY <1>2 DEF ProvisionInv, OneByOne, ProvisionTypes
<1>4. ProvisionTypes' /\ OneProject'
  BY <1>2 DEF ProvisionInv, ProvisionTypes, OneProject, Provision!StaysAdoptable
<1> HIDE DEF x
<1>5. execution'[e] = x
  BY <1>2, <1>3
<1>6. Here(e)'
  BY <1>1, <1>2, <1>3, <1>5 DEF Here, HasProject, NamesProject, FoundNone, Destroyed
<1>7. CleansUp(e)'
  BY <1>2, <1>5 DEF CleansUp, HasLease, HasSandbox, ProvisionInv, Provision!At,
     Provision!Excused
<1>8. Alone(e) /\ OthersKeep(e) /\ Counts(e)
  BY <1>2 DEF Alone, OthersKeep, Counts
<1>9. QED
  BY <1>1, <1>2, <1>4, <1>6, <1>7, <1>8, OneExecutionMoves

-----------------------------------------------------------------------------
(* provision *)

\* The steps that look for a project or a password.
LEMMA LooksKeep ==
    ASSUME Provision!ProvisionSecretsAssumption, ProvisionInv, NEW e \in Provision!Executions,
           Provision!ListProjects(e) \/ Provision!ReadConnection(e) \/ Provision!ReadOperation(e) \/ Provision!EnsureOperationSecret(e)
             \/ Provision!GetOperation(e)
    PROVE  ProvisionInv'
<1>t. /\ execution \in [Provision!Executions -> Provision!Exec]
      /\ execution[e] \in Provision!Exec /\ operation \in Provision!Passwords
      /\ projects \in Nat
      /\ connection \in [Provision!Projects -> Provision!Passwords]
      /\ password \in [Provision!Projects -> Provision!Passwords]
  BY DEF ProvisionInv, ProvisionTypes, OneByOne
<1>h. Here(e) /\ CleansUp(e) /\ Provision!StaysAdoptable
  BY DEF ProvisionInv, OneProject
<1>u. UNCHANGED <<slug, database, projectId, password, projects, operation, connection, leases, sandboxes, excused>>
  BY DEF Provision!ListProjects, Provision!ReadConnection, Provision!ReadOperation,
     Provision!EnsureOperationSecret, Provision!GetOperation, Provision!provider,
         Provision!secrets, Provision!row
<1>l. Provision!Live(e) /\ execution[e].pc \notin HasLease
  BY DEF Provision!ListProjects, Provision!ReadConnection, Provision!ReadOperation,
     Provision!EnsureOperationSecret, Provision!GetOperation, Provision!Live, Provision!At,
         HasLease
<1>p. {"ensure", "readConnection", "record", "readOperation", "over", "putConnection", "getOperation",
       "putOperation", "create"} \subseteq Provision!Pcs
  BY DEF Provision!Pcs
<1>g. ASSUME NEW x \in Provision!Exec, x.pc # "none", execution' = [execution EXCEPT ![e] = x],
             Here(e)'
      PROVE  ProvisionInv'
  <2>1. CleansUp(e)'
    BY <1>h, <1>l, <1>u DEF CleansUp, HasLease, HasSandbox, Provision!Excused
  <2>2. UNCHANGED <<slug, Provision!provider, operation, connection>> /\ ProvisionTypes
    BY <1>u DEF Provision!provider, ProvisionInv
  <2>3. QED
    BY <1>g, <1>l, <1>u, <2>1, <2>2, OnlyMoves DEF ProvisionTypes, OthersKeep
<1>1. ASSUME Provision!ListProjects(e), \A p \in Provision!Projects : password[p] = 0
      PROVE  ProvisionInv'
  <2> DEFINE x == [execution[e] EXCEPT !.pc = "ensure"]
  <2>1. x \in Provision!Exec /\ x.pc = "ensure"
    BY <1>t, <1>p, ToStep
  <2>2. execution' = [execution EXCEPT ![e] = x] /\ Provision!At(e, "list")
    BY <1>1 DEF Provision!ListProjects, Provision!Goto
  <2> HIDE DEF x
  <2>3. execution'[e] = x
    BY <1>t, <2>2
  <2>4. Here(e)'
    BY <1>1, <1>h, <1>u, <2>1, <2>2, <2>3 DEF Here, HasProject, NamesProject, FoundNone, Destroyed,
       Provision!At
  <2>5. QED
    BY <1>g, <2>1, <2>2, <2>4
<1>2. ASSUME Provision!ListProjects(e), ~ \A p \in Provision!Projects : password[p] = 0
      PROVE  ProvisionInv'
  <2>1. PICK p \in Provision!Projects :
          /\ password[p] # 0
          /\ execution' = [execution EXCEPT ![e].pc = "readConnection", ![e].ext = p]
    BY <1>2 DEF Provision!ListProjects
  <2> DEFINE x == [execution[e] EXCEPT !.pc = "readConnection", !.ext = p]
  <2>2. p \in 0 .. MaxExecutions
    BY DEF Provision!Projects, Provision!ProvisionSecretsAssumption
  <2>3. x \in Provision!Exec /\ x.pc = "readConnection" /\ x.ext = p
    BY <1>t, <1>p, <2>2 DEF Provision!Exec
  <2>4. execution' = [execution EXCEPT ![e] = x]
    BY <2>1
  <2> HIDE DEF x
  <2>5. execution'[e] = x
    BY <1>t, <2>4
  <2>6. Here(e)'
    BY <1>u, <2>1, <2>3, <2>5 DEF Here, HasProject, NamesProject, FoundNone, Destroyed
  <2>7. QED
    BY <1>g, <2>3, <2>4, <2>6
<1>3. CASE Provision!ReadConnection(e)
  <2>1. PICK pc \in {"record", "readOperation", "over"} :
          /\ Provision!Goto(e, pc)
          /\ pc = "readOperation" => connection[execution[e].ext] = 0
    BY <1>3 DEF Provision!ReadConnection
  <2> DEFINE x == [execution[e] EXCEPT !.pc = pc]
  <2>2. x \in Provision!Exec /\ x.pc = pc /\ x.ext = execution[e].ext
    BY <1>t, <1>p, ToStep
  <2>3. execution' = [execution EXCEPT ![e] = x]
    BY <2>1 DEF Provision!Goto
  <2>4. execution[e].ext \in Provision!Projects /\ password[execution[e].ext] # 0
    BY <1>3, <1>h DEF Provision!ReadConnection, Provision!At, Here, HasProject, NamesProject
  <2> HIDE DEF x
  <2>5. execution'[e] = x
    BY <1>t, <2>3
  <2>6. Here(e)'
    BY <1>u, <2>1, <2>2, <2>4, <2>5 DEF Here, HasProject, NamesProject, FoundNone, Destroyed
  <2>7. QED
    BY <1>g, <2>2, <2>3, <2>6
<1>4. CASE Provision!ReadOperation(e)
  <2>1. PICK pc \in {"putConnection", "over"} :
          /\ execution' = [execution EXCEPT ![e].pc = pc, ![e].pw = operation]
          /\ pc = "putConnection" => operation # 0
    BY <1>4 DEF Provision!ReadOperation
  <2> DEFINE x == [execution[e] EXCEPT !.pc = pc, !.pw = operation]
  <2>2. x \in Provision!Exec /\ x.pc = pc /\ x.ext = execution[e].ext /\ x.pw = operation
    BY <1>t, <1>p DEF Provision!Exec
  <2>3. execution' = [execution EXCEPT ![e] = x]
    BY <2>1
  <2>4. /\ execution[e].ext \in Provision!Projects /\ password[execution[e].ext] # 0
        /\ connection[execution[e].ext] = 0
    BY <1>4, <1>h DEF Provision!ReadOperation, Provision!At, Here, HasProject, NamesProject
  <2>5. operation = password[execution[e].ext]
    BY <1>h, <2>4 DEF Provision!StaysAdoptable
  <2> HIDE DEF x
  <2>6. execution'[e] = x
    BY <1>t, <2>3
  <2>7. Here(e)'
    BY <1>u, <2>1, <2>2, <2>4, <2>5, <2>6 DEF Here, HasProject, NamesProject, FoundNone, Destroyed
  <2>8. QED
    BY <1>g, <2>2, <2>3, <2>7
<1>5. CASE Provision!EnsureOperationSecret(e)
  <2>1. /\ Provision!EnsuredBy \in {"getOperation", "putOperation", "over"}
        /\ Provision!Goto(e, Provision!EnsuredBy)
    BY <1>5 DEF Provision!EnsureOperationSecret, Provision!EnsuredBy
  <2> DEFINE x == [execution[e] EXCEPT !.pc = Provision!EnsuredBy]
  <2>2. x \in Provision!Exec /\ x.pc = Provision!EnsuredBy
    BY <1>t, <1>p, <2>1, ToStep
  <2>3. execution' = [execution EXCEPT ![e] = x] /\ Provision!At(e, "ensure")
    BY <1>5, <2>1 DEF Provision!Goto, Provision!EnsureOperationSecret
  <2> HIDE DEF x
  <2>4. execution'[e] = x
    BY <1>t, <2>3
  <2>5. Here(e)'
    BY <1>h, <1>u, <2>1, <2>2, <2>3, <2>4 DEF Here, HasProject, NamesProject, FoundNone, Destroyed,
       Provision!At
  <2>6. QED
    BY <1>g, <2>1, <2>2, <2>3, <2>5
<1>6. CASE Provision!GetOperation(e)
  <2>1. PICK pc \in {"create", "over"} :
          /\ execution' = [execution EXCEPT ![e].pc = pc, ![e].pw = operation]
          /\ pc = "create" => operation # 0
    BY <1>6 DEF Provision!GetOperation
  <2> DEFINE x == [execution[e] EXCEPT !.pc = pc, !.pw = operation]
  <2>2. x \in Provision!Exec /\ x.pc = pc /\ x.pw = operation
    BY <1>t, <1>p DEF Provision!Exec
  <2>3. execution' = [execution EXCEPT ![e] = x] /\ Provision!At(e, "getOperation")
    BY <1>6, <2>1 DEF Provision!GetOperation
  <2> HIDE DEF x
  <2>4. execution'[e] = x
    BY <1>t, <2>3
  <2>5. Here(e)'
    BY <1>h, <1>u, <2>1, <2>2, <2>3, <2>4 DEF Here, HasProject, NamesProject, FoundNone, Destroyed,
       Provision!At
  <2>6. QED
    BY <1>g, <2>2, <2>3, <2>5
<1>7. QED
  BY <1>1, <1>2, <1>3, <1>4, <1>5, <1>6

\* The steps that make a project and keep its secrets.
LEMMA SecretsKeep ==
    ASSUME Provision!ProvisionSecretsAssumption, ProvisionInv, NEW e \in Provision!Executions,
           Provision!PutOperation(e) \/ Provision!CreateProject(e) \/ Provision!PutConnection(e) \/ Provision!RevokeOperation(e)
    PROVE  ProvisionInv'
<1>t. /\ execution \in [Provision!Executions -> Provision!Exec]
      /\ execution[e] \in Provision!Exec /\ operation \in Provision!Passwords
      /\ projects \in 0 .. MaxExecutions
      /\ connection \in [Provision!Projects -> Provision!Passwords]
      /\ password \in [Provision!Projects -> Provision!Passwords]
  BY DEF ProvisionInv, ProvisionTypes, OneByOne
<1>m. MaxExecutions \in Nat /\ e \in 1 .. MaxExecutions
  BY DEF Provision!ProvisionSecretsAssumption, Provision!Executions
<1>h. Here(e) /\ CleansUp(e) /\ OneProject /\ ProvisionTypes
  BY DEF ProvisionInv
<1>u. UNCHANGED <<slug, database, projectId, leases, sandboxes, excused>>
  BY DEF Provision!PutOperation, Provision!CreateProject, Provision!PutConnection,
     Provision!RevokeOperation, Provision!secrets, Provision!row
<1>l. Provision!Live(e) /\ execution[e].pc \notin HasLease
  BY DEF Provision!PutOperation, Provision!CreateProject, Provision!PutConnection,
     Provision!RevokeOperation, Provision!Live, Provision!At, HasLease
<1>p. {"getOperation", "putConnection", "over", "revokeOperation", "record"} \subseteq Provision!Pcs
  BY DEF Provision!Pcs
<1>g. ASSUME NEW x \in Provision!Exec, x.pc # "none", execution' = [execution EXCEPT ![e] = x], Here(e)', OneProject', Counts(e),
             operation' \in Provision!Passwords, projects' \in 0 .. MaxExecutions,
             connection' \in [Provision!Projects -> Provision!Passwords], password' \in [Provision!Projects -> Provision!Passwords]
      PROVE  ProvisionInv'
  <2>1. CleansUp(e)'
    BY <1>h, <1>l, <1>u DEF CleansUp, HasLease, HasSandbox, Provision!Excused
  <2>2. ProvisionTypes'
    BY <1>g, <1>h, <1>u DEF ProvisionTypes
  <2>3. OthersKeep(e) /\ Alone(e)
    BY <1>u, <1>l DEF OthersKeep, Alone
  <2>4. QED
    BY <1>g, <2>1, <2>2, <2>3, OneExecutionMoves
<1>1. CASE Provision!PutOperation(e)
  <2>1. /\ execution[e].pc = "putOperation" /\ operation' = e
        /\ Provision!Answer(e, "getOperation")
        /\ UNCHANGED <<password, projects, connection>>
    BY <1>1 DEF Provision!PutOperation, Provision!At, Provision!provider
  <2>2. PICK x \in Provision!Exec :
          execution' = [execution EXCEPT ![e] = x] /\ x.pc \in {"getOperation", "over"}
    BY <1>t, <1>p, <2>1, AnswerMoves DEF Provision!Unwound
  <2>3. execution'[e] = x
    BY <1>t, <2>2
  <2>4. (\A p \in Provision!Projects : password[p] = 0) /\ projects < e
    BY <1>h, <2>1 DEF Here, FoundNone
  <2>5. OneProject'
    BY <1>h, <2>1, <2>4 DEF OneProject, Provision!StaysAdoptable
  <2>6. Here(e)'
    BY <2>1, <2>2, <2>3, <2>4 DEF Here, HasProject, NamesProject, FoundNone, Destroyed
  <2>7. Counts(e) /\ operation' \in Provision!Passwords
    BY <1>m, <2>1 DEF Counts, Provision!Passwords
  <2>8. QED
    BY <1>g, <1>t, <2>1, <2>2, <2>5, <2>6, <2>7
<1>2. CASE Provision!CreateProject(e)
  <2> DEFINE n == projects + 1
  <2>1. /\ execution[e].pc = "create" /\ execution[e].pw = operation /\ operation # 0
        /\ \A p \in Provision!Projects : password[p] = 0
        /\ projects < e
    BY <1>2, <1>h DEF Provision!CreateProject, Provision!At, Here, FoundNone
  <2>2. n \in Provision!Projects /\ n <= e /\ n \in 0 .. MaxExecutions /\ n > projects
    BY <1>m, <1>t, <2>1 DEF Provision!Projects
  <2>3. /\ projects' = n /\ password' = [password EXCEPT ![n] = operation]
        /\ UNCHANGED <<operation, connection>>
    BY <1>2, <2>1 DEF Provision!CreateProject, Provision!secrets
  <2>4. \A p \in Provision!Projects : password'[p] = IF p = n THEN operation ELSE 0
    BY <1>t, <2>1, <2>2, <2>3
  <2>5. connection[n] = 0
    BY <1>h, <2>2 DEF OneProject
  <2>6. OneProject'
    <3>1. \A p \in Provision!Projects : p > n => password'[p] = 0 /\ connection[p] = 0
      <4>1. \A p \in Provision!Projects : p > n => p > projects
        BY <1>t, <2>2 DEF Provision!Projects
      <4>2. QED
        BY <1>h, <2>2, <2>4, <4>1 DEF OneProject, Provision!Projects
    <3>2. \A p, q \in Provision!Projects : password'[p] # 0 /\ password'[q] # 0 => p = q
      BY <2>4
    <3>3. Provision!StaysAdoptable'
      BY <2>1, <2>3, <2>4, <2>5 DEF Provision!StaysAdoptable
    <3>4. QED
      BY <2>3, <3>1, <3>2, <3>3 DEF OneProject
  <2>7. Counts(e)
    BY <2>2, <2>3 DEF Counts, Provision!Projects
  <2>8. password' \in [Provision!Projects -> Provision!Passwords]
    BY <1>t, <2>2, <2>3
  <2>9. PICK x \in Provision!Exec :
          /\ execution' = [execution EXCEPT ![e] = x]
          /\ \/ x.pc = "putConnection" /\ x.ext = n /\ x.pw = execution[e].pw
             \/ x.pc = "over"
    <3>1. CASE execution' = [execution EXCEPT ![e].pc = "putConnection", ![e].ext = n]
      <4> DEFINE y == [execution[e] EXCEPT !.pc = "putConnection", !.ext = n]
      <4>1. n \in 0 .. MaxExecutions
        BY <2>2
      <4> HIDE DEF n
      <4>2. y \in Provision!Exec /\ y.pc = "putConnection" /\ y.ext = n /\ y.pw = execution[e].pw
        BY <1>t, <1>p, <4>1 DEF Provision!Exec
      <4>3. execution' = [execution EXCEPT ![e] = y]
        BY <3>1
      <4>4. QED
        BY <4>2, <4>3
    <3>2. CASE Provision!Throws(e)
      BY <1>t, <2>1, <3>2, ThrowsMoves DEF Provision!Unwound
    <3>3. QED
      BY <1>2, <3>1, <3>2 DEF Provision!CreateProject
  <2> HIDE DEF n
  <2>10. execution'[e] = x
    BY <1>t, <2>9
  <2>11. Here(e)'
    BY <2>1, <2>2, <2>4, <2>9, <2>10 DEF Here, HasProject, NamesProject, FoundNone, Destroyed
  <2>12. QED
    BY <1>g, <1>t, <2>2, <2>3, <2>6, <2>7, <2>8, <2>9, <2>11
<1>3. CASE Provision!PutConnection(e)
  <2> DEFINE n == execution[e].ext
  <2>1. /\ execution[e].pc = "putConnection" /\ Provision!Answer(e, "revokeOperation")
        /\ connection' = [connection EXCEPT ![n] = execution[e].pw]
        /\ UNCHANGED <<password, projects, operation>>
    BY <1>3 DEF Provision!PutConnection, Provision!At, Provision!provider
  <2>2. PICK x \in Provision!Exec :
          /\ execution' = [execution EXCEPT ![e] = x] /\ x.ext = n
          /\ x.pc \in {"revokeOperation", "over"}
    BY <1>t, <1>p, <2>1, AnswerMoves DEF Provision!Unwound
  <2>3. /\ n \in Provision!Projects /\ password[n] # 0 /\ execution[e].pw = password[n]
        /\ execution[e].pw \in Provision!Passwords
    BY <1>h, <1>t, <2>1 DEF Here, HasProject, NamesProject, Provision!Exec
  <2>4. \A p \in Provision!Projects : connection'[p] = IF p = n THEN password[n] ELSE connection[p]
    BY <1>t, <2>1, <2>3
  <2> HIDE DEF n
  <2>5. execution'[e] = x
    BY <1>t, <2>2
  <2>6. OneProject'
    BY <1>h, <2>1, <2>3, <2>4 DEF OneProject, Provision!StaysAdoptable
  <2>7. Here(e)'
    BY <2>2, <2>1, <2>3, <2>4, <2>5 DEF Here, HasProject, NamesProject, FoundNone, Destroyed
  <2>8. connection' \in [Provision!Projects -> Provision!Passwords] /\ Counts(e)
    BY <1>t, <2>1, <2>3 DEF Counts
  <2>9. QED
    BY <1>g, <1>t, <2>2, <2>1, <2>6, <2>7, <2>8
<1>4. CASE Provision!RevokeOperation(e)
  <2> DEFINE n == execution[e].ext
  <2>1. /\ execution[e].pc = "revokeOperation" /\ Provision!Answer(e, "record")
        /\ operation' = 0
        /\ UNCHANGED <<password, projects, connection>>
    BY <1>4 DEF Provision!RevokeOperation, Provision!At, Provision!provider
  <2>2. PICK x \in Provision!Exec :
          execution' = [execution EXCEPT ![e] = x] /\ x.ext = n /\ x.pc \in {"record", "over"}
    BY <1>t, <1>p, <2>1, AnswerMoves DEF Provision!Unwound
  <2>3. n \in Provision!Projects /\ password[n] # 0 /\ connection[n] = password[n]
    BY <1>h, <2>1 DEF Here, HasProject, NamesProject
  <2> HIDE DEF n
  <2>4. execution'[e] = x
    BY <1>t, <2>2
  <2>5. OneProject'
    <3>1. \A p \in Provision!Projects : password[p] # 0 => p = n
      BY <1>h, <2>3 DEF OneProject
    <3>2. QED
      BY <1>h, <2>1, <2>3, <3>1 DEF OneProject, Provision!StaysAdoptable
  <2>6. Here(e)'
    BY <2>2, <2>3, <2>4 DEF Here, HasProject, NamesProject, FoundNone, Destroyed
  <2>7. operation' \in Provision!Passwords /\ Counts(e)
    BY <1>m, <2>1 DEF Counts, Provision!Passwords
  <2>8. QED
    BY <1>g, <1>t, <2>2, <2>1, <2>5, <2>6, <2>7
<1>5. QED
  BY <1>1, <1>2, <1>3, <1>4

-----------------------------------------------------------------------------
(* The migration, the destruction and the failures *)

LEMMA MigrationKeeps ==
    ASSUME Provision!ProvisionSecretsAssumption, ProvisionInv, NEW e \in Provision!Executions,
           Provision!RecordProvisioned(e) \/ Provision!CreateLease(e) \/ Provision!CreateSandbox(e) \/ Provision!RunCommands(e)
             \/ Provision!TerminateSandbox(e) \/ Provision!CompleteMigration(e) \/ Provision!RevokeLease(e)
    PROVE  ProvisionInv'
<1>t. /\ execution \in [Provision!Executions -> Provision!Exec]
      /\ execution[e] \in Provision!Exec
      /\ connection \in [Provision!Projects -> Provision!Passwords]
      /\ database \in {"PROVISIONING", "READY", "DELETED"} /\ projectId \in 0 .. MaxExecutions
      /\ leases \subseteq Provision!Executions /\ sandboxes \subseteq Provision!Executions
      /\ excused \in [Provision!Executions -> SUBSET Provision!Reasons]
  BY DEF ProvisionInv, ProvisionTypes, OneByOne
<1>h. Here(e) /\ CleansUp(e)
  BY DEF ProvisionInv
<1>p. /\ {"lease", "over", "sandbox", "migrate", "terminate", "complete", "revokeLease"} \subseteq Provision!Pcs
      /\ LeaseExcuses \union SandboxExcuses \subseteq Provision!Reasons
  BY DEF Provision!Pcs, Provision!Reasons, LeaseExcuses, SandboxExcuses
<1>u. UNCHANGED <<slug, Provision!provider, operation, connection>> /\ Provision!Live(e)
  BY DEF Provision!RecordProvisioned, Provision!CreateLease, Provision!CreateSandbox,
     Provision!RunCommands, Provision!TerminateSandbox,
         Provision!CompleteMigration, Provision!RevokeLease, Provision!secrets, Provision!Live, Provision!At
\* An excuse, of this execution alone.
<1>x. ASSUME NEW why \in LeaseExcuses \union SandboxExcuses, Provision!Excuse(e, why)
      PROVE  /\ excused' \in [Provision!Executions -> SUBSET Provision!Reasons]
             /\ excused[e] \subseteq excused'[e] /\ why \in excused'[e]
             /\ \A f \in Provision!Executions \ {e} : excused'[f] = excused[f]
  BY <1>p, <1>t, <1>x, ExcuseAdds
\* From here on an execution uses no more than the number of its project.
<1>g. ASSUME NEW x \in Provision!Exec, x.pc \in HasLease \union {"lease", "over"}, execution' = [execution EXCEPT ![e] = x],
             x.pc = "lease" => x.ext \in Provision!Projects,
             database' \in {"PROVISIONING", "READY", "DELETED"}, projectId' \in 0 .. MaxExecutions,
             excused' \in [Provision!Executions -> SUBSET Provision!Reasons],
             \A f \in Provision!Executions \ {e} : excused'[f] = excused[f],
             leases' \subseteq leases \union {e}, sandboxes' \subseteq sandboxes \union {e},
             e \in leases' => x.pc \in HasLease \/ Provision!Excused(e, LeaseExcuses)',
             e \in sandboxes' => x.pc \in HasSandbox \/ Provision!Excused(e, SandboxExcuses)'
      PROVE  ProvisionInv'
  <2>1. execution'[e] = x
    BY <1>g, <1>t
  <2>2. Here(e)'
    BY <1>g, <2>1 DEF Here, HasProject, NamesProject, FoundNone, Destroyed, HasLease
  <2>3. CleansUp(e)'
    BY <1>g, <2>1 DEF CleansUp
  <2>4. /\ x.pc # "none" /\ leases' \subseteq Provision!Executions
        /\ sandboxes' \subseteq Provision!Executions
        /\ OthersKeep(e)
    BY <1>g, <1>t DEF HasLease, OthersKeep
  <2>5. QED
    BY <1>g, <1>u, <2>2, <2>3, <2>4, OnlyMoves
\* It leaves the leases and the sandboxes as they are, and no excuse is withdrawn.
<1>k. ASSUME NEW x \in Provision!Exec, x.pc \in HasLease \union {"lease", "over"}, execution' = [execution EXCEPT ![e] = x],
             x.pc = "lease" => x.ext \in Provision!Projects,
             database' \in {"PROVISIONING", "READY", "DELETED"}, projectId' \in 0 .. MaxExecutions,
             UNCHANGED <<leases, sandboxes, excused>>,
             execution[e].pc \in HasLease => x.pc \in HasLease,
             execution[e].pc \in HasSandbox => x.pc \in HasSandbox
      PROVE  ProvisionInv'
  <2>1. /\ e \in leases' => x.pc \in HasLease \/ Provision!Excused(e, LeaseExcuses)'
        /\ e \in sandboxes' => x.pc \in HasSandbox \/ Provision!Excused(e, SandboxExcuses)'
    BY <1>h, <1>k DEF CleansUp, Provision!Excused
  <2>2. /\ leases' \subseteq leases \union {e} /\ sandboxes' \subseteq sandboxes \union {e}
        /\ excused' \in [Provision!Executions -> SUBSET Provision!Reasons]
        /\ \A f \in Provision!Executions \ {e} : excused'[f] = excused[f]
    BY <1>k, <1>t
  <2>3. QED
    BY <1>g, <1>k, <2>1, <2>2
<1>1. CASE Provision!RecordProvisioned(e)
  <2>1. /\ execution[e].pc = "record" /\ execution[e].ext \in Provision!Projects
        /\ UNCHANGED <<database, leases, sandboxes, excused>>
        /\ projectId' \in {projectId, execution[e].ext}
        /\ Provision!Answer(e, "lease") \/ Provision!Goto(e, "over")
    BY <1>1, <1>h DEF Provision!RecordProvisioned, Provision!At, Provision!secrets, Here,
       NamesProject
  <2>2. PICK x \in Provision!Exec :
          /\ execution' = [execution EXCEPT ![e] = x] /\ x.ext = execution[e].ext
          /\ x.pc \in {"lease", "over"}
    <3>1. CASE Provision!Answer(e, "lease")
      BY <1>t, <1>p, <2>1, <3>1, AnswerMoves DEF Provision!Unwound
    <3>2. CASE Provision!Goto(e, "over")
      BY <1>t, <1>p, <3>2, GotoMoves
    <3>3. QED
      BY <2>1, <3>1, <3>2
  <2>3. projectId' \in 0 .. MaxExecutions
    BY <1>t, <2>1 DEF Provision!Projects, Provision!ProvisionSecretsAssumption
  <2>4. QED
    BY <1>k, <1>t, <2>1, <2>2, <2>3 DEF HasLease, HasSandbox
<1>2. CASE Provision!CreateLease(e)
  <2>1. /\ execution[e].pc = "lease" /\ execution[e].ext \in Provision!Projects
        /\ UNCHANGED <<database, projectId, sandboxes>>
    BY <1>2, <1>h DEF Provision!CreateLease, Provision!At, Provision!row, Here, NamesProject
  <2>2. e \in sandboxes => Provision!Excused(e, SandboxExcuses)
    BY <1>h, <2>1 DEF CleansUp, HasSandbox
  <2>3. CASE leases' = leases \union {e} /\ UNCHANGED excused
               /\ execution' = [execution EXCEPT ![e].pc = "sandbox", ![e].pw = connection[execution[e].ext]]
    <3> DEFINE w == connection[execution[e].ext]
               x == [execution[e] EXCEPT !.pc = "sandbox", !.pw = w]
    <3>1. w \in Provision!Passwords
      BY <1>t, <2>1
    <3>2. execution' = [execution EXCEPT ![e] = x]
      BY <2>3
    <3> HIDE DEF w
    <3>3. x \in Provision!Exec /\ x.pc = "sandbox"
      BY <1>t, <1>p, <3>1 DEF Provision!Exec
    <3> HIDE DEF x
    <3>4. QED
      BY <1>g, <1>t, <2>1, <2>2, <2>3, <3>2, <3>3 DEF HasLease, Provision!Excused
  <2>4. CASE leases' = leases \union {e} /\ Provision!Throws(e) /\ Provision!Excuse(e, "lease unheard")
    <3>1. PICK x \in Provision!Exec : execution' = [execution EXCEPT ![e] = x] /\ x.pc = "over"
      BY <1>t, <2>1, <2>4, ThrowsMoves DEF Provision!Unwound
    <3>2. /\ excused' \in [Provision!Executions -> SUBSET Provision!Reasons]
          /\ excused[e] \subseteq excused'[e] /\ "lease unheard" \in excused'[e]
          /\ \A f \in Provision!Executions \ {e} : excused'[f] = excused[f]
      BY <1>x, <2>4 DEF LeaseExcuses
    <3>3. Provision!Excused(e, LeaseExcuses)'
      BY <3>2 DEF Provision!Excused, LeaseExcuses
    <3>4. e \in sandboxes' => Provision!Excused(e, SandboxExcuses)'
      BY <2>1, <2>2, <3>2 DEF Provision!Excused
    <3>5. QED
      BY <1>g, <1>t, <2>1, <2>4, <3>1, <3>2, <3>3, <3>4
  <2>5. CASE Provision!Goto(e, "over") /\ UNCHANGED <<leases, excused>>
    <3>1. PICK x \in Provision!Exec : execution' = [execution EXCEPT ![e] = x] /\ x.pc = "over"
      BY <1>t, <1>p, <2>5, GotoMoves
    <3>2. QED
      BY <1>k, <1>t, <2>1, <2>5, <3>1 DEF HasLease, HasSandbox
  <2>6. QED
    BY <1>2, <2>3, <2>4, <2>5 DEF Provision!CreateLease
<1>3. CASE Provision!CreateSandbox(e)
  <2>1. /\ execution[e].pc = "sandbox" /\ sandboxes' = sandboxes \union {e}
        /\ UNCHANGED <<database, projectId, leases>>
    BY <1>3 DEF Provision!CreateSandbox, Provision!At, Provision!secrets, Provision!row
  <2>2. CASE Provision!Goto(e, "migrate") /\ UNCHANGED excused
    <3>1. PICK x \in Provision!Exec : execution' = [execution EXCEPT ![e] = x] /\ x.pc = "migrate"
      BY <1>t, <1>p, <2>2, GotoMoves
    <3>2. QED
      BY <1>g, <1>t, <2>1, <2>2, <3>1 DEF HasLease, HasSandbox
  <2>3. CASE Provision!Throws(e) /\ Provision!Excuse(e, "sandbox unheard")
    <3>1. PICK x \in Provision!Exec : execution' = [execution EXCEPT ![e] = x] /\ x.pc = "revokeLease"
      BY <1>t, <2>1, <2>3, ThrowsMoves DEF Provision!Unwound
    <3>2. /\ excused' \in [Provision!Executions -> SUBSET Provision!Reasons]
          /\ "sandbox unheard" \in excused'[e]
          /\ \A f \in Provision!Executions \ {e} : excused'[f] = excused[f]
      BY <1>x, <2>3 DEF SandboxExcuses
    <3>3. Provision!Excused(e, SandboxExcuses)'
      BY <3>2 DEF Provision!Excused, SandboxExcuses
    <3>4. QED
      BY <1>g, <1>t, <2>1, <3>1, <3>2, <3>3 DEF HasLease
  <2>4. QED
    BY <1>3, <2>2, <2>3 DEF Provision!CreateSandbox
<1>4. CASE Provision!RunCommands(e)
  <2> DEFINE ok == password[execution[e].ext] = execution[e].pw
             x == [execution[e] EXCEPT !.pc = "terminate", !.ok = ok]
  <2>1. ok \in BOOLEAN
    OBVIOUS
  <2>2. execution' = [execution EXCEPT ![e] = x] /\ execution[e].pc = "migrate"
        /\ UNCHANGED <<database, projectId, leases, sandboxes, excused>>
    BY <1>4 DEF Provision!RunCommands, Provision!At, Provision!secrets, Provision!row
  <2> HIDE DEF ok
  <2>3. x \in Provision!Exec /\ x.pc = "terminate"
    BY <1>t, <1>p, <2>1 DEF Provision!Exec
  <2> HIDE DEF x
  <2>4. QED
    BY <1>k, <1>t, <2>2, <2>3 DEF HasLease, HasSandbox
<1>5. CASE Provision!TerminateSandbox(e)
  <2>1. PICK pc \in {"complete", "revokeLease"} : Provision!Goto(e, pc)
    BY <1>5 DEF Provision!TerminateSandbox
  <2>2. PICK x \in Provision!Exec : execution' = [execution EXCEPT ![e] = x] /\ x.pc = pc
    BY <1>t, <1>p, <2>1, GotoMoves
  <2>3. execution[e].pc = "terminate" /\ UNCHANGED <<database, projectId, leases>>
    BY <1>5 DEF Provision!TerminateSandbox, Provision!At, Provision!secrets, Provision!row
  <2>4. CASE sandboxes' = sandboxes \ {e} /\ UNCHANGED excused
    BY <1>g, <1>t, <2>2, <2>3, <2>4 DEF HasLease
  <2>5. CASE UNCHANGED sandboxes /\ Provision!Excuse(e, "terminate failed")
    <3>1. /\ excused' \in [Provision!Executions -> SUBSET Provision!Reasons]
          /\ "terminate failed" \in excused'[e]
          /\ \A f \in Provision!Executions \ {e} : excused'[f] = excused[f]
      BY <1>x, <2>5 DEF SandboxExcuses
    <3>2. Provision!Excused(e, SandboxExcuses)'
      BY <3>1 DEF Provision!Excused, SandboxExcuses
    <3>3. QED
      BY <1>g, <1>t, <2>2, <2>3, <2>5, <3>1, <3>2 DEF HasLease
  <2>6. QED
    BY <1>5, <2>4, <2>5 DEF Provision!TerminateSandbox
<1>6. CASE Provision!CompleteMigration(e)
  <2>1. PICK x \in Provision!Exec : execution' = [execution EXCEPT ![e] = x] /\ x.pc = "revokeLease"
    <3>1. Provision!Goto(e, "revokeLease")
      BY <1>6 DEF Provision!CompleteMigration
    <3>2. QED
      BY <1>t, <1>p, <3>1, GotoMoves
  <2>2. /\ execution[e].pc = "complete"
        /\ database' \in {database, "READY"}
        /\ UNCHANGED <<projectId, leases, sandboxes, excused>>
    BY <1>6 DEF Provision!CompleteMigration, Provision!At, Provision!secrets
  <2>3. QED
    BY <1>k, <1>t, <2>1, <2>2 DEF HasLease, HasSandbox
<1>7. CASE Provision!RevokeLease(e)
  <2>1. PICK x \in Provision!Exec : execution' = [execution EXCEPT ![e] = x] /\ x.pc = "over"
    <3>1. Provision!Goto(e, "over")
      BY <1>7 DEF Provision!RevokeLease
    <3>2. QED
      BY <1>t, <1>p, <3>1, GotoMoves
  <2>2. execution[e].pc = "revokeLease" /\ UNCHANGED <<database, projectId, sandboxes>>
    BY <1>7 DEF Provision!RevokeLease, Provision!At, Provision!row
  <2>3. e \in sandboxes => Provision!Excused(e, SandboxExcuses)
    BY <1>h, <2>2 DEF CleansUp, HasSandbox
  <2>4. CASE leases' = leases \ {e} /\ UNCHANGED excused
    BY <1>g, <1>t, <2>1, <2>2, <2>3, <2>4 DEF Provision!Excused
  <2>5. CASE UNCHANGED leases /\ Provision!Excuse(e, "revoke failed")
    <3>1. /\ excused' \in [Provision!Executions -> SUBSET Provision!Reasons]
          /\ excused[e] \subseteq excused'[e] /\ "revoke failed" \in excused'[e]
          /\ \A f \in Provision!Executions \ {e} : excused'[f] = excused[f]
      BY <1>x, <2>5 DEF LeaseExcuses
    <3>2. /\ Provision!Excused(e, LeaseExcuses)'
          /\ e \in sandboxes => Provision!Excused(e, SandboxExcuses)'
      BY <2>3, <3>1 DEF Provision!Excused, LeaseExcuses
    <3>3. QED
      BY <1>g, <1>t, <2>1, <2>2, <2>5, <3>1, <3>2
  <2>6. QED
    BY <1>7, <2>4, <2>5 DEF Provision!RevokeLease
<1>8. QED
  BY <1>1, <1>2, <1>3, <1>4, <1>5, <1>6, <1>7

LEMMA DestroyKeeps ==
    ASSUME Provision!ProvisionSecretsAssumption, ProvisionInv, NEW e \in Provision!Executions,
           Provision!DestroyProject(e) \/ Provision!RevokeConnection(e) \/ Provision!CompleteDestroy(e)
    PROVE  ProvisionInv'
<1>t. /\ execution \in [Provision!Executions -> Provision!Exec]
      /\ execution[e] \in Provision!Exec /\ MaxExecutions \in Nat
      /\ connection \in [Provision!Projects -> Provision!Passwords]
      /\ password \in [Provision!Projects -> Provision!Passwords]
      /\ projectId \in 0 .. MaxExecutions
  BY DEF ProvisionInv, ProvisionTypes, OneByOne, Provision!ProvisionSecretsAssumption
<1>h. Here(e) /\ CleansUp(e) /\ OneProject /\ ProvisionTypes
  BY DEF ProvisionInv
<1>z. 0 \in Provision!Passwords /\ {"over", "revokeConnection", "completeDestroy"} \subseteq Provision!Pcs
  BY <1>t DEF Provision!Passwords, Provision!Pcs
<1>u. UNCHANGED <<slug, projectId, projects, operation, leases, sandboxes, excused>>
  BY DEF Provision!DestroyProject, Provision!RevokeConnection, Provision!CompleteDestroy,
     Provision!secrets, Provision!provider, Provision!row
<1>l. Provision!Live(e) /\ execution[e].pc \notin HasLease
  BY DEF Provision!DestroyProject, Provision!RevokeConnection, Provision!CompleteDestroy,
     Provision!Live, Provision!At, HasLease
<1>g. ASSUME NEW x \in Provision!Exec, x.pc # "none", execution' = [execution EXCEPT ![e] = x], Here(e)', OneProject', ProvisionTypes'
      PROVE  ProvisionInv'
  <2>1. CleansUp(e)'
    BY <1>h, <1>l, <1>u DEF CleansUp, HasLease, HasSandbox, Provision!Excused
  <2>2. OthersKeep(e) /\ Alone(e) /\ Counts(e)
    BY <1>u, <1>l DEF OthersKeep, Alone, Counts
  <2>3. QED
    BY <1>g, <2>1, <2>2, OneExecutionMoves
<1>1. CASE Provision!DestroyProject(e)
  <2>1. /\ execution[e].pc = "destroy" /\ projectId # 0
        /\ password' = [password EXCEPT ![projectId] = 0]
        /\ Provision!Answer(e, "revokeConnection")
        /\ UNCHANGED <<connection, database>>
    BY <1>1 DEF Provision!DestroyProject, Provision!At, Provision!secrets, Provision!row
  <2>2. projectId \in Provision!Projects
    BY <1>t, <2>1 DEF Provision!Projects
  <2>3. PICK x \in Provision!Exec :
          execution' = [execution EXCEPT ![e] = x] /\ x.pc \in {"revokeConnection", "over"}
    BY <1>t, <1>z, <2>1, AnswerMoves DEF Provision!Unwound
  <2>4. /\ execution'[e] = x
        /\ \A p \in Provision!Projects : password'[p] = IF p = projectId THEN 0 ELSE password[p]
    BY <1>t, <2>1, <2>3
  <2>5. OneProject'
    BY <1>h, <1>u, <2>1, <2>4 DEF OneProject, Provision!StaysAdoptable
  <2>6. Here(e)'
    BY <1>u, <2>2, <2>3, <2>4 DEF Here, HasProject, NamesProject, FoundNone, Destroyed
  <2>7. ProvisionTypes'
    BY <1>h, <1>t, <1>u, <1>z, <2>1, <2>2 DEF ProvisionTypes
  <2>8. QED
    BY <1>g, <2>3, <2>5, <2>6, <2>7
<1>2. CASE Provision!RevokeConnection(e)
  <2>1. /\ execution[e].pc = "revokeConnection" /\ Provision!Answer(e, "completeDestroy")
        /\ connection' = [connection EXCEPT ![projectId] = 0]
        /\ UNCHANGED <<password, database>>
    BY <1>2 DEF Provision!RevokeConnection, Provision!At, Provision!provider, Provision!row
  <2>2. projectId \in Provision!Projects /\ password[projectId] = 0
    BY <1>h, <2>1 DEF Here, Destroyed
  <2>3. PICK x \in Provision!Exec :
          execution' = [execution EXCEPT ![e] = x] /\ x.pc \in {"completeDestroy", "over"}
    BY <1>t, <1>z, <2>1, AnswerMoves DEF Provision!Unwound
  <2>4. /\ execution'[e] = x
        /\ \A p \in Provision!Projects : connection'[p] = IF p = projectId THEN 0 ELSE connection[p]
    BY <1>t, <2>1, <2>3
  <2>5. OneProject'
    BY <1>h, <1>u, <2>1, <2>2, <2>4 DEF OneProject, Provision!StaysAdoptable
  <2>6. Here(e)'
    BY <1>u, <2>1, <2>2, <2>3, <2>4 DEF Here, HasProject, NamesProject, FoundNone, Destroyed
  <2>7. ProvisionTypes'
    BY <1>h, <1>t, <1>u, <1>z, <2>1, <2>2 DEF ProvisionTypes
  <2>8. QED
    BY <1>g, <2>3, <2>5, <2>6, <2>7
<1>3. CASE Provision!CompleteDestroy(e)
  <2>1. /\ execution[e].pc = "completeDestroy" /\ Provision!Answer(e, "over")
        /\ database' = "DELETED"
        /\ UNCHANGED <<password, connection>>
    BY <1>3 DEF Provision!CompleteDestroy, Provision!At, Provision!provider, Provision!secrets
  <2>2. PICK x \in Provision!Exec : execution' = [execution EXCEPT ![e] = x] /\ x.pc = "over"
    BY <1>t, <1>z, <2>1, AnswerMoves DEF Provision!Unwound
  <2>3. execution'[e] = x
    BY <1>t, <2>2
  <2>4. OneProject' /\ ProvisionTypes'
    BY <1>h, <1>u, <2>1 DEF OneProject, Provision!StaysAdoptable, ProvisionTypes
  <2>5. Here(e)'
    BY <2>2, <2>3 DEF Here, HasProject, NamesProject, FoundNone, Destroyed
  <2>6. QED
    BY <1>g, <2>2, <2>4, <2>5
<1>4. QED
  BY <1>1, <1>2, <1>3

LEMMA FailuresKeep ==
    ASSUME Provision!ProvisionSecretsAssumption, ProvisionInv, NEW e \in Provision!Executions,
           Provision!CallFails(e) \/ Provision!WorkerDies(e) \/ Provision!SandboxTimesOut(e)
    PROVE  ProvisionInv'
<1>t. execution \in [Provision!Executions -> Provision!Exec] /\ execution[e] \in Provision!Exec
      /\ leases \subseteq Provision!Executions /\ sandboxes \subseteq Provision!Executions
      /\ excused \in [Provision!Executions -> SUBSET Provision!Reasons]
      /\ database \in {"PROVISIONING", "READY", "DELETED"} /\ projectId \in 0 .. MaxExecutions
  BY DEF ProvisionInv, ProvisionTypes, OneByOne
<1>h. CleansUp(e)
  BY DEF ProvisionInv
<1>g. ASSUME NEW x \in Provision!Exec, x.pc \in {"terminate", "revokeLease", "over"}, execution' = [execution EXCEPT ![e] = x],
             Provision!Live(e), UNCHANGED <<slug, Provision!row, Provision!provider, Provision!secrets, sandboxes>>,
             excused' \in [Provision!Executions -> SUBSET Provision!Reasons],
             \A f \in Provision!Executions \ {e} : excused'[f] = excused[f], CleansUp(e)'
      PROVE  ProvisionInv'
  <2>1. execution'[e] = x
    BY <1>g, <1>t
  <2>2. Here(e)'
    BY <1>g, <2>1 DEF Here, HasProject, NamesProject, FoundNone, Destroyed
  <2>3. OthersKeep(e) /\ UNCHANGED <<slug, database, projectId, operation, connection, leases>>
    BY <1>g, <1>t DEF OthersKeep, Provision!secrets, Provision!row
  <2>4. QED
    BY <1>g, <1>t, <2>2, <2>3, OnlyMoves
<1>1. CASE Provision!CallFails(e)
  <2>1. /\ Provision!Live(e) /\ Provision!Throws(e)
        /\ execution[e].pc \notin {"terminate", "revokeLease"}
        /\ UNCHANGED <<slug, Provision!row, Provision!provider, Provision!secrets, sandboxes, excused>>
    BY <1>1 DEF Provision!CallFails
  <2>2. PICK x \in Provision!Exec :
          execution' = [execution EXCEPT ![e] = x] /\ x.pc = Provision!Unwound(execution[e].pc)
    BY <1>t, <2>1, ThrowsMoves
  <2>3. /\ x.pc \in {"terminate", "revokeLease", "over"}
        /\ execution[e].pc \in HasLease => x.pc \in HasLease
        /\ execution[e].pc \in HasSandbox => x.pc \in HasSandbox
    BY <2>1, <2>2 DEF Provision!Unwound, HasLease, HasSandbox
  <2>4. execution'[e] = x
    BY <1>t, <2>2
  <2>5. CleansUp(e)'
    BY <1>h, <2>1, <2>3, <2>4 DEF CleansUp, Provision!secrets, Provision!Excused
  <2>6. QED
    BY <1>g, <1>t, <2>1, <2>2, <2>3, <2>5
<1>2. CASE Provision!WorkerDies(e)
  <2>1. /\ Provision!Live(e) /\ Provision!Excuse(e, "died")
        /\ UNCHANGED <<slug, Provision!row, Provision!provider, Provision!secrets, sandboxes>>
    BY <1>2 DEF Provision!WorkerDies
  <2>2. PICK x \in Provision!Exec : execution' = [execution EXCEPT ![e] = x] /\ x.pc = "over"
    BY <1>t, <1>2, GotoMoves DEF Provision!WorkerDies, Provision!Pcs
  <2>3. /\ excused' \in [Provision!Executions -> SUBSET Provision!Reasons]
        /\ "died" \in excused'[e]
        /\ \A f \in Provision!Executions \ {e} : excused'[f] = excused[f]
    BY <1>t, <2>1, ExcuseAdds DEF Provision!Reasons
  <2>4. CleansUp(e)'
    BY <2>3 DEF CleansUp, Provision!Excused, LeaseExcuses, SandboxExcuses
  <2>5. QED
    BY <1>g, <2>1, <2>2, <2>3, <2>4
<1>3. CASE Provision!SandboxTimesOut(e)
  <2>1. /\ sandboxes' = sandboxes \ {e}
        /\ UNCHANGED <<slug, Provision!row, Provision!provider, Provision!secrets, execution, excused>>
    BY <1>3 DEF Provision!SandboxTimesOut
  <2>2. ProvisionTypes' /\ OneProject' /\ OneByOne'
    BY <2>1 DEF ProvisionInv, ProvisionTypes, OneProject, OneByOne, Provision!StaysAdoptable,
       Provision!row, Provision!provider, Provision!secrets, Provision!Live, Provision!At
  <2>3. \A f \in Provision!Executions : Here(f)' /\ CleansUp(f)'
    BY <2>1 DEF ProvisionInv, Here, CleansUp, Provision!Excused, Provision!row,
       Provision!provider, Provision!secrets
  <2>4. QED
    BY <2>2, <2>3 DEF ProvisionInv
<1>4. QED
  BY <1>1, <1>2, <1>3

LEMMA ProvisionNextKeeps ==
    ASSUME Provision!ProvisionSecretsAssumption, ~ Duplicates, ProvisionInv, [Provision!Next]_(Provision!vars)
    PROVE  ProvisionInv'
<1>1. ASSUME NEW e \in Provision!Executions, Provision!StartProvision(e) \/ Provision!StartDestroy(e)
      PROVE  ProvisionInv'
  BY <1>1, StartKeeps DEF Provision!StartProvision, Provision!StartDestroy
<1>2. ASSUME NEW e \in Provision!Executions, Provision!Step(e)
      PROVE  ProvisionInv'
  BY <1>2, LooksKeep, SecretsKeep, MigrationKeeps, DestroyKeeps DEF Provision!Step
<1>3. ASSUME NEW e \in Provision!Executions, Provision!CallFails(e) \/ Provision!WorkerDies(e) \/ Provision!SandboxTimesOut(e)
      PROVE  ProvisionInv'
  BY <1>3, FailuresKeep
<1>4. CASE UNCHANGED Provision!vars
  <2>1. ProvisionTypes' /\ OneProject' /\ OneByOne'
    BY <1>4 DEF ProvisionInv, ProvisionTypes, OneProject, OneByOne, Provision!StaysAdoptable,
       Provision!vars, Provision!row, Provision!provider, Provision!secrets,
                Provision!Live, Provision!At
  <2>2. \A f \in Provision!Executions : Here(f)' /\ CleansUp(f)'
    BY <1>4 DEF ProvisionInv, Here, CleansUp, Provision!Excused, Provision!vars, Provision!row,
       Provision!provider, Provision!secrets
  <2>3. QED
    BY <2>1, <2>2 DEF ProvisionInv
<1>5. QED
  BY <1>1, <1>2, <1>3, <1>4 DEF Provision!Next

LEMMA ProvisionInvariance ==
    ASSUME Provision!ProvisionSecretsAssumption, ~ Duplicates PROVE Provision!Spec => []ProvisionInv
<1>1. Provision!Init => ProvisionInv
  BY ProvisionInit
<1>2. ProvisionInv /\ [Provision!Next]_(Provision!vars) => ProvisionInv'
  BY ProvisionNextKeeps
<1>3. QED
  BY <1>1, <1>2, PTL DEF Provision!Spec

LEMMA ProvisionInvMeans ==
    ASSUME ProvisionInv
    PROVE  Provision!TypeOK /\ Provision!StaysAdoptable /\ Provision!NothingIsLeftBehind
<1>1. Provision!TypeOK
  BY DEF ProvisionInv, ProvisionTypes, OneByOne, Provision!TypeOK
<1>2. Provision!NothingIsLeftBehind
  BY DEF ProvisionInv, ProvisionTypes, CleansUp, Provision!NothingIsLeftBehind, HasLease,
     HasSandbox, LeaseExcuses, SandboxExcuses, Provision!Live
<1>3. QED
  BY <1>1, <1>2 DEF ProvisionInv, OneProject

\* The provider, the secret store and the executions keep their types, for any
\* number of executions that do not overlap.
THEOREM ProvisionTypeCorrect ==
    ASSUME Provision!ProvisionSecretsAssumption, ~ Duplicates PROVE Provision!Spec => []Provision!TypeOK
<1>1. ProvisionInv => Provision!TypeOK
  BY ProvisionInvMeans
<1>2. QED
  BY <1>1, ProvisionInvariance, PTL

\* "The database password is generated and persisted in Vault before the
\* Management API call": whenever and wherever executions die or their calls fail,
\* the next one finds the password of the project that exists.
THEOREM StaysAdoptableHolds ==
    ASSUME Provision!ProvisionSecretsAssumption, ~ Duplicates PROVE Provision!Spec => []Provision!StaysAdoptable
<1>1. ProvisionInv => Provision!StaysAdoptable
  BY ProvisionInvMeans
<1>2. QED
  BY <1>1, ProvisionInvariance, PTL

\* The `finally` of the migration: the lease is gone once its execution is over,
\* unless the worker died, the revoke failed or the lease was made by a call whose
\* answer was lost; and the sandbox, unless the worker died, the terminate failed or
\* the sandbox was made by a call whose answer was lost.
THEOREM NothingIsLeftBehindHolds ==
    ASSUME Provision!ProvisionSecretsAssumption, ~ Duplicates PROVE Provision!Spec => []Provision!NothingIsLeftBehind
<1>1. ProvisionInv => Provision!NothingIsLeftBehind
  BY ProvisionInvMeans
<1>2. QED
  BY <1>1, ProvisionInvariance, PTL

-----------------------------------------------------------------------------
(* Deals and handoffs *)

Change == [kind : {"tx"}, deal : DealIds, stage : Sales!Stages, closed : BOOLEAN]

DealTypes ==
    /\ prospect \subseteq Sales!Prospects /\ faults \in 0 .. FaultBound /\ won \subseteq DealIds
    /\ deal \in [DealIds -> Sales!Deal \union {Sales!None}]
    /\ handoff \in [DealIds -> Sales!Handoff \union {Sales!None}]
    /\ tx \in [Clients -> Change \union {Sales!None}]
    /\ handing \in [Sweepers -> SUBSET Sales!Listed]

\* A stage change has read an open deal; no deal is ever removed.
ChangesAreOfOpenDeals ==
    \A c \in Clients : tx[c] # Sales!None => deal[tx[c].deal] # Sales!None /\ tx[c].closed = FALSE

\* What a sweep lists was won and stays that deal's, whatever its stage becomes.
ListedWereWon ==
    /\ \A d \in DealIds : deal[d] # Sales!None /\ deal[d].stage = "CLOSED_WON" => d \in won
    /\ \A d \in DealIds : handoff[d] # Sales!None => d \in won
    /\ \A w \in Sweepers : \A i \in handing[w] :
          /\ i.deal \in won /\ deal[i.deal] # Sales!None
          /\ i.scope = deal[i.deal].scope /\ i.prospect = deal[i.deal].prospect

DealsInv == DealTypes /\ ChangesAreOfOpenDeals /\ ListedWereWon /\ Sales!OneScope /\ Sales!ClosedHasTime

LEMMA DealsInit == ASSUME Sales!GtmDealsAssumption PROVE Sales!Init => DealsInv
BY DEF Sales!GtmDealsAssumption, Sales!Init, DealsInv, DealTypes, ChangesAreOfOpenDeals,
   ListedWereWon, Sales!OneScope,
       Sales!ClosedHasTime

\* A deal and a handoff are not "none".
LEMMA NotNone ==
    /\ Sales!None \notin Sales!Deal /\ Sales!None \notin Sales!Handoff
    /\ Sales!None \notin Change
BY DEF Sales!None, Sales!Deal, Sales!Handoff, Change

\* What becomes of one deal, the rest staying as it is.
LEMMA OneDealChanges ==
    ASSUME DealsInv, NEW d \in DealIds, NEW e \in Sales!Deal,
           deal' = [deal EXCEPT ![d] = e],
           e.closed = Sales!IsClosed(e.stage), e.prospect \in prospect, e.prospect[1] = e.scope,
           deal[d] # Sales!None => e.scope = deal[d].scope /\ e.prospect = deal[d].prospect,
           deal[d] = Sales!None => handoff[d] = Sales!None /\ \A w \in Sweepers : \A i \in handing[w] : i.deal # d,
           won' = IF e.stage = "CLOSED_WON" THEN won \union {d} ELSE won,
           \A c \in Clients : tx'[c] \in {Sales!None, tx[c]},
           tx' \in [Clients -> Change \union {Sales!None}],
           UNCHANGED <<prospect, handoff, handing, faults>>
    PROVE  DealsInv'
<1>t. DealTypes
  BY DEF DealsInv
<1>n. e # Sales!None /\ Sales!None \notin Sales!Deal
  BY NotNone
<1>d. deal' \in [DealIds -> Sales!Deal \union {Sales!None}] /\ \A f \in DealIds : deal'[f] = IF f = d THEN e ELSE deal[f]
  BY <1>t DEF DealTypes
<1>g. \A f \in DealIds : deal[f] # Sales!None =>
        /\ deal'[f] # Sales!None /\ deal'[f].scope = deal[f].scope
        /\ deal'[f].prospect = deal[f].prospect
  BY <1>d, <1>n
<1>1. DealTypes'
  BY <1>t, <1>d DEF DealTypes
<1>2. ChangesAreOfOpenDeals'
  <2>1. ASSUME NEW c \in Clients, tx'[c] # Sales!None
        PROVE  deal'[tx'[c].deal] # Sales!None /\ tx'[c].closed = FALSE
    <3>1. tx'[c] = tx[c] /\ tx[c] # Sales!None
      BY <2>1
    <3>2. deal[tx[c].deal] # Sales!None /\ tx[c].closed = FALSE
      BY <3>1 DEF DealsInv, ChangesAreOfOpenDeals
    <3>3. tx[c].deal \in DealIds
      BY <1>t, <3>1 DEF DealTypes, Change
    <3>4. QED
      BY <1>g, <3>1, <3>2, <3>3
  <2>2. QED
    BY <2>1 DEF ChangesAreOfOpenDeals
<1>3. ListedWereWon'
  <2>1. ASSUME NEW f \in DealIds, deal'[f] # Sales!None, deal'[f].stage = "CLOSED_WON"
        PROVE  f \in won'
    BY <2>1, <1>d DEF DealsInv, ListedWereWon
  <2>2. ASSUME NEW w \in Sweepers, NEW i \in handing[w]
        PROVE  /\ i.deal \in won' /\ deal'[i.deal] # Sales!None
               /\ i.scope = deal'[i.deal].scope /\ i.prospect = deal'[i.deal].prospect
    <3>1. /\ i.deal \in won /\ deal[i.deal] # Sales!None
          /\ i.scope = deal[i.deal].scope /\ i.prospect = deal[i.deal].prospect
      BY <2>2 DEF DealsInv, ListedWereWon
    <3>2. i.deal \in DealIds
      BY <1>t, <2>2 DEF DealTypes, Sales!Listed
    <3>3. QED
      BY <1>g, <3>1, <3>2
  <2>3. \A f \in DealIds : handoff[f] # Sales!None => f \in won'
    BY DEF DealsInv, ListedWereWon
  <2>4. QED
    BY <2>1, <2>2, <2>3 DEF ListedWereWon
<1>4. Sales!OneScope'
  <2>1. ASSUME NEW f \in DealIds
        PROVE  /\ deal'[f] # Sales!None => deal'[f].prospect \in prospect /\ deal'[f].prospect[1] = deal'[f].scope
               /\ handoff[f] # Sales!None =>
                    /\ deal'[f] # Sales!None /\ handoff[f].scope = deal'[f].scope
                    /\ handoff[f].prospect = deal'[f].prospect
    <3>1. deal'[f] # Sales!None => deal'[f].prospect \in prospect /\ deal'[f].prospect[1] = deal'[f].scope
      BY <1>d DEF DealsInv, Sales!OneScope
    <3>2. ASSUME handoff[f] # Sales!None
          PROVE  deal'[f] # Sales!None /\ handoff[f].scope = deal'[f].scope /\ handoff[f].prospect = deal'[f].prospect
      <4>1. /\ deal[f] # Sales!None /\ handoff[f].scope = deal[f].scope
            /\ handoff[f].prospect = deal[f].prospect
        BY <3>2 DEF DealsInv, Sales!OneScope
      <4>2. QED
        BY <1>g, <4>1
    <3>3. QED
      BY <3>1, <3>2
  <2>2. QED
    BY <2>1 DEF Sales!OneScope
<1>5. Sales!ClosedHasTime'
  <2>1. \A f \in DealIds : deal'[f] # Sales!None => deal'[f].closed = Sales!IsClosed(deal'[f].stage)
    BY <1>d DEF DealsInv, Sales!ClosedHasTime
  <2>2. QED
    BY <2>1 DEF Sales!ClosedHasTime, Sales!IsClosed
<1>6. QED
  BY <1>1, <1>2, <1>3, <1>4, <1>5 DEF DealsInv

LEMMA DealsNextKeeps ==
    ASSUME Sales!GtmDealsAssumption, DealsInv, [Sales!Next]_(Sales!vars)
    PROVE  DealsInv'
<1>t. DealTypes
  BY DEF DealsInv
<1>i. ChangesAreOfOpenDeals /\ ListedWereWon /\ Sales!OneScope /\ Sales!ClosedHasTime
  BY DEF DealsInv
<1>n. /\ Sales!None \notin Sales!Deal /\ Sales!None \notin Sales!Handoff
      /\ Sales!None \notin Change
  BY NotNone
\* Steps that leave the deals alone.
<1>a. ASSUME UNCHANGED <<deal, won, handoff>>, prospect \subseteq prospect', DealTypes',
             \A c \in Clients : tx'[c] \in {Sales!None, tx[c]}
                \/ (deal[tx'[c].deal] # Sales!None /\ tx'[c].closed = FALSE),
             \A w \in Sweepers : \A i \in handing'[w] : i \in handing[w] \/
                /\ i.deal \in won /\ deal[i.deal] # Sales!None
                /\ i.scope = deal[i.deal].scope /\ i.prospect = deal[i.deal].prospect
      PROVE  DealsInv'
  <2>1. ChangesAreOfOpenDeals'
    BY <1>a, <1>i DEF ChangesAreOfOpenDeals
  <2>2. ListedWereWon'
    BY <1>a, <1>i DEF ListedWereWon
  <2>3. Sales!OneScope'
    BY <1>a, <1>i DEF Sales!OneScope
  <2>4. Sales!ClosedHasTime'
    BY <1>a, <1>i DEF Sales!ClosedHasTime, Sales!IsClosed
  <2>5. QED
    BY <1>a, <2>1, <2>2, <2>3, <2>4 DEF DealsInv
<1>1. ASSUME NEW sc \in Scopes, NEW a \in Boxes \X Sales!Spellings, Sales!CreateProspect(sc, a)
      PROVE  DealsInv'
  <2>1. prospect' \subseteq Sales!Prospects /\ prospect \subseteq prospect'
    BY <1>1, <1>t DEF Sales!CreateProspect, DealTypes, Sales!Normalize, Sales!Prospects
  <2>2. DealTypes'
    BY <1>1, <1>t, <2>1 DEF Sales!CreateProspect, DealTypes
  <2>3. QED
    BY <1>1, <1>a, <2>1, <2>2 DEF Sales!CreateProspect
<1>2. ASSUME NEW d \in DealIds, NEW sc \in Scopes, NEW p \in Sales!Prospects,
             NEW s \in {"omitted"} \union Sales!Stages, Sales!CreateDeal(d, sc, p, s)
      PROVE  DealsInv'
  <2> DEFINE e == [kind |-> "deal", scope |-> sc, prospect |-> p,
                   stage |-> Sales!StageOf(s), closed |-> Sales!IsClosed(Sales!StageOf(s))]
  <2>1. Sales!StageOf(s) \in Sales!Stages /\ Sales!IsClosed(Sales!StageOf(s)) \in BOOLEAN
    BY DEF Sales!StageOf, Sales!IsClosed, Sales!Stages, Sales!OpenStages
  <2>2. e \in Sales!Deal
    BY <2>1 DEF Sales!Deal
  <2>3. /\ e.closed = Sales!IsClosed(e.stage) /\ e.prospect \in prospect
        /\ e.prospect[1] = e.scope
        /\ deal' = [deal EXCEPT ![d] = e] /\ deal[d] = Sales!None
        /\ won' = IF e.stage = "CLOSED_WON" THEN won \union {d} ELSE won
        /\ UNCHANGED <<prospect, tx, handoff, handing, faults>>
    BY <1>2 DEF Sales!CreateDeal, Sales!ProspectsOf
  <2> HIDE DEF e
  <2>4. handoff[d] = Sales!None /\ \A w \in Sweepers : \A i \in handing[w] : i.deal # d
    BY <1>i, <2>3 DEF Sales!OneScope, ListedWereWon
  <2>5. tx' \in [Clients -> Change \union {Sales!None}]
    BY <1>t, <2>3 DEF DealTypes
  <2>6. QED
    BY <2>2, <2>3, <2>4, <2>5, OneDealChanges
<1>3. ASSUME NEW c \in Clients, NEW d \in DealIds, NEW sc \in Scopes, NEW s \in Sales!Stages, Sales!ReadDeal(c, d, sc, s)
      PROVE  DealsInv'
  <2> DEFINE r == [kind |-> "tx", deal |-> d, stage |-> s, closed |-> deal[d].closed]
  <2>1. deal[d] # Sales!None /\ deal[d].closed = FALSE
    <3>1. deal[d] # Sales!None /\ ~ Sales!IsClosed(deal[d].stage)
      BY <1>3 DEF Sales!ReadDeal
    <3>2. deal[d].closed = Sales!IsClosed(deal[d].stage)
      BY <1>i, <3>1 DEF Sales!ClosedHasTime
    <3>3. (deal[d].stage \in Sales!ClosedStages) = FALSE
      BY <3>1 DEF Sales!IsClosed
    <3>4. QED
      BY <3>1, <3>2, <3>3 DEF Sales!IsClosed
  <2>2. r \in Change /\ r.deal = d /\ r.closed = FALSE
    BY <2>1 DEF Change
  <2>3. /\ tx' = [tx EXCEPT ![c] = r]
        /\ UNCHANGED <<prospect, deal, handoff, handing, faults, won>>
    BY <1>3 DEF Sales!ReadDeal
  <2> HIDE DEF r
  <2>4. DealTypes'
    BY <1>t, <2>2, <2>3 DEF DealTypes
  <2>5. \A b \in Clients : tx'[b] = tx[b] \/ tx'[b] = r
    BY <1>t, <2>3 DEF DealTypes
  <2>6. \A b \in Clients : tx'[b] \in {Sales!None, tx[b]} \/ (deal[tx'[b].deal] # Sales!None /\ tx'[b].closed = FALSE)
    BY <2>1, <2>2, <2>5
  <2>7. QED
    BY <1>a, <2>3, <2>4, <2>6
<1>4. ASSUME NEW c \in Clients, Sales!UpdateDeal(c)
      PROVE  DealsInv'
  <2> DEFINE d == tx[c].deal
  <2> DEFINE e == [deal[d] EXCEPT !.stage = tx[c].stage, !.closed = Sales!ClosedAt(c)]
  <2>1. tx[c] \in Change /\ tx[c] # Sales!None
    BY <1>4, <1>t DEF Sales!UpdateDeal, DealTypes
  <2>2. d \in DealIds /\ tx[c].stage \in Sales!Stages
    BY <2>1 DEF Change
  <2>3. deal[d] # Sales!None /\ tx[c].closed = FALSE
    BY <1>i, <2>1 DEF ChangesAreOfOpenDeals
  <2>4. deal[d] \in Sales!Deal
    BY <1>t, <2>2, <2>3 DEF DealTypes
  <2>5. Sales!ClosedAt(c) = Sales!IsClosed(tx[c].stage) /\ Sales!ClosedAt(c) \in BOOLEAN
    BY <2>3 DEF Sales!ClosedAt, Sales!IsClosed
  <2>6. e \in Sales!Deal /\ e.stage = tx[c].stage /\ e.closed = Sales!IsClosed(e.stage)
    BY <2>2, <2>4, <2>5 DEF Sales!Deal
  <2>7. e.scope = deal[d].scope /\ e.prospect = deal[d].prospect
    BY <2>4 DEF Sales!Deal
  <2>8. e.prospect \in prospect /\ e.prospect[1] = e.scope
    BY <1>i, <2>2, <2>3, <2>7 DEF Sales!OneScope
  <2>9. deal' = [deal EXCEPT ![d] = e]
    BY <1>4 DEF Sales!UpdateDeal
  <2>10. won' = IF e.stage = "CLOSED_WON" THEN won \union {d} ELSE won
    BY <1>4, <2>6 DEF Sales!UpdateDeal
  <2>11. \A b \in Clients : tx'[b] \in {Sales!None, tx[b]}
    BY <1>4, <1>t DEF Sales!UpdateDeal, DealTypes
  <2>12. /\ tx' \in [Clients -> Change \union {Sales!None}]
         /\ UNCHANGED <<prospect, handoff, handing, faults>>
    BY <1>4, <1>t DEF Sales!UpdateDeal, DealTypes
  <2> HIDE DEF e, d
  <2>13. QED
    BY <2>2, <2>3, <2>6, <2>7, <2>8, <2>9, <2>10, <2>11, <2>12, OneDealChanges
<1>5. ASSUME NEW w \in Sweepers, Sales!ListDealsReadyForHandoff(w)
      PROVE  DealsInv'
  <2> DEFINE all == {[deal |-> d, scope |-> deal[d].scope, prospect |-> deal[d].prospect] :
                       d \in {e \in DealIds : Sales!Ready(e)}}
  <2>1. ASSUME NEW i \in all
        PROVE  /\ i \in Sales!Listed /\ i.deal \in won /\ deal[i.deal] # Sales!None
               /\ i.scope = deal[i.deal].scope /\ i.prospect = deal[i.deal].prospect
    <3>1. PICK d \in DealIds : /\ Sales!Ready(d)
                             /\ i = [deal |-> d, scope |-> deal[d].scope, prospect |-> deal[d].prospect]
      OBVIOUS
    <3>2. deal[d] \in Sales!Deal /\ deal[d] # Sales!None /\ d \in won
      BY <1>t, <1>i, <3>1 DEF Sales!Ready, DealTypes, ListedWereWon
    <3>3. deal[d].scope \in Scopes /\ deal[d].prospect \in Sales!Prospects
      BY <3>2 DEF Sales!Deal
    <3>4. QED
      BY <3>1, <3>2, <3>3 DEF Sales!Listed
  <2>2. /\ handing' = [handing EXCEPT ![w] = all]
        /\ UNCHANGED <<prospect, deal, tx, handoff, faults, won>>
    BY <1>5 DEF Sales!ListDealsReadyForHandoff
  <2> HIDE DEF all
  <2>3. DealTypes'
    BY <1>t, <2>1, <2>2 DEF DealTypes
  <2>4. \A v \in Sweepers : handing'[v] = handing[v] \/ handing'[v] = all
    BY <1>t, <2>2 DEF DealTypes
  <2>5. QED
    BY <1>a, <2>1, <2>2, <2>3, <2>4
<1>6. ASSUME NEW w \in Sweepers, NEW i \in handing[w], Sales!RecordHandoff(w, i)
      PROVE  DealsInv'
  <2> DEFINE h == [kind |-> "handoff", scope |-> i.scope, prospect |-> i.prospect]
  <2>1. /\ i \in Sales!Listed /\ i.deal \in won /\ deal[i.deal] # Sales!None
        /\ i.scope = deal[i.deal].scope /\ i.prospect = deal[i.deal].prospect
    BY <1>t, <1>i DEF DealTypes, ListedWereWon
  <2>2. /\ i.deal \in DealIds /\ h \in Sales!Handoff /\ h.scope = i.scope
        /\ h.prospect = i.prospect
    BY <2>1 DEF Sales!Listed, Sales!Handoff
  <2>3. handoff' \in {handoff, [handoff EXCEPT ![i.deal] = h]}
    BY <1>6 DEF Sales!RecordHandoff, Sales!Insert
  <2> HIDE DEF h
  <2>4. \A d \in DealIds : handoff'[d] = handoff[d] \/ (d = i.deal /\ handoff'[d] = h)
    BY <1>t, <2>3 DEF DealTypes
  <2>5. UNCHANGED <<prospect, deal, tx, faults, won>>
    BY <1>6 DEF Sales!RecordHandoff
  <2>6. handing' \in [Sweepers -> SUBSET Sales!Listed] /\ \A v \in Sweepers : handing'[v] \subseteq handing[v]
    BY <1>6, <1>t DEF Sales!RecordHandoff, DealTypes
  <2>7. handoff' \in [DealIds -> Sales!Handoff \union {Sales!None}]
    BY <1>t, <2>2, <2>3 DEF DealTypes
  <2>8. DealTypes'
    BY <1>t, <2>5, <2>6, <2>7 DEF DealTypes
  <2>9. ChangesAreOfOpenDeals'
    BY <1>i, <2>5 DEF ChangesAreOfOpenDeals
  <2>10. ListedWereWon'
    BY <1>i, <2>1, <2>4, <2>5, <2>6 DEF ListedWereWon
  <2>11. Sales!OneScope'
    BY <1>i, <2>1, <2>2, <2>4, <2>5 DEF Sales!OneScope
  <2>12. Sales!ClosedHasTime'
    BY <1>i, <2>5 DEF Sales!ClosedHasTime, Sales!IsClosed
  <2>13. QED
    BY <2>8, <2>9, <2>10, <2>11, <2>12 DEF DealsInv
<1>7. ASSUME NEW w \in Sweepers, Sales!SweepFails(w)
      PROVE  DealsInv'
  <2>1. faults' \in 0 .. FaultBound
    BY <1>7, <1>t DEF Sales!SweepFails, DealTypes, Sales!GtmDealsAssumption
  <2>2. DealTypes'
    BY <1>7, <1>t, <2>1 DEF Sales!SweepFails, DealTypes
  <2>3. \A v \in Sweepers : handing'[v] \subseteq handing[v]
    BY <1>7, <1>t DEF Sales!SweepFails, DealTypes
  <2>4. QED
    BY <1>7, <1>a, <2>2, <2>3 DEF Sales!SweepFails
<1>8. CASE UNCHANGED Sales!vars
  <2>1. DealTypes'
    BY <1>8, <1>t DEF Sales!vars, DealTypes
  <2>2. QED
    BY <1>8, <1>a, <2>1 DEF Sales!vars
<1>9. QED
  BY <1>1, <1>2, <1>3, <1>4, <1>5, <1>6, <1>7, <1>8
     DEF Sales!Next, Sales!ProspectRequest, Sales!DealRequest, Sales!StageRequest, Sales!Record

LEMMA DealsInvariance == ASSUME Sales!GtmDealsAssumption PROVE Sales!Spec => []DealsInv
BY DealsInit, DealsNextKeeps, PTL DEF Sales!Spec

LEMMA DealsInvMeans == DealsInv => Sales!TypeOK /\ Sales!OneScope /\ Sales!ClosedHasTime
BY DEF DealsInv, DealTypes, Sales!TypeOK

\* recordHandoff inserts, on conflict do nothing: no step replaces a handoff, and a
\* new one is of a deal that the sweep found won.
LEMMA StepKeepsHandoffs ==
    ASSUME DealsInv, [Sales!Next]_(Sales!vars)
    PROVE  Sales!HandoffIsDurable
<1>t. DealTypes /\ ListedWereWon
  BY DEF DealsInv
<1>1. CASE UNCHANGED handoff
  BY <1>1, <1>t DEF Sales!HandoffIsDurable, ListedWereWon
<1>2. ASSUME NEW w \in Sweepers, NEW i \in handing[w], Sales!RecordHandoff(w, i)
      PROVE  Sales!HandoffIsDurable
  <2>1. i.deal \in won /\ i.deal \in DealIds
    BY <1>t DEF DealTypes, ListedWereWon, Sales!Listed
  <2>2. \A d \in DealIds : handoff'[d] = handoff[d] \/ (d = i.deal /\ handoff[d] = Sales!None)
    BY <1>2, <1>t DEF Sales!RecordHandoff, Sales!Insert, DealTypes
  <2>3. QED
    BY <1>t, <2>1, <2>2 DEF Sales!HandoffIsDurable, ListedWereWon
<1>3. QED
  BY <1>1, <1>2 DEF Sales!Next, Sales!vars, Sales!ProspectRequest, Sales!DealRequest,
     Sales!StageRequest, Sales!Record, Sales!CreateProspect,
       Sales!CreateDeal, Sales!ReadDeal, Sales!UpdateDeal, Sales!ListDealsReadyForHandoff, Sales!SweepFails

\* GtmDealsRepository and the handoff sweep keep every row's type, for any number of
\* deals, clients and sweepers.
THEOREM DealTypeCorrect == ASSUME Sales!GtmDealsAssumption PROVE Sales!Spec => []Sales!TypeOK
BY DealsInvariance, DealsInvMeans, PTL

\* "The two scopes never share data" (createDeal, recordHandoff): a deal is with a
\* prospect of its own scope, and its handoff names that scope and that prospect,
\* whatever becomes of the deal between the sweep's listing and its insert.
THEOREM OneScopeHolds == ASSUME Sales!GtmDealsAssumption PROVE Sales!Spec => []Sales!OneScope
BY DealsInvariance, DealsInvMeans, PTL

\* updateDealStage, read and write apart: a deal shows a closing time exactly when
\* its stage is a closed one, however many stage changes interleave.
THEOREM ClosedHasTimeHolds ==
    ASSUME Sales!GtmDealsAssumption
    PROVE  Sales!Spec => []Sales!ClosedHasTime
BY DealsInvariance, DealsInvMeans, PTL

\* recordHandoff: no step changes or withdraws a recorded handoff, and none records
\* one for a deal that was never won.
THEOREM HandoffIsDurableHolds ==
    ASSUME Sales!GtmDealsAssumption
    PROVE  Sales!Spec => [][Sales!HandoffIsDurable]_(Sales!vars)
BY DealsInvariance, StepKeepsHandoffs, PTL DEF Sales!Spec

-----------------------------------------------------------------------------
(* Outreach *)

StepsOf == Outreach!Sequences \X Scopes \X Steps

OutreachTypes ==
    /\ scope \subseteq Scopes /\ sequence \subseteq Outreach!Sequences
    /\ outcome \in [StepsOf -> 0 .. TimeBound]
    /\ suppressed \in [Scopes -> Reasons \union {"none"}]
    /\ request \in [Clients -> Outreach!Request \union {Outreach!None}]
    /\ scores \in [Scopes -> SUBSET Outreach!Times]

\* A request is for a scope its user could reach, and whoever has lost the race
\* or has an answer knows of an entry that is stored.
RequestsAreServed ==
    \A c \in Clients : request[c] # Outreach!None =>
        /\ request[c].scope \in scope
        /\ request[c].pc = "reread" => suppressed[request[c].scope] # "none"
        /\ request[c].pc = "answered" =>
              /\ suppressed[request[c].scope] # "none"
              /\ request[c].answer = suppressed[request[c].scope]

OutreachInv == OutreachTypes /\ RequestsAreServed /\ Outreach!ScopesDoNotMix

LEMMA OutreachInit == ASSUME Outreach!GtmOutreachAssumption PROVE Outreach!Init => OutreachInv
<1> SUFFICES ASSUME Outreach!Init PROVE OutreachInv
  OBVIOUS
<1>1. outcome \in [StepsOf -> 0 .. TimeBound]
        /\ \A q \in Outreach!Sequences, p \in Scopes, n \in Steps : outcome[q, p, n] = 0
  <2>1. outcome = [x \in StepsOf |-> 0] /\ 0 \in 0 .. TimeBound
    BY DEF Outreach!Init, StepsOf, Outreach!GtmOutreachAssumption
  <2>2. \A q \in Outreach!Sequences, p \in Scopes, n \in Steps : <<q, p, n>> \in StepsOf
    BY DEF StepsOf
  <2>3. QED
    BY <2>1, <2>2
<1>2. OutreachTypes
  BY <1>1 DEF Outreach!Init, OutreachTypes, Outreach!Times
<1>3. Outreach!ScopesDoNotMix
  BY <1>1 DEF Outreach!Init, Outreach!ScopesDoNotMix
<1>4. RequestsAreServed
  BY DEF Outreach!Init, RequestsAreServed
<1>5. QED
  BY <1>2, <1>3, <1>4 DEF OutreachInv

\* What becomes of one request.
LEMMA OneRequestMoves ==
    ASSUME OutreachInv, NEW c \in Clients, NEW r \in Outreach!Request,
           request' = [request EXCEPT ![c] = r], r.scope \in scope,
           suppressed' \in [Scopes -> Reasons \union {"none"}],
           \A sc \in Scopes : suppressed[sc] # "none" => suppressed'[sc] = suppressed[sc],
           \A sc \in Scopes : suppressed'[sc] # "none" => suppressed[sc] # "none" \/ sc \in scope,
           r.pc = "reread" => suppressed'[r.scope] # "none",
           r.pc = "answered" => suppressed'[r.scope] # "none" /\ r.answer = suppressed'[r.scope],
           UNCHANGED <<scope, sequence, outcome, scores>>
    PROVE  OutreachInv' /\ Outreach!SuppressionIsStable
<1>t. OutreachTypes /\ RequestsAreServed /\ Outreach!ScopesDoNotMix
  BY DEF OutreachInv
<1>1. OutreachTypes'
  BY <1>t DEF OutreachTypes
<1>2. \A b \in Clients : request'[b] = r \/ request'[b] = request[b]
  BY <1>t DEF OutreachTypes
<1>3. \A b \in Clients : request[b] # Outreach!None => request[b].scope \in Scopes
  BY <1>t DEF OutreachTypes, Outreach!Request
<1>4. RequestsAreServed'
  <2>1. ASSUME NEW b \in Clients, request'[b] # Outreach!None
        PROVE  /\ request'[b].scope \in scope
               /\ request'[b].pc = "reread" => suppressed'[request'[b].scope] # "none"
               /\ request'[b].pc = "answered" =>
                     /\ suppressed'[request'[b].scope] # "none"
                     /\ request'[b].answer = suppressed'[request'[b].scope]
    <3>1. CASE request'[b] = r
      BY <3>1
    <3>2. CASE request'[b] = request[b]
      BY <3>2, <2>1, <1>3, <1>t DEF RequestsAreServed
    <3>3. QED
      BY <1>2, <3>1, <3>2
  <2>2. QED
    BY <2>1 DEF RequestsAreServed
<1>5. Outreach!ScopesDoNotMix'
  BY <1>t DEF Outreach!ScopesDoNotMix
<1>6. Outreach!SuppressionIsStable
  BY <1>4 DEF Outreach!SuppressionIsStable, RequestsAreServed
<1>7. QED
  BY <1>1, <1>4, <1>5, <1>6 DEF OutreachInv

LEMMA OutreachNextKeeps ==
    ASSUME Outreach!GtmOutreachAssumption, OutreachInv, [Outreach!Next]_(Outreach!vars)
    PROVE  OutreachInv' /\ Outreach!SuppressionIsStable
<1>t. OutreachTypes /\ RequestsAreServed /\ Outreach!ScopesDoNotMix
  BY DEF OutreachInv
<1>q. \A c \in Clients : request[c] # Outreach!None =>
         /\ request[c] \in Outreach!Request /\ request[c].scope \in Scopes
         /\ request[c].reason \in Reasons
         /\ request[c].scope \in scope
  BY <1>t DEF OutreachTypes, Outreach!Request, RequestsAreServed
\* Steps without a request.
<1>a. ASSUME UNCHANGED <<suppressed, request>>, scope \subseteq scope', OutreachTypes', Outreach!ScopesDoNotMix'
      PROVE  OutreachInv' /\ Outreach!SuppressionIsStable
  <2>1. RequestsAreServed'
    BY <1>a, <1>t DEF RequestsAreServed
  <2>2. Outreach!SuppressionIsStable
    BY <1>a, <1>t DEF Outreach!SuppressionIsStable, RequestsAreServed
  <2>3. QED
    BY <1>a, <2>1, <2>2 DEF OutreachInv
<1>1. ASSUME NEW u \in Members, NEW sc \in Scopes, Outreach!CreateGtmScope(u, sc)
      PROVE  OutreachInv' /\ Outreach!SuppressionIsStable
  <2>1. OutreachTypes'
    BY <1>1, <1>t DEF Outreach!CreateGtmScope, OutreachTypes
  <2>2. Outreach!ScopesDoNotMix'
    BY <1>1, <1>t DEF Outreach!CreateGtmScope, Outreach!ScopesDoNotMix
  <2>3. QED
    BY <1>1, <1>a, <2>1, <2>2 DEF Outreach!CreateGtmScope
<1>2. ASSUME NEW u \in Members, NEW sc \in Scopes, NEW name \in Names, Outreach!CreateOutreachSequence(u, sc, name)
      PROVE  OutreachInv' /\ Outreach!SuppressionIsStable
  <2>1. <<sc, name>> \in Outreach!Sequences /\ <<sc, name>>[1] = sc
    BY DEF Outreach!Sequences
  <2>2. OutreachTypes'
    BY <1>2, <1>t, <2>1 DEF Outreach!CreateOutreachSequence, OutreachTypes
  <2>3. Outreach!ScopesDoNotMix'
    BY <1>2, <1>t, <2>1 DEF Outreach!CreateOutreachSequence, Outreach!ScopesDoNotMix,
       Outreach!Access
  <2>4. QED
    BY <1>2, <1>a, <2>2, <2>3 DEF Outreach!CreateOutreachSequence
<1>3. ASSUME NEW u \in Members, NEW sc \in Scopes, NEW at \in Outreach!Times, Outreach!CreateLeadScore(u, sc, at)
      PROVE  OutreachInv' /\ Outreach!SuppressionIsStable
  <2>1. OutreachTypes'
    BY <1>3, <1>t DEF Outreach!CreateLeadScore, OutreachTypes
  <2>2. Outreach!ScopesDoNotMix'
    BY <1>3, <1>t DEF Outreach!CreateLeadScore, Outreach!ScopesDoNotMix, OutreachTypes,
       Outreach!Access
  <2>3. QED
    BY <1>3, <1>a, <2>1, <2>2 DEF Outreach!CreateLeadScore
<1>4. ASSUME NEW u \in Members, NEW q \in Outreach!Sequences, NEW p \in Scopes, NEW n \in Steps, NEW at \in Outreach!Times,
             Outreach!RecordOutreachEvent(u, q, p, n, at)
      PROVE  OutreachInv' /\ Outreach!SuppressionIsStable
  <2>1. at \in 0 .. TimeBound /\ <<q, p, n>> \in StepsOf
    BY DEF Outreach!Times, StepsOf, Outreach!GtmOutreachAssumption
  <2>2. OutreachTypes'
    BY <1>4, <1>t, <2>1 DEF Outreach!RecordOutreachEvent, OutreachTypes
  <2>3. q \in sequence /\ p = q[1] /\ UNCHANGED <<scope, sequence, suppressed, request, scores>>
    BY <1>4 DEF Outreach!RecordOutreachEvent, Outreach!Reachable
  <2>4. ASSUME NEW r \in Outreach!Sequences, NEW o \in Scopes, NEW m \in Steps, outcome'[r, o, m] # 0
        PROVE  r \in sequence /\ o = r[1]
    <3>1. CASE <<r, o, m>> = <<q, p, n>>
      BY <2>3, <3>1
    <3>2. CASE <<r, o, m>> # <<q, p, n>>
      <4>1. <<r, o, m>> \in StepsOf
        BY DEF StepsOf
      <4>2. outcome'[r, o, m] = outcome[r, o, m]
        BY <1>4, <1>t, <3>2, <4>1, ZenonT(40) DEF Outreach!RecordOutreachEvent, OutreachTypes
      <4>3. QED
        BY <1>t, <2>4, <4>2 DEF Outreach!ScopesDoNotMix
    <3>3. QED
      BY <3>1, <3>2
  <2>5. Outreach!ScopesDoNotMix'
    BY <1>t, <2>3, <2>4 DEF Outreach!ScopesDoNotMix
  <2>6. QED
    BY <1>a, <2>2, <2>3, <2>5
<1>5. ASSUME NEW u \in Members, NEW sc \in Scopes, NEW c \in Clients, NEW r \in Reasons, Outreach!AskToSuppress(c, u, sc, r)
      PROVE  OutreachInv' /\ Outreach!SuppressionIsStable
  <2> DEFINE new == [kind |-> "request", pc |-> "find", scope |-> sc, reason |-> r, answer |-> "pending"]
  <2>1. new \in Outreach!Request /\ new.scope = sc /\ new.pc = "find"
    BY DEF Outreach!Request
  <2>2. request' = [request EXCEPT ![c] = new] /\ sc \in scope
        /\ UNCHANGED <<scope, sequence, outcome, suppressed, scores>>
    BY <1>5 DEF Outreach!AskToSuppress, Outreach!Access
  <2> HIDE DEF new
  <2>3. suppressed' \in [Scopes -> Reasons \union {"none"}]
    BY <1>t, <2>2 DEF OutreachTypes
  <2>4. QED
    BY <2>1, <2>2, <2>3, OneRequestMoves
<1>6. ASSUME NEW c \in Clients, Outreach!Suppress(c)
      PROVE  OutreachInv' /\ Outreach!SuppressionIsStable
  <2> DEFINE sc == request[c].scope
  <2>1. /\ request[c] \in Outreach!Request /\ sc \in Scopes /\ request[c].reason \in Reasons
        /\ sc \in scope
    <3>1. request[c] # Outreach!None
      BY <1>6 DEF Outreach!Suppress, Outreach!FindEntry, Outreach!CreateEntry,
         Outreach!LosesRace, Outreach!Reread
    <3>2. QED
      BY <1>q, <3>1
  <2>2. suppressed[sc] \in Reasons \union {"none"}
    BY <1>t, <2>1 DEF OutreachTypes
  <2>s. suppressed \in [Scopes -> Reasons \union {"none"}]
    BY <1>t DEF OutreachTypes
  <2>p. ASSUME NEW pc \in {"find", "create", "reread"}
        PROVE  LET r == [request[c] EXCEPT !.pc = pc] IN r \in Outreach!Request /\ r.scope = sc /\ r.pc = pc
    BY <2>1 DEF Outreach!Request
  <2>a. ASSUME NEW answer \in Reasons
        PROVE  LET r == [request[c] EXCEPT !.pc = "answered", !.answer = answer] IN
               r \in Outreach!Request /\ r.scope = sc /\ r.pc = "answered" /\ r.answer = answer
    BY <2>1 DEF Outreach!Request
  \* The two ways of going on: with another step, or with an answer that is stored.
  <2>3. ASSUME NEW pc \in {"find", "create", "reread"}, request' = [request EXCEPT ![c].pc = pc],
               pc = "reread" => suppressed[sc] # "none",
               UNCHANGED <<scope, sequence, outcome, suppressed, scores>>
        PROVE  OutreachInv' /\ Outreach!SuppressionIsStable
    <3> DEFINE r == [request[c] EXCEPT !.pc = pc]
    <3>1. r \in Outreach!Request /\ r.scope = sc /\ r.pc = pc /\ pc # "answered"
      BY <2>p
    <3>2. request' = [request EXCEPT ![c] = r]
      BY <2>3
    <3> HIDE DEF r
    <3>3. QED
      BY <2>1, <2>3, <2>s, <3>1, <3>2, OneRequestMoves, ZenonT(40)
  <2>4. ASSUME NEW answer \in Reasons, Outreach!Answer(c, answer), suppressed' \in [Scopes -> Reasons \union {"none"}],
               suppressed'[sc] = answer,
               \A o \in Scopes : suppressed[o] # "none" => suppressed'[o] = suppressed[o],
               \A o \in Scopes : o # sc => suppressed'[o] = suppressed[o],
               UNCHANGED <<scope, sequence, outcome, scores>>
        PROVE  OutreachInv' /\ Outreach!SuppressionIsStable
    <3> DEFINE r == [request[c] EXCEPT !.pc = "answered", !.answer = answer]
    <3>1. r \in Outreach!Request /\ r.scope = sc /\ r.pc = "answered" /\ r.answer = answer
      BY <2>a
    <3>2. request' = [request EXCEPT ![c] = r]
      BY <2>4 DEF Outreach!Answer
    <3>3. answer # "none"
      BY DEF Outreach!GtmOutreachAssumption
    <3>4. \A o \in Scopes : suppressed'[o] # "none" => suppressed[o] # "none" \/ o \in scope
      BY <2>1, <2>4
    <3> HIDE DEF r
    <3>5. QED
      BY <2>1, <2>4, <3>1, <3>2, <3>3, <3>4, OneRequestMoves
  <2>5. CASE Outreach!FindEntry(c)
    <3>1. CASE suppressed[sc] # "none"
      <4>1. suppressed[sc] \in Reasons /\ Outreach!Answer(c, suppressed[sc])
            /\ UNCHANGED <<scope, sequence, outcome, suppressed, scores>>
        BY <2>2, <2>5, <3>1 DEF Outreach!FindEntry
      <4>2. QED
        BY <2>4, <2>s, <4>1
    <3>2. CASE suppressed[sc] = "none"
      BY <2>3, <2>5, <3>2 DEF Outreach!FindEntry
    <3>3. QED
      BY <3>1, <3>2
  <2>6. CASE Outreach!CreateEntry(c)
    <3>1. suppressed' = [suppressed EXCEPT ![sc] = request[c].reason] /\ suppressed[sc] = "none"
          /\ Outreach!Answer(c, request[c].reason)
          /\ UNCHANGED <<scope, sequence, outcome, scores>>
      BY <2>6 DEF Outreach!CreateEntry, Outreach!Taken
    <3>2. QED
      BY <2>1, <2>4, <2>s, <3>1
  <2>7. CASE Outreach!LosesRace(c)
    BY <2>3, <2>7 DEF Outreach!LosesRace, Outreach!Taken
  <2>8. CASE Outreach!Reread(c)
    <3>1. suppressed[sc] # "none"
      BY <1>t, <2>8 DEF Outreach!Reread, RequestsAreServed
    <3>2. suppressed[sc] \in Reasons /\ Outreach!Answer(c, suppressed[sc])
          /\ UNCHANGED <<scope, sequence, outcome, suppressed, scores>>
      BY <2>2, <2>8, <3>1 DEF Outreach!Reread
    <3>3. QED
      BY <2>4, <2>s, <3>2
  <2>9. QED
    BY <1>6, <2>5, <2>6, <2>7, <2>8 DEF Outreach!Suppress
<1>7. CASE UNCHANGED Outreach!vars
  <2>1. OutreachTypes' /\ Outreach!ScopesDoNotMix'
    BY <1>7, <1>t DEF Outreach!vars, OutreachTypes, Outreach!ScopesDoNotMix
  <2>2. QED
    BY <1>7, <1>a, <2>1 DEF Outreach!vars
<1>8. QED
  BY <1>1, <1>2, <1>3, <1>4, <1>5, <1>6, <1>7
     DEF Outreach!Next, Outreach!ScopeRequest, Outreach!SequenceRequest, Outreach!ScoreRequest, Outreach!SuppressionRequest, Outreach!EventRequest

LEMMA OutreachInvariance ==
    ASSUME Outreach!GtmOutreachAssumption
    PROVE  Outreach!Spec => []OutreachInv
<1>1. Outreach!Init => OutreachInv
  BY OutreachInit
<1>2. OutreachInv /\ [Outreach!Next]_(Outreach!vars) => OutreachInv'
  BY OutreachNextKeeps
<1>3. QED
  BY <1>1, <1>2, PTL DEF Outreach!Spec

LEMMA OutreachInvMeans == OutreachInv => Outreach!TypeOK /\ Outreach!ScopesDoNotMix
<1> SUFFICES ASSUME OutreachInv PROVE Outreach!TypeOK
  BY DEF OutreachInv
<1>1. \A q \in Outreach!Sequences, p \in Scopes, n \in Steps : <<q, p, n>> \in StepsOf
  BY DEF StepsOf
<1>2. QED
  BY <1>1 DEF OutreachInv, OutreachTypes, Outreach!TypeOK

\* Sequences, outcomes, suppressions and scores keep their types for any number of
\* scopes, sequences and clients.
THEOREM OutreachTypeCorrect ==
    ASSUME Outreach!GtmOutreachAssumption
    PROVE  Outreach!Spec => []Outreach!TypeOK
BY OutreachInvariance, OutreachInvMeans, PTL

\* "The two scopes never share data, credentials, leads, campaigns, or suppression
\* lists": an outcome is of a prospect of its sequence's scope, and whatever is
\* stored belongs to a scope that exists (recordOutreachEvent, getGtmScopeAccess).
THEOREM ScopesDoNotMixHolds ==
    ASSUME Outreach!GtmOutreachAssumption
    PROVE  Outreach!Spec => []Outreach!ScopesDoNotMix
BY OutreachInvariance, OutreachInvMeans, PTL

\* createSuppressionEntry: no step changes a stored entry, and each of the clients
\* that race for it is answered with the entry that is stored.
THEOREM SuppressionIsStableHolds ==
    ASSUME Outreach!GtmOutreachAssumption
    PROVE  Outreach!Spec => [][Outreach!SuppressionIsStable]_(Outreach!vars)
<1>1. OutreachInv /\ [Outreach!Next]_(Outreach!vars) => Outreach!SuppressionIsStable
  BY OutreachNextKeeps
<1>2. QED
  BY <1>1, OutreachInvariance, PTL DEF Outreach!Spec

-----------------------------------------------------------------------------
(* Release assessments *)

Row == [kind : {"row"}, status : {"READY", "BLOCKED"}, issues : SUBSET Assess!Codes, items : SUBSET Assess!Item]
Event == [kind : {"event"}, status : {"READY", "BLOCKED"}]
Of(k) == [kind |-> "of", key |-> k]
Mark == [kind : {"of"}, key : Assess!Keys]
Work == [pc : Assess!Pcs, version : 0 .. VersionBound, attempt : Attempts \union {0}, items : SUBSET Assess!Item]

ReleaseTypes ==
    /\ runStatus \in {"active", "paused", "completed"} /\ runVersion \in 0 .. VersionBound
    /\ files \in Nat /\ criteria \subseteq Assess!Criteria /\ failures \in 0 .. FaultBound
    /\ manual \in 0 .. ManualBound /\ delivered \in 0 .. DeliveryBound
    /\ session \in [Attempts -> [Assess!Steps -> Assess!Command \union {Assess!None}]]
    /\ work \in [Replicas -> Work]
    /\ assessment \in [Assess!Keys -> Row \union {Assess!None}]
    /\ announced \in [Assess!Keys -> Event \union {Assess!None}]
    /\ evidence \in [Assess!EvidenceIds -> Mark \union {Assess!None}]
    /\ lost \subseteq Assess!Keys

\* What a worker stores comes from the session of its own attempt, and a worker
\* that goes on to complete the run has stored something or was kept from it.
WorkersAssess ==
    \A w \in Replicas :
        /\ ~ Assess!At(w, "idle") => work[w].attempt \in Attempts
        /\ Assess!At(w, "persist") => \A i \in work[w].items : i.id = <<work[w].attempt, i.step>>
        /\ Assess!At(w, "complete") => assessment[Assess!Key(w)] # Assess!None \/ Assess!Key(w) \in lost

ReleaseInv ==
    /\ ReleaseTypes /\ WorkersAssess
    /\ Assess!ReadyKeepsItsEvidence /\ Assess!AnnouncedIsStored /\ Assess!CompletedIsAssessed

-----------------------------------------------------------------------------
LEMMA ReleaseInit == ASSUME Assess!ReleaseAssessmentAssumption PROVE Assess!Init => ReleaseInv
<1> SUFFICES ASSUME Assess!Init PROVE ReleaseInv
  OBVIOUS
<1>t. /\ {VersionBound, FileBound, DeliveryBound, FaultBound, ManualBound} \subseteq Nat
  BY DEF Assess!ReleaseAssessmentAssumption
<1>1. /\ session \in [Attempts -> [Assess!Steps -> Assess!Command \union {Assess!None}]]
      /\ assessment \in [Assess!Keys -> Row \union {Assess!None}]
      /\ announced \in [Assess!Keys -> Event \union {Assess!None}]
      /\ evidence \in [Assess!EvidenceIds -> Mark \union {Assess!None}]
  BY DEF Assess!Init
<1>2. [pc |-> "idle", version |-> 0, attempt |-> 0, items |-> {}] \in Work
  BY <1>t DEF Work, Assess!Pcs
<1>3. work \in [Replicas -> Work] /\ \A w \in Replicas : work[w].pc = "idle"
  BY <1>2 DEF Assess!Init
<1>4. criteria \subseteq Assess!Criteria
  BY DEF Assess!Init, Assess!Criteria
<1>5. ReleaseTypes
  BY <1>t, <1>1, <1>3, <1>4 DEF Assess!Init, ReleaseTypes
<1>6. WorkersAssess
  BY <1>3 DEF WorkersAssess, Assess!At
<1>7. QED
  BY <1>5, <1>6 DEF Assess!Init, ReleaseInv, Assess!ReadyKeepsItsEvidence,
     Assess!AnnouncedIsStored, Assess!CompletedIsAssessed

\* None is no row, event, mark or command.
LEMMA NoneIsNoRow ==
    /\ Assess!None \notin Row /\ Assess!None \notin Event /\ Assess!None \notin Mark
    /\ Assess!None \notin Assess!Command
BY DEF Assess!None, Row, Event, Mark, Assess!Command

\* What the loader returns are commands of the sessions it was asked for.
LEMMA ItemsAreCommands ==
    ASSUME ReleaseTypes, NEW attempts \in SUBSET Attempts, NEW steps \in SUBSET Assess!Steps
    PROVE  /\ Assess!Items(attempts, steps) \in SUBSET Assess!Item
           /\ \A i \in Assess!Items(attempts, steps) :
                 i.step \in steps /\ i.id[1] \in attempts /\ i.id = <<i.id[1], i.step>>
<1> SUFFICES ASSUME NEW i \in Assess!Items(attempts, steps)
             PROVE  i \in Assess!Item /\ i.step \in steps /\ i.id[1] \in attempts /\ i.id = <<i.id[1], i.step>>
  OBVIOUS
<1>1. PICK a \in attempts, s \in steps :
          /\ session[a][s] # Assess!None
          /\ i = [step |-> s, id |-> <<a, s>>, passed |-> session[a][s].passed,
                  old |-> session[a][s].old, bound |-> session[a][s].on = files]
  BY DEF Assess!Items
<1>2. session[a][s] \in Assess!Command
  BY <1>1 DEF ReleaseTypes
<1>3. <<a, s>> \in Assess!EvidenceIds /\ s \in Assess!Steps
  BY DEF Assess!EvidenceIds
<1>4. session[a][s].passed \in BOOLEAN /\ session[a][s].old \in BOOLEAN
  BY <1>2 DEF Assess!Command
<1>5. i \in Assess!Item
  BY <1>1, <1>3, <1>4 DEF Assess!Item
<1>6. QED
  BY <1>1, <1>5

\* A new evaluation is a row; it is READY only of usable, passing evidence for
\* every check, and for an acceptance step that maps the criteria.
LEMMA AssessedIsRow ==
    ASSUME NEW items \in SUBSET Assess!Item
    PROVE  /\ Assess!Assessed(items) \in Row
           /\ Assess!Assessed(items).items = items
           /\ Assess!Assessed(items).status = "READY" =>
                 /\ criteria # {}
                 /\ \A c \in criteria : \E i \in items : i.step = "ACCEPTANCE"
                 /\ \A c \in RequiredChecks : \E i \in items : i.step = c /\ i.passed /\ ~ i.old
<1>1. Assess!Evaluate(items) \in SUBSET Assess!Codes
  BY DEF Assess!Evaluate
<1>2. Assess!Assessed(items) \in Row /\ Assess!Assessed(items).items = items
  BY <1>1 DEF Assess!Assessed, Row, Assess!Status
<1>3. ASSUME Assess!Assessed(items).status = "READY"
      PROVE  /\ criteria # {}
             /\ \A c \in criteria : \E i \in items : i.step = "ACCEPTANCE"
             /\ \A c \in RequiredChecks : \E i \in items : i.step = c /\ i.passed /\ ~ i.old
  <2>1. Assess!Evaluate(items) = {}
    BY <1>3 DEF Assess!Assessed, Assess!Status
  <2>2. \A code \in Assess!Codes : code \notin Assess!Evaluate(items)
    BY <2>1
  <2>3. criteria # {}
    BY <2>2 DEF Assess!Evaluate, Assess!Codes
  <2>4. \A i \in items : i.passed
    BY <2>2 DEF Assess!Evaluate, Assess!Codes
  <2>5. \A k \in RequiredChecks : \E i \in items : ~ i.old /\ i.step = k
    BY <2>2 DEF Assess!Evaluate, Assess!Codes
  <2>6. \A c \in criteria : \E i \in items : i.step = "ACCEPTANCE"
    BY <2>2 DEF Assess!Evaluate, Assess!Codes
  <2>7. QED
    BY <2>3, <2>4, <2>5, <2>6
<1>4. QED
  BY <1>2, <1>3

LEMMA FailureIsRow ==
    Assess!EvaluatorFailure \in Row /\ Assess!EvaluatorFailure.status = "BLOCKED"
BY DEF Assess!EvaluatorFailure, Row, Assess!Codes

-----------------------------------------------------------------------------
(* Steps that store nothing *)

\* What is stored, and whom it is of, does not change.
StoresNothing ==
    /\ UNCHANGED <<criteria, Assess!stored>> /\ lost \subseteq lost'

\* The run is completed only at a version that has been assessed.
RunMoves ==
    \/ UNCHANGED Assess!run
    \/ runStatus' # "completed"
    \/ UNCHANGED runVersion /\ \E w \in Replicas : Assess!At(w, "complete") /\ runVersion = work[w].version

\* A worker that moves to a step has what the step needs.
WorkersKeep ==
    \A w \in Replicas :
        \/ work'[w] = work[w]
        \/ work'[w].pc \in {"idle", "fail"} /\ (work'[w].pc = "fail" => work'[w].attempt \in Attempts)
        \/ work'[w].pc \in {"validate", "load"} /\ work'[w].attempt \in Attempts
        \/ /\ work'[w].pc = "persist" /\ work'[w].attempt \in Attempts
           /\ \A i \in work'[w].items : i.id = <<work'[w].attempt, i.step>>
        \/ /\ work'[w].pc = "complete" /\ Assess!At(w, "fail") /\ work'[w].version = work[w].version
           /\ work'[w].attempt = work[w].attempt /\ Assess!Key(w) \in lost'

LEMMA NothingStored ==
    ASSUME Assess!ReleaseAssessmentAssumption, ReleaseInv, ReleaseTypes', StoresNothing, RunMoves, WorkersKeep
    PROVE  ReleaseInv'
<1>i. /\ ReleaseTypes /\ WorkersAssess /\ Assess!ReadyKeepsItsEvidence
      /\ Assess!AnnouncedIsStored /\ Assess!CompletedIsAssessed
  BY DEF ReleaseInv
<1>u. UNCHANGED <<criteria, assessment, evidence, announced>> /\ lost \subseteq lost'
  BY DEF StoresNothing, Assess!stored
<1>1. WorkersAssess'
  <2> SUFFICES ASSUME NEW w \in Replicas
               PROVE  /\ work'[w].pc # "idle" => work'[w].attempt \in Attempts
                      /\ work'[w].pc = "persist" => \A i \in work'[w].items : i.id = <<work'[w].attempt, i.step>>
                      /\ work'[w].pc = "complete" => assessment[Assess!Key(w)'] # Assess!None \/ Assess!Key(w)' \in lost'
    BY <1>u DEF WorkersAssess, Assess!At
  <2>1. CASE work'[w] = work[w]
    BY <1>i, <1>u, <2>1 DEF WorkersAssess, Assess!At, Assess!Key
  <2>2. CASE /\ work'[w].pc = "complete" /\ Assess!At(w, "fail")
             /\ work'[w].version = work[w].version
             /\ work'[w].attempt = work[w].attempt /\ Assess!Key(w) \in lost'
    BY <1>i, <2>2 DEF WorkersAssess, Assess!At, Assess!Key
  <2>3. CASE work'[w] # work[w] /\ work'[w].pc # "complete"
    BY <2>3 DEF WorkersKeep
  <2>4. QED
    BY <2>1, <2>2, <2>3 DEF WorkersKeep
<1>2. Assess!ReadyKeepsItsEvidence' /\ Assess!AnnouncedIsStored'
  BY <1>i, <1>u DEF Assess!ReadyKeepsItsEvidence, Assess!AnnouncedIsStored
<1>3. Assess!CompletedIsAssessed'
  <2> SUFFICES ASSUME runStatus' = "completed"
               PROVE  \E a \in Attempts : assessment[<<runVersion', a, "WORKER">>] # Assess!None \/ <<runVersion', a, "WORKER">> \in lost'
    BY <1>u DEF Assess!CompletedIsAssessed
  <2>1. CASE UNCHANGED Assess!run
    BY <1>i, <1>u, <2>1 DEF Assess!CompletedIsAssessed, Assess!run
  <2>2. ASSUME UNCHANGED runVersion, NEW w \in Replicas, Assess!At(w, "complete"), runVersion = work[w].version
        PROVE  \E a \in Attempts : assessment[<<runVersion', a, "WORKER">>] # Assess!None \/ <<runVersion', a, "WORKER">> \in lost'
    <3>1. work[w].attempt \in Attempts /\ (assessment[Assess!Key(w)] # Assess!None \/ Assess!Key(w) \in lost)
      BY <1>i, <2>2 DEF WorkersAssess, Assess!At
    <3>2. Assess!Key(w) = <<runVersion', work[w].attempt, "WORKER">>
      BY <2>2 DEF Assess!Key
    <3>3. QED
      BY <1>u, <3>1, <3>2
  <2>3. QED
    BY <2>1, <2>2 DEF RunMoves
<1>4. QED
  BY <1>1, <1>2, <1>3 DEF ReleaseInv

\* A worker moves to another step, keeping its version, attempt and items.
LEMMA GoesTo ==
    ASSUME ReleaseTypes, NEW w \in Replicas, NEW pc \in Assess!Pcs, Assess!GoTo(w, pc)
    PROVE  /\ work' \in [Replicas -> Work]
           /\ work'[w] = [work[w] EXCEPT !.pc = pc] /\ work'[w].pc = pc
           /\ work'[w].version = work[w].version /\ work'[w].attempt = work[w].attempt
           /\ work'[w].items = work[w].items
           /\ \A v \in Replicas \ {w} : work'[v] = work[v]
<1>1. work[w] \in Work
  BY DEF ReleaseTypes
<1>2. [work[w] EXCEPT !.pc = pc] \in Work
  BY <1>1 DEF Work
<1>3. QED
  BY <1>1, <1>2 DEF ReleaseTypes, Assess!GoTo, Work

LEMMA Stops ==
    ASSUME ReleaseTypes, NEW w \in Replicas, Assess!Stop(w)
    PROVE  /\ work' \in [Replicas -> Work] /\ work'[w].pc = "idle"
           /\ \A v \in Replicas \ {w} : work'[v] = work[v]
<1>1. work[w] \in Work /\ "idle" \in Assess!Pcs
  BY DEF ReleaseTypes, Assess!Pcs
<1>2. [[work[w] EXCEPT !.pc = "idle"] EXCEPT !.items = {}] \in Work
  BY <1>1 DEF Work
<1>3. work' = [work EXCEPT ![w] = [[work[w] EXCEPT !.pc = "idle"] EXCEPT !.items = {}]]
  BY <1>1 DEF Assess!Stop, ReleaseTypes
<1>4. QED
  BY <1>1, <1>2, <1>3 DEF ReleaseTypes, Work

LEMMA QuietStepsKeep ==
    ASSUME Assess!ReleaseAssessmentAssumption, ReleaseInv, NEW w \in Replicas,
           \/ Assess!Deliver(w) \/ Assess!ValidationPasses(w) \/ Assess!ValidationFails(w) \/ Assess!Superseded(w)
           \/ Assess!LoadEvidenceInputs(w) \/ Assess!AssessmentFails(w) \/ Assess!FailureIsSwallowed(w) \/ Assess!CompleteRun(w)
    PROVE  ReleaseInv'
<1>t. ReleaseTypes /\ WorkersAssess
  BY DEF ReleaseInv
<1>n. /\ {VersionBound, FileBound, DeliveryBound, FaultBound, ManualBound} \subseteq Nat
      /\ Attempts \subseteq Nat /\ 1 \in Attempts /\ Baseline \subseteq Assess!Steps
      /\ "ACCEPTANCE" \in Assess!Steps
  BY DEF Assess!ReleaseAssessmentAssumption, Assess!Steps
<1>w. /\ work[w] \in Work /\ work[w].attempt \in Attempts \union {0}
      /\ work[w].version \in 0 .. VersionBound
  BY <1>t DEF ReleaseTypes, Work
<1>a. ~ Assess!At(w, "idle") => work[w].attempt \in Attempts
  BY <1>t DEF WorkersAssess
<1>p. Assess!Pcs = {"idle", "validate", "load", "persist", "fail", "complete"}
  BY DEF Assess!Pcs
<1>f. Assess!Fault => failures' \in 0 .. FaultBound
  BY <1>t, <1>n DEF Assess!Fault, ReleaseTypes
<1>1. CASE Assess!Deliver(w)
  <2>1. [[[work[w] EXCEPT !.pc = "validate"] EXCEPT !.version = runVersion] EXCEPT !.attempt = 1] \in Work
    BY <1>t, <1>n, <1>w, <1>p DEF Work, ReleaseTypes
  <2>2. work' = [work EXCEPT ![w] = [[[work[w] EXCEPT !.pc = "validate"] EXCEPT !.version = runVersion]
                                     EXCEPT !.attempt = 1]]
    BY <1>1, <1>t DEF Assess!Deliver, ReleaseTypes
  <2>3. /\ work' \in [Replicas -> Work] /\ work'[w].pc = "validate" /\ work'[w].attempt = 1
        /\ \A v \in Replicas \ {w} : work'[v] = work[v]
    BY <1>t, <1>w, <2>1, <2>2 DEF ReleaseTypes, Work
  <2>4. delivered' \in 0 .. DeliveryBound
    BY <1>1, <1>t, <1>n DEF Assess!Deliver, ReleaseTypes
  <2>5. ReleaseTypes'
    BY <1>1, <1>t, <2>3, <2>4 DEF Assess!Deliver, ReleaseTypes, Assess!run, Assess!stored
  <2>6. StoresNothing /\ RunMoves
    BY <1>1 DEF Assess!Deliver, StoresNothing, RunMoves
  <2>7. WorkersKeep
    BY <1>n, <2>3 DEF WorkersKeep
  <2>8. QED
    BY <2>5, <2>6, <2>7, NothingStored
<1>2. CASE Assess!ValidationPasses(w)
  <2> DEFINE a == work[w].attempt
  <2>1. a \in Attempts
    BY <1>2, <1>a DEF Assess!ValidationPasses, Assess!At
  <2>2. PICK acceptance \in {"off", "passed", "failed"} :
            session' = [session EXCEPT ![a] = Assess!Recorded(a, Baseline, {}, acceptance)]
    BY <1>2 DEF Assess!ValidationPasses
  <2>3. Assess!Recorded(a, Baseline, {}, acceptance) \in [Assess!Steps -> Assess!Command \union {Assess!None}]
    BY <1>t, <1>n, <2>1, ZenonT(40) DEF Assess!Recorded, ReleaseTypes, Assess!Command
  <2>4. session' \in [Attempts -> [Assess!Steps -> Assess!Command \union {Assess!None}]]
    BY <1>t, <2>1, <2>2, <2>3 DEF ReleaseTypes
  <2>5. /\ Assess!GoTo(w, "load")
        /\ UNCHANGED <<Assess!run, files, criteria, Assess!stored, failures, Assess!other>>
    BY <1>2 DEF Assess!ValidationPasses
  <2>6. /\ work' \in [Replicas -> Work] /\ work'[w].pc = "load" /\ work'[w].attempt = a
        /\ \A v \in Replicas \ {w} : work'[v] = work[v]
    BY <1>t, <1>p, <2>5, GoesTo
  <2>7. ReleaseTypes'
    BY <1>t, <2>4, <2>5, <2>6 DEF ReleaseTypes, Assess!run, Assess!stored, Assess!other
  <2>8. StoresNothing /\ RunMoves /\ WorkersKeep
    BY <2>1, <2>5, <2>6 DEF StoresNothing, RunMoves, WorkersKeep, Assess!other
  <2>9. QED
    BY <2>7, <2>8, NothingStored
<1>3. CASE Assess!ValidationFails(w)
  <2> DEFINE a == work[w].attempt
  <2>1. a \in Attempts
    BY <1>3, <1>a DEF Assess!ValidationFails, Assess!At
  <2>2. PICK s \in Baseline, ran \in SUBSET Baseline :
            session' = [session EXCEPT ![a] = Assess!Recorded(a, ran, {s}, "off")]
    BY <1>3 DEF Assess!ValidationFails
  <2>3. Assess!Recorded(a, ran, {s}, "off") \in [Assess!Steps -> Assess!Command \union {Assess!None}]
    BY <1>t, <1>n, <2>1, ZenonT(40) DEF Assess!Recorded, ReleaseTypes, Assess!Command
  <2>4. session' \in [Attempts -> [Assess!Steps -> Assess!Command \union {Assess!None}]]
    BY <1>t, <2>1, <2>2, <2>3 DEF ReleaseTypes
  <2>5. UNCHANGED <<Assess!run, criteria, Assess!stored, failures, Assess!other>>
    BY <1>3 DEF Assess!ValidationFails
  <2>6. /\ files' \in Nat /\ work' \in [Replicas -> Work] /\ \A v \in Replicas \ {w} : work'[v] = work[v]
        /\ work'[w].pc = "idle" \/ (work'[w].pc = "validate" /\ work'[w].attempt \in Attempts)
    <3>1. CASE Assess!Stop(w) /\ files' = files
      BY <1>t, <3>1, Stops DEF ReleaseTypes
    <3>2. CASE /\ Assess!MayRepair(w) /\ files' = files + 1
               /\ work' = [work EXCEPT ![w].attempt = @ + 1]
      <4>1. [work[w] EXCEPT !.attempt = a + 1] \in Work
        BY <1>w, <3>2 DEF Assess!MayRepair, Work
      <4>2. work' = [work EXCEPT ![w] = [work[w] EXCEPT !.attempt = a + 1]]
        BY <3>2, <1>t DEF ReleaseTypes
      <4>3. work[w].pc = "validate"
        BY <1>3 DEF Assess!ValidationFails, Assess!At
      <4>4. work' \in [Replicas -> Work] /\ \A v \in Replicas \ {w} : work'[v] = work[v]
        BY <1>t, <4>1, <4>2 DEF ReleaseTypes
      <4>5. work'[w].pc = "validate" /\ work'[w].attempt \in Attempts
        BY <1>t, <1>w, <3>2, <4>2, <4>3 DEF ReleaseTypes, Assess!MayRepair, Work
      <4>6. files' \in Nat
        BY <1>t, <3>2 DEF ReleaseTypes
      <4>7. QED
        BY <4>4, <4>5, <4>6
    <3>3. QED
      BY <1>3, <3>1, <3>2 DEF Assess!ValidationFails
  <2>7. ReleaseTypes'
    BY <1>t, <2>4, <2>5, <2>6 DEF ReleaseTypes, Assess!run, Assess!stored, Assess!other
  <2>8. StoresNothing /\ RunMoves /\ WorkersKeep
    BY <2>1, <2>5, <2>6 DEF StoresNothing, RunMoves, WorkersKeep, Assess!other
  <2>9. QED
    BY <2>7, <2>8, NothingStored
<1>4. CASE Assess!Superseded(w)
  <2>1. /\ Assess!Stop(w)
        /\ UNCHANGED <<Assess!run, files, criteria, session, Assess!stored, failures, Assess!other>>
    BY <1>4 DEF Assess!Superseded
  <2>2. work' \in [Replicas -> Work] /\ work'[w].pc = "idle" /\ \A v \in Replicas \ {w} : work'[v] = work[v]
    BY <1>t, <2>1, Stops
  <2>3. ReleaseTypes' /\ StoresNothing /\ RunMoves /\ WorkersKeep
    BY <1>t, <2>1, <2>2 DEF ReleaseTypes, Assess!run, Assess!stored, Assess!other,
       StoresNothing, RunMoves, WorkersKeep
  <2>4. QED
    BY <2>3, NothingStored
<1>5. CASE Assess!LoadEvidenceInputs(w)
  <2> DEFINE steps == IF "mapped" \in criteria THEN Assess!Steps ELSE Baseline
             items == Assess!Items(Assess!Scope(w), steps)
             next == [[work[w] EXCEPT !.pc = "persist"] EXCEPT !.items = items]
  <2>1. /\ work[w].attempt \in Attempts
        /\ UNCHANGED <<Assess!run, files, criteria, session, Assess!stored, failures, Assess!other>>
    BY <1>5, <1>a DEF Assess!LoadEvidenceInputs, Assess!At
  <2>2. /\ items \in SUBSET Assess!Item
        /\ \A i \in items : i.id[1] \in Assess!Scope(w) /\ i.id = <<i.id[1], i.step>>
    <3>1. Assess!Scope(w) \in SUBSET Attempts /\ steps \in SUBSET Assess!Steps
      BY <1>n, <2>1 DEF Assess!Scope
    <3>2. QED
      BY <1>t, <3>1, ItemsAreCommands
  <2>3. \A i \in items : i.id = <<work[w].attempt, i.step>>
    BY <2>2 DEF Assess!Scope
  <2>4. work' = [work EXCEPT ![w] = next]
    BY <1>5, <1>t DEF Assess!LoadEvidenceInputs, ReleaseTypes
  <2> HIDE DEF items
  <2>5. /\ next \in Work /\ next.pc = "persist" /\ next.items = items
        /\ next.attempt = work[w].attempt
    BY <1>w, <1>p, <2>2 DEF Work
  <2> HIDE DEF next
  <2>6. work' \in [Replicas -> Work] /\ work'[w] = next /\ \A v \in Replicas \ {w} : work'[v] = work[v]
    BY <1>t, <2>4, <2>5 DEF ReleaseTypes
  <2>7. ReleaseTypes' /\ StoresNothing /\ RunMoves
    BY <1>t, <2>1, <2>6 DEF ReleaseTypes, Assess!run, Assess!stored, Assess!other,
       StoresNothing, RunMoves
  <2>8. WorkersKeep
    BY <2>1, <2>3, <2>5, <2>6 DEF WorkersKeep
  <2>9. QED
    BY <2>7, <2>8, NothingStored
<1>6. CASE Assess!AssessmentFails(w)
  <2>1. /\ Assess!GoTo(w, "fail")
        /\ UNCHANGED <<Assess!run, files, criteria, session, Assess!stored, Assess!other>>
        /\ failures' \in 0 .. FaultBound /\ work[w].attempt \in Attempts
    BY <1>6, <1>a, <1>f, <1>t DEF Assess!AssessmentFails, Assess!At, ReleaseTypes
  <2>2. /\ work' \in [Replicas -> Work] /\ work'[w].pc = "fail"
        /\ work'[w].attempt = work[w].attempt
        /\ \A v \in Replicas \ {w} : work'[v] = work[v]
    BY <1>t, <1>p, <2>1, GoesTo
  <2>3. ReleaseTypes' /\ StoresNothing /\ RunMoves /\ WorkersKeep
    BY <1>t, <2>1, <2>2 DEF ReleaseTypes, Assess!run, Assess!stored, Assess!other,
       StoresNothing, RunMoves, WorkersKeep
  <2>4. QED
    BY <2>3, NothingStored
<1>7. CASE Assess!FailureIsSwallowed(w)
  <2>1. /\ Assess!GoTo(w, "complete")
        /\ UNCHANGED <<Assess!run, files, criteria, session, Assess!stored, delivered, manual>>
        /\ failures' \in 0 .. FaultBound /\ work[w].attempt \in Attempts
        /\ lost' = lost \union {Assess!Key(w)}
        /\ Assess!At(w, "fail")
    BY <1>7, <1>a, <1>f DEF Assess!FailureIsSwallowed, Assess!At
  <2>2. /\ work' \in [Replicas -> Work] /\ work'[w].pc = "complete"
        /\ work'[w].attempt = work[w].attempt
        /\ work'[w].version = work[w].version /\ \A v \in Replicas \ {w} : work'[v] = work[v]
    BY <1>t, <1>p, <2>1, GoesTo
  <2>3. lost' \subseteq Assess!Keys
    BY <1>t, <1>w, <2>1 DEF ReleaseTypes, Assess!Key, Assess!Keys
  <2>4. ReleaseTypes' /\ StoresNothing /\ RunMoves /\ WorkersKeep
    BY <1>t, <2>1, <2>2, <2>3 DEF ReleaseTypes, Assess!run, Assess!stored, StoresNothing,
       RunMoves, WorkersKeep
  <2>5. QED
    BY <2>4, NothingStored
<1>8. CASE Assess!CompleteRun(w)
  <2>1. /\ Assess!Stop(w)
        /\ UNCHANGED <<runVersion, files, criteria, session, Assess!stored, failures, Assess!other>>
        /\ Assess!At(w, "complete") /\ runStatus' = IF Assess!Current(w) THEN "completed" ELSE runStatus
    BY <1>8 DEF Assess!CompleteRun
  <2>2. work' \in [Replicas -> Work] /\ work'[w].pc = "idle" /\ \A v \in Replicas \ {w} : work'[v] = work[v]
    BY <1>t, <2>1, Stops
  <2>3. ReleaseTypes' /\ StoresNothing /\ WorkersKeep
    BY <1>t, <2>1, <2>2 DEF ReleaseTypes, Assess!stored, Assess!other, StoresNothing,
       WorkersKeep
  <2>4. RunMoves
    BY <2>1 DEF RunMoves, Assess!Current, Assess!run
  <2>5. QED
    BY <2>3, <2>4, NothingStored
<1>9. QED
  BY <1>1, <1>2, <1>3, <1>4, <1>5, <1>6, <1>7, <1>8

LEMMA SurroundingsKeep ==
    ASSUME Assess!ReleaseAssessmentAssumption, ReleaseInv,
           Assess!ChangeRun \/ Assess!EditFile \/ Assess!DayPasses \/ UNCHANGED Assess!vars
    PROVE  ReleaseInv'
<1>t. ReleaseTypes /\ {VersionBound, FileBound} \subseteq Nat
  BY DEF ReleaseInv, Assess!ReleaseAssessmentAssumption
<1>1. CASE Assess!ChangeRun
  <2>1. runVersion' \in 0 .. VersionBound /\ runStatus' \in {"active", "paused"}
    BY <1>1, <1>t DEF Assess!ChangeRun, ReleaseTypes
  <2>2. ReleaseTypes' /\ StoresNothing /\ RunMoves /\ WorkersKeep
    BY <1>1, <1>t, <2>1 DEF Assess!ChangeRun, ReleaseTypes, Assess!stored, Assess!other,
       StoresNothing, RunMoves, WorkersKeep
  <2>3. QED
    BY <2>2, NothingStored
<1>2. CASE Assess!EditFile
  <2>1. ReleaseTypes' /\ StoresNothing /\ RunMoves /\ WorkersKeep
    BY <1>2, <1>t DEF Assess!EditFile, ReleaseTypes, Assess!run, Assess!stored, Assess!other,
       StoresNothing, RunMoves, WorkersKeep
  <2>2. QED
    BY <2>1, NothingStored
<1>3. CASE Assess!DayPasses
  <2>1. session' \in [Attempts -> [Assess!Steps -> Assess!Command \union {Assess!None}]]
    <3>1. \A a \in Attempts, s \in Assess!Steps :
              session[a][s] # Assess!None => [session[a][s] EXCEPT !.old = TRUE] \in Assess!Command
      <4> SUFFICES ASSUME NEW a \in Attempts, NEW s \in Assess!Steps, session[a][s] # Assess!None
                   PROVE  [session[a][s] EXCEPT !.old = TRUE] \in Assess!Command
        OBVIOUS
      <4>1. session[a][s] \in Assess!Command
        BY <1>t DEF ReleaseTypes
      <4>2. QED
        BY <4>1 DEF Assess!Command
    <3>2. QED
      BY <1>3, <3>1 DEF Assess!DayPasses
  <2>2. UNCHANGED <<Assess!run, files, criteria, work, Assess!stored, failures, Assess!other>>
    BY <1>3 DEF Assess!DayPasses
  <2>3. ReleaseTypes' /\ StoresNothing /\ RunMoves /\ WorkersKeep
    BY <1>t, <2>1, <2>2 DEF ReleaseTypes, Assess!run, Assess!stored, Assess!other,
       StoresNothing, RunMoves, WorkersKeep
  <2>4. QED
    BY <2>3, NothingStored
<1>4. CASE UNCHANGED Assess!vars
  <2>1. ReleaseTypes' /\ StoresNothing /\ RunMoves /\ WorkersKeep
    BY <1>4, <1>t DEF Assess!vars, ReleaseTypes, Assess!run, Assess!stored, Assess!other,
       StoresNothing, RunMoves, WorkersKeep
  <2>2. QED
    BY <2>1, NothingStored
<1>5. QED
  BY <1>1, <1>2, <1>3, <1>4

-----------------------------------------------------------------------------
(* Steps that store an assessment *)

\* Evidence that a worker's assessment may take.
Free(k, ids) == \A i \in ids : evidence[i] \in {Assess!None, Of(k)}

\* What a READY row of a worker rests on.
Rests(k, r, ids) ==
    r.status = "READY" =>
        /\ criteria # {}
        /\ \A c \in RequiredChecks :
              \E i \in r.items : i.step = c /\ i.passed /\ ~ i.old /\ i.id[1] = k[2] /\ i.id \in ids

\* One transaction of a worker: row, event and evidence.
LEMMA WorkerStores ==
    ASSUME Assess!ReleaseAssessmentAssumption, ReleaseInv, NEW w \in Replicas, ~ Assess!At(w, "idle"), NEW r \in Row,
           NEW ids \in SUBSET Assess!EvidenceIds, Assess!Store(Assess!Key(w), r), evidence' = Assess!Rows(Assess!Key(w), ids),
           Free(Assess!Key(w), ids), Rests(Assess!Key(w), r, ids), Assess!GoTo(w, "complete"),
           UNCHANGED <<Assess!run, files, criteria, session, failures, Assess!other>>
    PROVE  ReleaseInv'
<1>t. /\ ReleaseTypes /\ WorkersAssess /\ Assess!ReadyKeepsItsEvidence
      /\ Assess!AnnouncedIsStored /\ Assess!CompletedIsAssessed
  BY DEF ReleaseInv
<1> DEFINE k == Assess!Key(w)
           event == [kind |-> "event", status |-> r.status]
<1>k. k \in Assess!Keys /\ k[3] = "WORKER" /\ k[2] = work[w].attempt /\ k[1] = work[w].version
  <2>1. work[w] \in Work /\ work[w].attempt \in Attempts
    BY <1>t DEF ReleaseTypes, WorkersAssess
  <2>2. QED
    BY <2>1 DEF Assess!Key, Assess!Keys, Work
<1>u. UNCHANGED <<runStatus, runVersion, files, criteria, session, failures, delivered, manual, lost>>
  BY DEF Assess!run, Assess!other
<1>r. assessment' = [assessment EXCEPT ![k] = r] /\ announced' = [announced EXCEPT ![k] = event]
  BY DEF Assess!Store
<1>w. /\ work' \in [Replicas -> Work] /\ work'[w].pc = "complete"
      /\ work'[w].version = work[w].version /\ work'[w].attempt = work[w].attempt
      /\ \A v \in Replicas \ {w} : work'[v] = work[v]
  BY <1>t, GoesTo DEF Assess!Pcs
<1>e. event \in Event /\ event # Assess!None /\ r # Assess!None /\ event.status = r.status
  <2>1. r.status \in {"READY", "BLOCKED"}
    BY DEF Row
  <2>2. QED
    BY <2>1, NoneIsNoRow DEF Event
<1> HIDE DEF event
<1>1. /\ assessment' \in [Assess!Keys -> Row \union {Assess!None}]
      /\ announced' \in [Assess!Keys -> Event \union {Assess!None}]
      /\ assessment'[k] = r /\ announced'[k] = event
      /\ \A j \in Assess!Keys \ {k} : assessment'[j] = assessment[j] /\ announced'[j] = announced[j]
  BY <1>t, <1>k, <1>r, <1>e DEF ReleaseTypes
<1>2. \A i \in Assess!EvidenceIds : evidence'[i] = IF i \in ids THEN Of(k)
                                            ELSE IF evidence[i] = Of(k) THEN Assess!None ELSE evidence[i]
  BY DEF Assess!Rows, Of
<1>3. evidence' \in [Assess!EvidenceIds -> Mark \union {Assess!None}]
  <2>1. Of(k) \in Mark
    BY <1>k DEF Of, Mark
  <2>2. /\ DOMAIN evidence' = Assess!EvidenceIds
        /\ evidence' = [i \in Assess!EvidenceIds |-> evidence'[i]]
    BY DEF Assess!Rows
  <2>3. \A i \in Assess!EvidenceIds : evidence'[i] \in Mark \union {Assess!None}
    BY <1>t, <1>2, <2>1 DEF ReleaseTypes
  <2>4. QED
    BY <2>2, <2>3
<1>4. ReleaseTypes'
  BY <1>t, <1>u, <1>w, <1>1, <1>3 DEF ReleaseTypes
<1>5. WorkersAssess'
  <2> SUFFICES ASSUME NEW v \in Replicas
               PROVE  /\ work'[v].pc # "idle" => work'[v].attempt \in Attempts
                      /\ work'[v].pc = "persist" => \A i \in work'[v].items : i.id = <<work'[v].attempt, i.step>>
                      /\ work'[v].pc = "complete" => assessment'[Assess!Key(v)'] # Assess!None \/ Assess!Key(v)' \in lost'
    BY DEF WorkersAssess, Assess!At
  <2>1. CASE v = w
    <3>1. Assess!Key(v)' = k /\ work[w].attempt \in Attempts
      BY <1>t, <1>w, <2>1 DEF Assess!Key, WorkersAssess
    <3>2. QED
      BY <1>w, <1>e, <1>1, <2>1, <3>1
  <2>2. CASE v # w
    <3>1. work'[v] = work[v] /\ Assess!Key(v)' = Assess!Key(v)
      BY <1>w, <2>2 DEF Assess!Key
    <3>2. work[v].pc = "complete" => Assess!Key(v) \in Assess!Keys
      <4>1. work[v] \in Work /\ (work[v].pc = "complete" => work[v].attempt \in Attempts)
        BY <1>t DEF ReleaseTypes, WorkersAssess, Assess!At
      <4>2. QED
        BY <4>1 DEF Assess!Key, Assess!Keys, Work
    <3>3. work[v].pc = "complete" => assessment'[Assess!Key(v)] # Assess!None \/ Assess!Key(v) \in lost'
      BY <1>t, <1>u, <1>e, <1>1, <3>2 DEF WorkersAssess, Assess!At
    <3>4. QED
      BY <1>t, <3>1, <3>3 DEF WorkersAssess, Assess!At
  <2>3. QED
    BY <2>1, <2>2
<1>6. Assess!ReadyKeepsItsEvidence'
  <2> SUFFICES ASSUME NEW j \in Assess!Keys, assessment'[j] # Assess!None, assessment'[j].status = "READY"
               PROVE  /\ criteria # {} /\ j[3] = "WORKER"
                      /\ \A c \in RequiredChecks :
                            \E i \in assessment'[j].items :
                                /\ i.step = c /\ i.passed /\ ~ i.old /\ i.id[1] = j[2]
                                /\ evidence'[i.id] = Of(j)
    BY <1>u DEF Assess!ReadyKeepsItsEvidence, Of
  <2>1. CASE j = k
    BY <1>k, <1>1, <1>2, <2>1 DEF Rests
  <2>2. CASE j # k
    <3>1. assessment'[j] = assessment[j]
      BY <1>1, <2>2
    <3>2. /\ criteria # {} /\ j[3] = "WORKER"
          /\ \A c \in RequiredChecks :
                \E i \in assessment[j].items :
                    /\ i.step = c /\ i.passed /\ ~ i.old /\ i.id[1] = j[2]
                    /\ evidence[i.id] = Of(j)
      BY <1>t, <3>1 DEF Assess!ReadyKeepsItsEvidence, Of
    <3>3. Of(j) # Of(k) /\ Of(j) # Assess!None
      BY <2>2 DEF Of, Assess!None
    <3>4. ASSUME NEW i \in assessment[j].items, evidence[i.id] = Of(j)
          PROVE  evidence'[i.id] = Of(j)
      <4>1. i \in Assess!Item
        BY <1>t, <3>1 DEF ReleaseTypes, Row
      <4>2. i.id \in Assess!EvidenceIds
        BY <4>1 DEF Assess!Item
      <4>3. i.id \notin ids
        BY <3>3, <3>4 DEF Free
      <4>4. QED
        BY <1>2, <3>3, <3>4, <4>2, <4>3
    <3>5. QED
      BY <3>1, <3>2, <3>4
  <2>3. QED
    BY <2>1, <2>2
<1>7. Assess!AnnouncedIsStored'
  BY <1>t, <1>k, <1>e, <1>1 DEF Assess!AnnouncedIsStored
<1>8. Assess!CompletedIsAssessed'
  <2> SUFFICES ASSUME runStatus = "completed"
               PROVE  \E a \in Attempts : assessment'[<<runVersion, a, "WORKER">>] # Assess!None \/ <<runVersion, a, "WORKER">> \in lost
    BY <1>u DEF Assess!CompletedIsAssessed
  <2>1. PICK a \in Attempts : assessment[<<runVersion, a, "WORKER">>] # Assess!None \/ <<runVersion, a, "WORKER">> \in lost
    BY <1>t DEF Assess!CompletedIsAssessed
  <2>2. <<runVersion, a, "WORKER">> \in Assess!Keys
    BY <1>t DEF Assess!Keys, ReleaseTypes
  <2>3. QED
    BY <1>e, <1>1, <2>1, <2>2
<1>9. QED
  BY <1>4, <1>5, <1>6, <1>7, <1>8 DEF ReleaseInv

LEMMA StoringKeeps ==
    ASSUME Assess!ReleaseAssessmentAssumption, ReleaseInv, NEW w \in Replicas,
           Assess!PersistAssessment(w) \/ Assess!PersistEvaluatorFailure(w)
    PROVE  ReleaseInv'
<1>t. ReleaseTypes /\ WorkersAssess
  BY DEF ReleaseInv
<1>1. CASE Assess!PersistAssessment(w)
  <2> DEFINE items == work[w].items
             ids == {i.id : i \in {j \in items : j.step # "ACCEPTANCE"}}
             r == Assess!Assessed(items)
  <2>1. items \in SUBSET Assess!Item /\ \A i \in items : i.id = <<work[w].attempt, i.step>>
    BY <1>1, <1>t DEF Assess!PersistAssessment, ReleaseTypes, Work, WorkersAssess, Assess!At
  <2>2. ids \in SUBSET Assess!EvidenceIds
    BY <2>1 DEF Assess!Item
  <2>3. r \in Row /\ r.items = items
    BY <2>1, AssessedIsRow
  <2>4. Free(Assess!Key(w), ids)
    BY <1>1 DEF Assess!PersistAssessment, Assess!Conflicts, Free, Of
  <2>5. Rests(Assess!Key(w), r, ids)
    <3> SUFFICES ASSUME r.status = "READY", NEW c \in RequiredChecks
                 PROVE  /\ criteria # {}
                        /\ \E i \in items : /\ i.step = c /\ i.passed /\ ~ i.old
                                            /\ i.id[1] = Assess!Key(w)[2] /\ i.id \in ids
      BY <2>1, <2>3, AssessedIsRow DEF Rests
    <3>1. PICK i \in items : i.step = c /\ i.passed /\ ~ i.old
      BY <2>1, AssessedIsRow
    <3>2. c # "ACCEPTANCE"
      BY DEF Assess!ReleaseAssessmentAssumption
    <3>3. i.id \in ids /\ i.id[1] = Assess!Key(w)[2]
      BY <2>1, <3>1, <3>2 DEF Assess!Key
    <3>4. criteria # {}
      BY <2>1, AssessedIsRow
    <3>5. QED
      BY <3>1, <3>3, <3>4
  <2>6. /\ Assess!Store(Assess!Key(w), r) /\ evidence' = Assess!Rows(Assess!Key(w), ids)
        /\ Assess!GoTo(w, "complete") /\ ~ Assess!At(w, "idle")
        /\ UNCHANGED <<Assess!run, files, criteria, session, failures, Assess!other>>
    BY <1>1 DEF Assess!PersistAssessment, Assess!At
  <2> HIDE DEF ids, r
  <2>7. QED
    BY <2>2, <2>3, <2>4, <2>5, <2>6, WorkerStores
<1>2. CASE Assess!PersistEvaluatorFailure(w)
  <2>1. /\ Assess!EvaluatorFailure \in Row /\ Free(Assess!Key(w), {})
        /\ Rests(Assess!Key(w), Assess!EvaluatorFailure, {})
    BY FailureIsRow DEF Free, Rests
  <2>2. /\ Assess!Store(Assess!Key(w), Assess!EvaluatorFailure)
        /\ evidence' = Assess!Rows(Assess!Key(w), {}) /\ Assess!GoTo(w, "complete")
        /\ UNCHANGED <<Assess!run, files, criteria, session, failures, Assess!other>>
        /\ ~ Assess!At(w, "idle")
    BY <1>2 DEF Assess!PersistEvaluatorFailure, Assess!At
  <2>3. QED
    BY <2>1, <2>2, WorkerStores
<1>3. QED
  BY <1>1, <1>2

LEMMA TriggerKeeps ==
    ASSUME Assess!ReleaseAssessmentAssumption, ReleaseInv, Assess!TriggerReleaseAssessment
    PROVE  ReleaseInv'
<1>t. /\ ReleaseTypes /\ WorkersAssess /\ Assess!ReadyKeepsItsEvidence
      /\ Assess!AnnouncedIsStored /\ Assess!CompletedIsAssessed
  BY DEF ReleaseInv
<1>n. /\ ManualBound \in Nat /\ 1 \in Attempts /\ Baseline \in SUBSET Assess!Steps
      /\ "ACCEPTANCE" \notin Baseline
  BY DEF Assess!ReleaseAssessmentAssumption, Assess!Steps
<1> DEFINE k == Assess!ManualKey
           items == Assess!Items(Assess!ManualScope, Baseline)
           r == Assess!Assessed(items)
<1>k. k \in Assess!Keys /\ k[3] = "MANUAL"
  BY <1>t, <1>n DEF Assess!ManualKey, Assess!Keys, ReleaseTypes
<1>1. items \in SUBSET Assess!Item /\ \A i \in items : i.step \in Baseline
  <2>1. Assess!ManualScope \in SUBSET Attempts
    BY DEF Assess!ManualScope
  <2>2. QED
    BY <1>t, <1>n, <2>1, ItemsAreCommands
<1>2. r \in Row /\ r.status # "READY" /\ r # Assess!None
  <2>1. r \in Row
    BY <1>1, AssessedIsRow
  <2>2. r.status # "READY"
    BY <1>1, <1>n, AssessedIsRow
  <2>3. QED
    BY <2>1, <2>2, NoneIsNoRow
<1>3. /\ assessment' = [assessment EXCEPT ![k] = r] /\ manual' \in 0 .. ManualBound
      /\ UNCHANGED <<runStatus, runVersion, files, criteria, session, work, evidence, announced, failures, delivered, lost>>
  BY <1>t, <1>n DEF Assess!TriggerReleaseAssessment, ReleaseTypes, Assess!run
<1> HIDE DEF r, k
<1>4. /\ assessment' \in [Assess!Keys -> Row \union {Assess!None}] /\ assessment'[k] = r
      /\ \A j \in Assess!Keys \ {k} : assessment'[j] = assessment[j]
  BY <1>t, <1>k, <1>2, <1>3 DEF ReleaseTypes
<1>5. ReleaseTypes'
  BY <1>t, <1>3, <1>4 DEF ReleaseTypes
<1>w. \A j \in Assess!Keys : j[3] = "WORKER" => assessment'[j] = assessment[j]
  BY <1>k, <1>4
<1>6. WorkersAssess'
  <2> SUFFICES ASSUME NEW v \in Replicas, work[v].pc = "complete"
               PROVE  assessment'[Assess!Key(v)] # Assess!None \/ Assess!Key(v) \in lost
    BY <1>t, <1>3 DEF WorkersAssess, Assess!At, Assess!Key
  <2>1. Assess!Key(v) \in Assess!Keys /\ Assess!Key(v)[3] = "WORKER"
    <3>1. work[v] \in Work /\ work[v].attempt \in Attempts
      BY <1>t DEF ReleaseTypes, WorkersAssess, Assess!At
    <3>2. QED
      BY <3>1 DEF Assess!Key, Assess!Keys, Work
  <2>2. QED
    BY <1>t, <1>w, <2>1 DEF WorkersAssess, Assess!At
<1>7. Assess!ReadyKeepsItsEvidence'
  <2> DEFINE Backed(crit, ev, j, items_) ==
        /\ crit # {} /\ j[3] = "WORKER"
        /\ \A c \in RequiredChecks :
              \E i \in items_ : i.step = c /\ i.passed /\ ~i.old /\ i.id[1] = j[2]
                              /\ ev[i.id] = [kind |-> "of", key |-> j]
  <2>1. \A j \in Assess!Keys : assessment'[j] # Assess!None /\ assessment'[j].status = "READY" => assessment'[j] = assessment[j]
    BY <1>2, <1>4
  <2>2. \A j \in Assess!Keys : assessment[j] # Assess!None /\ assessment[j].status = "READY"
                       => Backed(criteria, evidence, j, assessment[j].items)
    BY <1>t, Zenon DEF Assess!ReadyKeepsItsEvidence
  <2>3. \A j \in Assess!Keys : assessment'[j] # Assess!None /\ assessment'[j].status = "READY"
                       => Backed(criteria', evidence', j, assessment'[j].items)
    <3> HIDE DEF Backed
    <3>1. QED
      BY <1>3, <2>1, <2>2
  <2>4. QED
    BY <2>3, Zenon DEF Assess!ReadyKeepsItsEvidence
<1>8. Assess!AnnouncedIsStored'
  BY <1>t, <1>k, <1>3, <1>4 DEF Assess!AnnouncedIsStored
<1>9. Assess!CompletedIsAssessed'
  <2>1. \A a \in Attempts : <<runVersion, a, "WORKER">> \in Assess!Keys
    BY <1>t DEF Assess!Keys, ReleaseTypes
  <2>2. \A a \in Attempts : assessment'[<<runVersion, a, "WORKER">>] = assessment[<<runVersion, a, "WORKER">>]
    BY <1>w, <2>1
  <2>3. QED
    BY <1>t, <1>3, <2>2 DEF Assess!CompletedIsAssessed
<1>10. QED
  BY <1>5, <1>6, <1>7, <1>8, <1>9 DEF ReleaseInv

LEMMA ReleaseNextKeeps ==
    ASSUME Assess!ReleaseAssessmentAssumption, ReleaseInv, [Assess!Next]_(Assess!vars) PROVE ReleaseInv'
BY QuietStepsKeep, SurroundingsKeep, StoringKeeps, TriggerKeeps DEF Assess!Next, Assess!Step,
   Assess!Catch

LEMMA ReleaseInvariance ==
    ASSUME Assess!ReleaseAssessmentAssumption
    PROVE  Assess!Spec => []ReleaseInv
<1>1. Assess!Init => ReleaseInv
  BY ReleaseInit
<1>2. ReleaseInv /\ [Assess!Next]_(Assess!vars) => ReleaseInv'
  BY ReleaseNextKeeps
<1>3. QED
  BY <1>1, <1>2, PTL DEF Assess!Spec

LEMMA ReleaseInvMeans ==
    ASSUME ReleaseInv
    PROVE  Assess!TypeOK /\ Assess!ReadyKeepsItsEvidence /\ Assess!AnnouncedIsStored /\ Assess!CompletedIsAssessed
<1>1. ReleaseTypes
  BY DEF ReleaseInv
<1>2. \A w \in Replicas : work[w] \in Work
  BY <1>1 DEF ReleaseTypes
<1>3. \A k \in Assess!Keys : assessment[k] = Assess!None \/ assessment[k] \in Row
  BY <1>1 DEF ReleaseTypes
<1>4. \A i \in Assess!EvidenceIds : evidence[i] = Assess!None \/ evidence[i] \in Mark
  BY <1>1 DEF ReleaseTypes
<1>5. \A k \in Assess!Keys : assessment[k] = Assess!None \/ assessment[k].issues \subseteq Assess!Codes
  BY <1>3 DEF Row
<1>6. \A i \in Assess!EvidenceIds : evidence[i] = Assess!None \/ evidence[i].key \in Assess!Keys
  BY <1>4 DEF Mark
<1>7. Assess!TypeOK
  BY <1>1, <1>2, <1>5, <1>6 DEF ReleaseTypes, Assess!TypeOK, Work
<1>8. QED
  BY <1>7 DEF ReleaseInv

\* What a step does to a row of a worker.
LEMMA StepKeepsWorkerRows ==
    ASSUME Assess!ReleaseAssessmentAssumption, ReleaseInv, [Assess!Next]_(Assess!vars)
    PROVE  Assess!WorkerRowIsKept
<1>t. assessment \in [Assess!Keys -> Row \union {Assess!None}]
  BY DEF ReleaseInv, ReleaseTypes
<1>1. CASE UNCHANGED assessment
  BY <1>1 DEF Assess!WorkerRowIsKept
<1>2. ASSUME NEW w \in Replicas, Assess!PersistAssessment(w) \/ Assess!PersistEvaluatorFailure(w)
      PROVE  Assess!WorkerRowIsKept
  <2>1. work[w].pc \in {"persist", "fail"}
    BY <1>2 DEF Assess!PersistAssessment, Assess!PersistEvaluatorFailure, Assess!At
  <2>2. \A k \in Assess!Keys : k # Assess!Key(w) => assessment'[k] = assessment[k]
    BY <1>2, <1>t DEF Assess!PersistAssessment, Assess!PersistEvaluatorFailure, Assess!Store
  <2>3. QED
    BY <2>1, <2>2 DEF Assess!WorkerRowIsKept
<1>3. CASE Assess!TriggerReleaseAssessment
  <2>1. \A k \in Assess!Keys : k # Assess!ManualKey => assessment'[k] = assessment[k]
    BY <1>3, <1>t DEF Assess!TriggerReleaseAssessment
  <2>2. QED
    BY <2>1 DEF Assess!WorkerRowIsKept, Assess!ManualKey
<1>4. QED
  BY <1>1, <1>2, <1>3 DEF Assess!Next, Assess!Step, Assess!Catch, Assess!Deliver,
     Assess!ValidationPasses, Assess!ValidationFails, Assess!Superseded,
     Assess!LoadEvidenceInputs, Assess!AssessmentFails, Assess!FailureIsSwallowed, Assess!CompleteRun, Assess!ChangeRun, Assess!EditFile, Assess!DayPasses,
     Assess!vars, Assess!stored

\* Every row, event and item keeps its type, for any number of workers, attempts and
\* versions.
THEOREM ReleaseTypeCorrect ==
    ASSUME Assess!ReleaseAssessmentAssumption
    PROVE  Assess!Spec => []Assess!TypeOK
<1>1. ReleaseInv => Assess!TypeOK
  BY ReleaseInvMeans
<1>2. QED
  BY <1>1, ReleaseInvariance, PTL

\* persistAssessment: a READY assessment has a stored, passing evidence row of its own
\* attempt for every check of the policy, whatever other versions, attempts and
\* duplicate jobs store under the same command ids.
THEOREM ReadyKeepsItsEvidenceHolds ==
    ASSUME Assess!ReleaseAssessmentAssumption PROVE Assess!Spec => []Assess!ReadyKeepsItsEvidence
<1>1. ReleaseInv => Assess!ReadyKeepsItsEvidence
  BY ReleaseInvMeans
<1>2. QED
  BY <1>1, ReleaseInvariance, PTL

\* appendReleaseEvent in the transaction of the row: the last event of an assessment
\* names the status that is stored.
THEOREM AnnouncedIsStoredHolds ==
    ASSUME Assess!ReleaseAssessmentAssumption
    PROVE  Assess!Spec => []Assess!AnnouncedIsStored
<1>1. ReleaseInv => Assess!AnnouncedIsStored
  BY ReleaseInvMeans
<1>2. QED
  BY <1>1, ReleaseInvariance, PTL

\* assess before completeRun: a completed run has an assessment of its version, or the
\* database refused the record of the failure as well.
THEOREM CompletedIsAssessedHolds ==
    ASSUME Assess!ReleaseAssessmentAssumption PROVE Assess!Spec => []Assess!CompletedIsAssessed
<1>1. ReleaseInv => Assess!CompletedIsAssessed
  BY ReleaseInvMeans
<1>2. QED
  BY <1>1, ReleaseInvariance, PTL

\* The key of release_assessments names the source: no manual assessment, and no step
\* but a worker's own storing, changes what a worker stored for an attempt.
THEOREM WorkerRowIsKeptHolds ==
    ASSUME Assess!ReleaseAssessmentAssumption PROVE Assess!Spec => [][Assess!WorkerRowIsKept]_(Assess!vars)
<1>1. ReleaseInv /\ [Assess!Next]_(Assess!vars) => Assess!WorkerRowIsKept
  BY StepKeepsWorkerRows
<1>2. QED
  BY <1>1, ReleaseInvariance, PTL DEF Assess!Spec

-----------------------------------------------------------------------------
(* The readiness report *)

Report == [met : SUBSET Gates, by : Replicas, age : 0 .. Ready!Ttl - 1]
Kept == [verdict : Ready!Verdicts, age : 0 .. CacheMs - 1]

\* A report of every gate is as old as the newest of its kind, or older.
KeyIsDated == reported # NoReport /\ reported.met = Gates => lastFull <= reported.age

\* When a verdict was reached, the clock of the worker that reported made the
\* report at most so much younger.
Backed(verdict, age) ==
    verdict.failing = {} => \E s \in Skews : lastFull <= MaxAgeMs + s + age

VerdictsAreDated ==
    /\ kept # NoReport => Backed(kept.verdict, kept.age)
    /\ replied # NoReport => Backed(replied, CacheMs - 1)

ReadinessInv == Ready!TypeOK /\ KeyIsDated /\ VerdictsAreDated

LEMMA ReadinessInit == ASSUME Ready!ReadinessAssumption PROVE Ready!Init => ReadinessInv
<1> SUFFICES ASSUME Ready!Init PROVE ReadinessInv
  OBVIOUS
<1>1. Ready!Never \in Nat /\ HeartbeatMs \in Nat
  BY DEF Ready!ReadinessAssumption, Ready!Never, Ready!Ttl
<1>2. /\ env \in [Replicas -> (SUBSET Gates) \union {NoReport}]
      /\ beat \in [Replicas -> 0 .. HeartbeatMs]
  BY <1>1 DEF Ready!Init
<1>3. lastFull \in 0 .. Ready!Never
  BY <1>1 DEF Ready!Init
<1>4. Ready!TypeOK
  BY <1>2, <1>3 DEF Ready!Init, Ready!TypeOK
<1>5. QED
  BY <1>4 DEF Ready!Init, ReadinessInv, KeyIsDated, VerdictsAreDated

\* What does not touch the clock of reports, the verdicts or the key.
LEMMA WorkersMove ==
    ASSUME Ready!ReadinessAssumption, ReadinessInv, Ready!TypeOK', reported' = reported, lastFull' = lastFull,
           kept' \in {kept, NoReport}, replied' \in {replied, NoReport}
    PROVE  ReadinessInv'
BY DEF ReadinessInv, KeyIsDated, VerdictsAreDated, Backed

LEMMA ReadinessNextKeeps ==
    ASSUME Ready!ReadinessAssumption, ReadinessInv, [Ready!Next]_(Ready!vars) PROVE ReadinessInv'
<1>t. /\ Ready!TypeOK /\ {HeartbeatMs, MaxAgeMs, CacheMs} \subseteq Nat \ {0}
      /\ Skews \subseteq Int
      /\ Ready!Ttl \in Nat /\ Ready!Never \in Nat /\ NoReport \notin SUBSET Gates
      /\ Ready!Ttl + CacheMs = Ready!Never
  BY DEF ReadinessInv, Ready!ReadinessAssumption, Ready!Ttl, Ready!Never
<1>1. ASSUME NEW w \in Replicas, NEW met \in SUBSET Gates, NEW later \in BOOLEAN, Ready!StartPublisher(w, met, later)
      PROVE  ReadinessInv'
  <2>1. env' \in [Replicas -> (SUBSET Gates) \union {NoReport}] /\ env'[w] # NoReport
    BY <1>1, <1>t DEF Ready!StartPublisher, Ready!TypeOK
  <2>2. dated' \subseteq Ready!Running'
    BY <1>1, <1>t, <2>1 DEF Ready!StartPublisher, Ready!TypeOK, Ready!Running
  <2>3. Ready!TypeOK'
    BY <1>1, <1>t, <2>1, <2>2 DEF Ready!StartPublisher, Ready!TypeOK, Ready!Verdicts
  <2>4. QED
    BY <1>1, <2>3, WorkersMove DEF Ready!StartPublisher
<1>2. ASSUME NEW w \in Replicas, Ready!StopPublisher(w) \/ Ready!DateComes(w)
      PROVE  ReadinessInv'
  <2>1. /\ env' \in [Replicas -> (SUBSET Gates) \union {NoReport}]
        /\ dated' \subseteq Ready!Running'
    BY <1>2, <1>t DEF Ready!StopPublisher, Ready!DateComes, Ready!TypeOK, Ready!Running
  <2>3. Ready!TypeOK'
    BY <1>2, <1>t, <2>1 DEF Ready!StopPublisher, Ready!DateComes, Ready!TypeOK, Ready!Verdicts
  <2>4. QED
    BY <1>2, <2>3, WorkersMove DEF Ready!StopPublisher, Ready!DateComes
<1>3. ASSUME NEW w \in Replicas, Ready!PublishOnce(w)
      PROVE  ReadinessInv'
  <2>1. Ready!Met(w) \in SUBSET Gates
    BY <1>3, <1>t DEF Ready!PublishOnce, Ready!Running, Ready!TypeOK, Ready!Met
  <2>2. reported' \in Report \union {NoReport} /\ lastFull' \in 0 .. Ready!Never
    BY <1>3, <1>t, <2>1 DEF Ready!PublishOnce, Ready!TypeOK, Report, Ready!Ttl
  <2>3. Ready!TypeOK'
    BY <1>3, <1>t, <2>2 DEF Ready!PublishOnce, Ready!TypeOK, Report, Ready!Running,
       Ready!Verdicts
  <2>4. KeyIsDated'
    <3>1. CASE redis
      BY <1>3, <3>1, <1>t DEF Ready!PublishOnce, KeyIsDated
    <3>2. CASE ~ redis
      BY <1>3, <3>2 DEF Ready!PublishOnce, KeyIsDated, ReadinessInv
    <3>3. QED
      BY <3>1, <3>2
  <2>5. lastFull' <= lastFull /\ lastFull \in Nat /\ lastFull' \in Nat
    BY <1>3, <1>t DEF Ready!PublishOnce, Ready!TypeOK
  <2>6. VerdictsAreDated'
    <3>1. replied' = NoReport /\ kept' = kept
      BY <1>3 DEF Ready!PublishOnce
    <3>2. ASSUME kept # NoReport, kept.verdict.failing = {}
          PROVE  \E s \in Skews : lastFull' <= MaxAgeMs + s + kept.age
      <4>1. PICK s \in Skews : lastFull <= MaxAgeMs + s + kept.age
        BY <3>2 DEF ReadinessInv, VerdictsAreDated, Backed
      <4>2. kept.age \in Int /\ s \in Int
        BY <3>2, <1>t DEF Ready!TypeOK
      <4>3. lastFull' <= MaxAgeMs + s + kept.age
        BY <2>5, <4>1, <4>2, <1>t
      <4>4. QED
        BY <4>3
    <3>3. QED
      BY <3>1, <3>2 DEF VerdictsAreDated, Backed
  <2>7. QED
    BY <2>3, <2>4, <2>6 DEF ReadinessInv
<1>4. ASSUME NEW on \in BOOLEAN, Ready!FlipFlag(on)
      PROVE  ReadinessInv'
  <2>1. Ready!TypeOK'
    BY <1>4, <1>t DEF Ready!FlipFlag, Ready!TypeOK, Ready!workers, Ready!Running
  <2>2. QED
    BY <1>4, <2>1, WorkersMove DEF Ready!FlipFlag
<1>5. CASE Ready!Current
  <2>u. UNCHANGED <<env, dated, skew, beat, redis, reported, enabled, lastFull>>
    BY <1>5 DEF Ready!Current, Ready!workers
  <2>1. CASE kept # NoReport
    <3>1. replied' = kept.verdict /\ kept' = kept /\ kept.age \in 0 .. CacheMs - 1
          /\ kept.verdict \in Ready!Verdicts
      BY <1>5, <2>1, <1>t DEF Ready!Current, Ready!TypeOK
    <3>2. Ready!TypeOK'
      BY <3>1, <2>u, <1>t DEF Ready!TypeOK, Ready!Running
    <3>3. ASSUME kept.verdict.failing = {}
          PROVE  \E s \in Skews : lastFull <= MaxAgeMs + s + (CacheMs - 1)
      <4>1. PICK s \in Skews : lastFull <= MaxAgeMs + s + kept.age
        BY <2>1, <3>3 DEF ReadinessInv, VerdictsAreDated, Backed
      <4>2. s \in Int /\ lastFull \in Int
        BY <1>t DEF Ready!TypeOK
      <4>3. lastFull <= MaxAgeMs + s + (CacheMs - 1)
        BY <3>1, <4>1, <4>2, <1>t
      <4>4. QED
        BY <4>3
    <3>4. VerdictsAreDated'
      BY <3>1, <3>3, <2>u, <2>1 DEF VerdictsAreDated, Backed, ReadinessInv
    <3>5. QED
      BY <3>2, <3>4, <2>u DEF ReadinessInv, KeyIsDated
  <2>2. CASE kept = NoReport
    <3> DEFINE report == IF redis THEN reported ELSE NoReport
    <3>1. /\ replied' = Ready!EvaluateExecutionReadiness(report)
          /\ kept' = [verdict |-> replied', age |-> 0]
      BY <1>5, <2>2 DEF Ready!Current
    <3>2. replied' \in Ready!Verdicts /\ (replied'.failing = {} => Ready!Reporting(report) /\ Gates \subseteq report.met)
      BY <3>1, <1>t DEF Ready!EvaluateExecutionReadiness, Ready!Verdicts, Ready!TypeOK,
         Ready!ReadinessAssumption
    <3>3. Ready!TypeOK'
      <4>1. kept' \in Kept
        BY <3>1, <3>2, <1>t DEF Kept
      <4>2. QED
        BY <3>2, <4>1, <2>u, <1>t DEF Ready!TypeOK, Ready!Running, Kept
    <3>4. ASSUME replied'.failing = {}
          PROVE  \E s \in Skews : lastFull <= MaxAgeMs + s
      <4>1. reported # NoReport /\ report = reported /\ reported \in Report
        BY <3>2, <3>4, <1>t DEF Ready!Reporting, Ready!TypeOK, Report
      <4>2. reported.met = Gates /\ reported.by \in Replicas /\ reported.age \in Int
        <5>1. /\ reported.met \in SUBSET Gates /\ reported.by \in Replicas
              /\ reported.age \in 0 .. Ready!Ttl - 1
          BY <4>1 DEF Report
        <5>2. Gates \subseteq reported.met
          BY <3>2, <3>4, <4>1
        <5>3. reported.met = Gates
          BY <5>1, <5>2, Zenon
        <5>4. QED
          BY <5>1, <5>3, <1>t
      <4>3. lastFull <= reported.age /\ lastFull \in Int
        BY <4>1, <4>2, <1>t DEF ReadinessInv, KeyIsDated, Ready!TypeOK
      <4>4. skew[reported.by] \in Skews /\ skew[reported.by] \in Int
        BY <4>2, <1>t DEF Ready!TypeOK
      <4>5. Ready!Abs(reported.age - skew[reported.by]) <= MaxAgeMs
        BY <3>2, <3>4, <4>1 DEF Ready!Reporting
      <4>6. lastFull <= MaxAgeMs + skew[reported.by]
        BY <4>2, <4>3, <4>4, <4>5, <1>t DEF Ready!Abs
      <4>7. QED
        BY <4>4, <4>6
    <3>5. VerdictsAreDated'
      <4>1. ASSUME replied'.failing = {}
            PROVE  \E s \in Skews : lastFull <= MaxAgeMs + s + 0 /\ lastFull <= MaxAgeMs + s + (CacheMs - 1)
        <5>1. PICK s \in Skews : lastFull <= MaxAgeMs + s
          BY <3>4, <4>1
        <5>2. s \in Int /\ lastFull \in Int
          BY <1>t DEF Ready!TypeOK
        <5>3. lastFull <= MaxAgeMs + s + 0 /\ lastFull <= MaxAgeMs + s + (CacheMs - 1)
          BY <5>1, <5>2, <1>t
        <5>4. QED
          BY <5>3
      <4>2. kept'.verdict = replied' /\ kept'.age = 0 /\ lastFull' = lastFull
        BY <3>1, <2>u
      <4>3. QED
        BY <4>1, <4>2 DEF VerdictsAreDated, Backed
    <3>6. QED
      BY <3>3, <3>5, <2>u DEF ReadinessInv, KeyIsDated
  <2>3. QED
    BY <2>1, <2>2
<1>6. CASE Ready!RedisChanges
  <2>1. Ready!TypeOK'
    BY <1>6, <1>t DEF Ready!RedisChanges, Ready!TypeOK, Ready!workers, Ready!Running
  <2>2. QED
    BY <1>6, <2>1, WorkersMove DEF Ready!RedisChanges
<1>7. CASE Ready!Tick
  <2>u. UNCHANGED <<env, dated, skew, redis, enabled>> /\ replied' = NoReport
    BY <1>7 DEF Ready!Tick
  <2>1. beat' \in [Replicas -> 0 .. HeartbeatMs]
    BY <1>7, <1>t DEF Ready!Tick, Ready!TypeOK
  <2>2. lastFull' \in 0 .. Ready!Never /\ lastFull' <= lastFull + 1 /\ lastFull \in Nat
    BY <1>7, <1>t DEF Ready!Tick, Ready!TypeOK, Ready!Older
  <2>3. reported' \in Report \union {NoReport} /\ (reported' # NoReport => reported # NoReport /\ reported'.met = reported.met /\ reported'.age = reported.age + 1)
    BY <1>7, <1>t DEF Ready!Tick, Ready!TypeOK, Ready!Expire, Report
  <2>4. /\ kept' \in Kept \union {NoReport}
        /\ kept' # NoReport => kept # NoReport /\ kept'.verdict = kept.verdict /\ kept'.age = kept.age + 1
    BY <1>7, <1>t DEF Ready!Tick, Ready!TypeOK, Ready!Expire, Kept
  <2>5. Ready!TypeOK'
    BY <2>u, <2>1, <2>2, <2>3, <2>4, <1>t DEF Ready!TypeOK, Report, Kept, Ready!Running
  <2>6. KeyIsDated'
    <3>1. reported # NoReport => reported.age \in Nat
      BY <1>t DEF Ready!TypeOK
    <3>2. QED
      BY <2>2, <2>3, <3>1, <1>t DEF KeyIsDated, ReadinessInv
  <2>7. VerdictsAreDated'
    <3>1. ASSUME kept' # NoReport, kept'.verdict.failing = {}
          PROVE  \E s \in Skews : lastFull' <= MaxAgeMs + s + kept'.age
      <4>1. PICK s \in Skews : lastFull <= MaxAgeMs + s + kept.age
        BY <2>4, <3>1 DEF ReadinessInv, VerdictsAreDated, Backed
      <4>2. kept.age \in Int /\ s \in Int /\ lastFull' \in Int
        BY <2>4, <2>2, <3>1, <1>t DEF Ready!TypeOK
      <4>3. lastFull' <= MaxAgeMs + s + (kept.age + 1)
        BY <2>2, <4>1, <4>2, <1>t
      <4>4. QED
        BY <2>4, <3>1, <4>3
    <3>2. QED
      BY <2>u, <3>1 DEF VerdictsAreDated, Backed
  <2>8. QED
    BY <2>5, <2>6, <2>7 DEF ReadinessInv
<1>8. CASE UNCHANGED Ready!vars
  BY <1>8 DEF Ready!vars, ReadinessInv, Ready!TypeOK, KeyIsDated, VerdictsAreDated, Backed,
     Ready!Running
<1>9. QED
  BY <1>1, <1>2, <1>3, <1>4, <1>5, <1>6, <1>7, <1>8 DEF Ready!Next

LEMMA ReadinessInvariance == ASSUME Ready!ReadinessAssumption PROVE Ready!Spec => []ReadinessInv
<1>1. Ready!Init => ReadinessInv
  BY ReadinessInit
<1>2. ReadinessInv /\ [Ready!Next]_(Ready!vars) => ReadinessInv'
  BY ReadinessNextKeeps
<1>3. QED
  BY <1>1, <1>2, PTL DEF Ready!Spec

\* The report, the kept verdict and the answer keep their types, for any number of
\* workers, gates and clocks.
THEOREM ReadinessTypeCorrect ==
    ASSUME Ready!ReadinessAssumption
    PROVE  Ready!Spec => []Ready!TypeOK
<1>1. ReadinessInv => Ready!TypeOK
  BY DEF ReadinessInv
<1>2. QED
  BY <1>1, ReadinessInvariance, PTL

\* ExecutionReadiness.current(): /readyz says ready only while a worker's report that
\* met every gate is younger than the age limit, the difference of the clocks and the
\* kept verdict add up to, whichever workers come and go and whatever Redis loses.
THEOREM ReadyIsBackedHolds ==
    ASSUME Ready!ReadinessAssumption
    PROVE  Ready!Spec => []Ready!ReadyIsBacked
<1>1. ASSUME Ready!ReadinessAssumption, ReadinessInv
      PROVE  Ready!ReadyIsBacked
  <2> SUFFICES ASSUME Ready!ExecutionReady
               PROVE  \E s \in Skews : lastFull < MaxAgeMs + s + CacheMs
    BY DEF Ready!ReadyIsBacked
  <2>1. PICK s \in Skews : lastFull <= MaxAgeMs + s + (CacheMs - 1)
    BY <1>1 DEF Ready!ExecutionReady, ReadinessInv, VerdictsAreDated, Backed
  <2>2. s \in Int /\ lastFull \in Int /\ MaxAgeMs \in Int /\ CacheMs \in Int
    <3>1. s \in Int /\ MaxAgeMs \in Int /\ CacheMs \in Int /\ Ready!Never \in Nat
      BY <1>1 DEF Ready!ReadinessAssumption, Ready!Never, Ready!Ttl
    <3>2. lastFull \in 0 .. Ready!Never
      BY <1>1 DEF ReadinessInv, Ready!TypeOK
    <3>3. QED
      BY <3>1, <3>2
  <2>3. lastFull < MaxAgeMs + s + CacheMs
    BY <2>1, <2>2
  <2>4. QED
    BY <2>3
<1>2. ReadinessInv => Ready!ReadyIsBacked
  BY <1>1
<1>3. QED
  BY <1>2, ReadinessInvariance, PTL

-----------------------------------------------------------------------------
(* The previews *)

(* Previews.                                                               *)

Exec == [pc : Preview!Pcs, kind : {"run", "reopen"}, version : 0 .. MaxVersion, attempt : 0 .. MaxAttempts,
         repairs : 0 .. MaxRepairs, session : Preview!Sessions \union {NoSession},
         sandbox : Sandboxes \union {NoSession}, step : 0 .. Len(Preview!Pipeline("run")) + 1, cause : Preview!Causes]
SessionRow == [status : {"none", "PROVISIONING", "VALIDATING", "READY", "TERMINATED", "FAILED"},
        sandbox : Sandboxes \union {NoSession}]
Shown == [status : {"none", "READY", "STOPPED"}, sandbox : Sandboxes \union {NoSession}]

Works(w) == validation[w].pc # "idle"
OfRun(w) == Works(w) /\ validation[w].kind = "run"
Reopening(w) == Works(w) /\ validation[w].kind = "reopen"
Published == {"complete", "revoke"}
HasSession == {"restore", "steps", "put", "ready"} \union Published
HoldsSandbox == {"session"} \union HasSession
Ended == {"unwind", "after"}

\* The executions of a run are of different versions, none newer than its newest job,
\* which is active while the one of its version works.
RunsApart ==
    /\ job.version <= run.version
    /\ \A w \in Validators : OfRun(w) =>
          /\ validation[w].version \in 1 .. job.version
          /\ validation[w].attempt \in 1 .. MaxAttempts
          /\ validation[w].version = job.version => job.state = "active"
    /\ \A v, w \in Validators :
          OfRun(v) /\ OfRun(w) /\ validation[v].version = validation[w].version => v = w

\* A reopen has the project's reopen job, and what is reopened is a run that is over.
OneReopen ==
    /\ \A w \in Validators : ~ Works(w) => validation[w] = Preview!Idle
    /\ \A w \in Validators : Reopening(w) => reopen = "active"
    /\ \A v, w \in Validators : Reopening(v) /\ Reopening(w) => v = w
    /\ reopen # "none" => run.status = "COMPLETED"

\* What an execution has at each step: its sandbox, alive unless it timed out, and its
\* session.
Holding(w) ==
    LET x == validation[w] IN
    /\ x.pc \in {"create", "session"} => x.session = NoSession
    /\ x.pc = "create" => x.sandbox = NoSession
    /\ x.sandbox # NoSession => sandbox[x.sandbox] # "none"
    /\ x.pc \in HoldsSandbox => x.sandbox # NoSession /\ (x.sandbox \notin expired => sandbox[x.sandbox] = "alive")
    /\ x.pc = "after" /\ x.sandbox # NoSession => sandbox[x.sandbox] = "dead"
    /\ x.pc \in HasSession => x.session # NoSession
    /\ x.session # NoSession => recorded[x.session].status # "none"
    /\ x.session # NoSession => x.session \in (IF x.kind = "run" THEN Preview!RunSessions ELSE Preview!ReopenSessions)
    /\ x.pc \in Published => x.kind = "run"
    /\ x.pc = "steps" => x.step \in 1 .. Len(Preview!Pipeline(x.kind))
    /\ x.kind = "reopen" /\ x.pc \in HasSession => preview[x.session].status = "none"

\* What stands under the session of an execution that has it alone: the gating steps
\* behind it, and once it has published, its target and its preview.
Stands(w) ==
    LET x == validation[w] IN
    /\ x.pc \in {"ready"} \union Published /\ x.sandbox \notin expired => store[x.session] = x.sandbox
    /\ x.pc \in Published => preview[x.session].status = "READY" /\ preview[x.session].sandbox = x.sandbox
    /\ x.kind = "run" /\ x.pc = "steps" => \A i \in 1 .. x.step - 1 :
          Preview!Pipeline("run")[i] \in Preview!Gating => command[x.session][Preview!Pipeline("run")[i]] = "SUCCEEDED"
    /\ x.kind = "run" /\ x.pc \in {"put", "ready"} \union Published =>
          \A n \in Preview!Gating : command[x.session][n] = "SUCCEEDED"

\* The newest publisher's preview is its own, whoever shares its session.
PublishesItsOwn(w) ==
    LET x == validation[w] IN
    x.pc = "complete" /\ Preview!Holds(w) => preview[x.session].sandbox = x.sandbox

\* Two executions share no sandbox, and a session only if it is contested.
Apart ==
    /\ \A v, w \in Validators :
          v # w => /\ validation[v].sandbox # NoSession => validation[v].sandbox # validation[w].sandbox
                   /\ validation[v].session # NoSession /\ validation[v].session = validation[w].session =>
                         validation[v].session \in contested
    /\ contested \subseteq Preview!RunSessions

\* The previews: whose sandbox they show, and who may still take a live one down.
Shows(s) ==
    /\ preview[s].sandbox \in Sandboxes /\ sandbox[preview[s].sandbox] = "alive"
    /\ store[s] = preview[s].sandbox
    /\ \A w \in Validators : validation[w].session = s => validation[w].pc \in Published
    /\ s \in Preview!RunSessions => \A n \in Preview!Gating : command[s][n] = "SUCCEEDED"
Shown1(s) ==
    /\ preview[s].sandbox # NoSession => sandbox[preview[s].sandbox] # "none"
    /\ \A w \in Validators :
          validation[w].sandbox # NoSession /\ preview[s].sandbox = validation[w].sandbox => validation[w].session = s
    /\ s \in Preview!ReopenSessions /\ recorded[s].status = "none" => preview[s].status = "none"
    /\ s \in Preview!RunSessions /\ Preview!Live(s) /\ s \notin unheard =>
          \/ run.status = "COMPLETED"
          \/ \E w \in Validators : validation[w].pc \in Published /\ validation[w].session = s
    /\ Preview!Live(s) /\ Preview!Trusted(s) => Shows(s)

\* While the run is not over, a sandbox that lives is an execution's.
Paid(b) ==
    \/ \E w \in Validators : validation[w].sandbox = b
    \/ b \in unheard
    \/ /\ run.status = "COMPLETED"
       /\ \E s \in Preview!Sessions : preview[s].sandbox = b /\ (Preview!Live(s) \/ s \in contested)

Opening == \E w \in Validators : Preview!Kind(w, "reopen") /\ validation[w].pc \in {"create", "session"}
Coming == IF reopen = "waiting" \/ Opening THEN 1 ELSE 0
Numbered ==
    \E n \in 0 .. ReopenBound :
        /\ \A s \in Preview!ReopenSessions : recorded[s].status # "none" <=> s < Preview!FirstReopen + n
        /\ n + Coming <= asked

PreviewInv ==
    /\ Preview!TypeOK /\ RunsApart /\ OneReopen /\ Apart /\ Numbered
    /\ \A w \in Validators : Holding(w) /\ PublishesItsOwn(w)
    /\ \A w \in Validators : validation[w].session \notin contested => Stands(w)
    /\ \A s \in Preview!Sessions : Shown1(s)
    /\ \A b \in expired : sandbox[b] = "dead"
    /\ \A b \in Sandboxes : sandbox[b] = "alive" => Paid(b)

-----------------------------------------------------------------------------
(* The pipelines and the sessions *)

StepNames == {"install", "prisma-validate", "lint", "typecheck", "test", "build", "db-start", "db-migrate",
              "db-seed", "preview-start", "preview-health", "acceptance"}

LEMMA RunPipeline ==
    LET p == Preview!Pipeline("run") IN
    /\ Len(p) = 12
    /\ p[1] = "install" /\ p[2] = "prisma-validate" /\ p[3] = "lint" /\ p[4] = "typecheck"
    /\ p[5] = "test"
    /\ p[6] = "build" /\ p[7] = "db-start" /\ p[8] = "db-migrate" /\ p[9] = "db-seed"
    /\ p[10] = "preview-start" /\ p[11] = "preview-health" /\ p[12] = "acceptance"
<1> DEFINE e == <<"acceptance">>
           a == Preview!Checks \o Preview!DatabaseSteps
           b == a \o Preview!PreviewSteps
           c == b \o e
<1>1. /\ Preview!Checks \in Seq(StepNames) /\ Preview!DatabaseSteps \in Seq(StepNames)
      /\ Preview!PreviewSteps \in Seq(StepNames)
      /\ e \in Seq(StepNames)
  BY DEF Preview!Checks, Preview!DatabaseSteps, Preview!PreviewSteps, StepNames
<1>2. /\ Len(Preview!Checks) = 6 /\ Len(Preview!DatabaseSteps) = 3
      /\ Len(Preview!PreviewSteps) = 2 /\ Len(e) = 1
  BY DEF Preview!Checks, Preview!DatabaseSteps, Preview!PreviewSteps
<1>3. /\ Preview!Checks[1] = "install" /\ Preview!Checks[2] = "prisma-validate"
      /\ Preview!Checks[3] = "lint"
      /\ Preview!Checks[4] = "typecheck" /\ Preview!Checks[5] = "test"
      /\ Preview!Checks[6] = "build"
  BY DEF Preview!Checks
<1>4. /\ Preview!DatabaseSteps[1] = "db-start" /\ Preview!DatabaseSteps[2] = "db-migrate"
      /\ Preview!DatabaseSteps[3] = "db-seed"
      /\ Preview!PreviewSteps[1] = "preview-start" /\ Preview!PreviewSteps[2] = "preview-health"
      /\ e[1] = "acceptance"
  BY DEF Preview!DatabaseSteps, Preview!PreviewSteps
<1>a. a = Preview!Checks \o Preview!DatabaseSteps
  OBVIOUS
<1>b. b = a \o Preview!PreviewSteps
  OBVIOUS
<1>c. c = b \o e
  OBVIOUS
<1> HIDE DEF e, a, b, c
<1>5. /\ a \in Seq(StepNames) /\ Len(a) = Len(Preview!Checks) + Len(Preview!DatabaseSteps)
      /\ \A i \in 1 .. Len(Preview!Checks) : a[i] = Preview!Checks[i]
      /\ \A i \in 1 .. Len(Preview!DatabaseSteps) : a[Len(Preview!Checks) + i] = Preview!DatabaseSteps[i]
  BY <1>1, <1>a
<1>6. /\ b \in Seq(StepNames) /\ Len(b) = Len(a) + Len(Preview!PreviewSteps)
      /\ \A i \in 1 .. Len(a) : b[i] = a[i]
      /\ \A i \in 1 .. Len(Preview!PreviewSteps) : b[Len(a) + i] = Preview!PreviewSteps[i]
  <2>1. a \in Seq(StepNames)
    BY <1>5
  <2>2. QED
    BY <1>1, <2>1, <1>b
<1>7. /\ c \in Seq(StepNames) /\ Len(c) = Len(b) + Len(e)
      /\ \A i \in 1 .. Len(b) : c[i] = b[i]
      /\ \A i \in 1 .. Len(e) : c[Len(b) + i] = e[i]
  <2>1. b \in Seq(StepNames)
    BY <1>6
  <2>2. QED
    BY <1>1, <2>1, <1>c
<1>8. Len(a) = 9 /\ Len(b) = 11 /\ Len(c) = 12
  BY <1>2, <1>5, <1>6, <1>7
<1>9. /\ a[1] = "install" /\ a[2] = "prisma-validate" /\ a[3] = "lint" /\ a[4] = "typecheck"
      /\ a[5] = "test" /\ a[6] = "build"
      /\ a[6 + 1] = "db-start" /\ a[6 + 2] = "db-migrate" /\ a[6 + 3] = "db-seed"
  BY <1>2, <1>3, <1>4, <1>5
<1>10. b[9 + 1] = "preview-start" /\ b[9 + 2] = "preview-health" /\ c[11 + 1] = "acceptance"
  BY <1>2, <1>4, <1>6, <1>7, <1>8
<1>11. (\A i \in 1 .. 9 : b[i] = a[i]) /\ (\A i \in 1 .. 11 : c[i] = b[i])
  BY <1>6, <1>7, <1>8
<1>12. Preview!Pipeline("run") = c
  BY DEF Preview!Pipeline, a, b, c, e
<1>13. QED
  BY <1>8, <1>9, <1>10, <1>11, <1>12

LEMMA ReopenPipeline ==
    LET p == Preview!Pipeline("reopen") IN
    /\ Len(p) = 7
    /\ p[1] = "install" /\ p[2] = "build" /\ p[3] = "db-start" /\ p[4] = "db-migrate"
    /\ p[5] = "db-seed"
    /\ p[6] = "preview-start" /\ p[7] = "preview-health"
<1> DEFINE a == <<"install", "build">>
           b == a \o Preview!DatabaseSteps
           c == b \o Preview!PreviewSteps
<1>1. /\ a \in Seq(StepNames) /\ Preview!DatabaseSteps \in Seq(StepNames)
      /\ Preview!PreviewSteps \in Seq(StepNames)
  BY DEF Preview!DatabaseSteps, Preview!PreviewSteps, StepNames
<1>2. Len(a) = 2 /\ Len(Preview!DatabaseSteps) = 3 /\ Len(Preview!PreviewSteps) = 2
  BY DEF Preview!DatabaseSteps, Preview!PreviewSteps
<1>3. /\ a[1] = "install" /\ a[2] = "build"
      /\ Preview!DatabaseSteps[1] = "db-start" /\ Preview!DatabaseSteps[2] = "db-migrate"
      /\ Preview!DatabaseSteps[3] = "db-seed"
      /\ Preview!PreviewSteps[1] = "preview-start" /\ Preview!PreviewSteps[2] = "preview-health"
  BY DEF Preview!DatabaseSteps, Preview!PreviewSteps
<1>b. b = a \o Preview!DatabaseSteps
  OBVIOUS
<1>c. c = b \o Preview!PreviewSteps
  OBVIOUS
<1> HIDE DEF a, b, c
<1>4. /\ b \in Seq(StepNames) /\ Len(b) = Len(a) + Len(Preview!DatabaseSteps)
      /\ \A i \in 1 .. Len(a) : b[i] = a[i]
      /\ \A i \in 1 .. Len(Preview!DatabaseSteps) : b[Len(a) + i] = Preview!DatabaseSteps[i]
  BY <1>1, <1>b
<1>5. /\ c \in Seq(StepNames) /\ Len(c) = Len(b) + Len(Preview!PreviewSteps)
      /\ \A i \in 1 .. Len(b) : c[i] = b[i]
      /\ \A i \in 1 .. Len(Preview!PreviewSteps) : c[Len(b) + i] = Preview!PreviewSteps[i]
  <2>1. b \in Seq(StepNames)
    BY <1>4
  <2>2. QED
    BY <1>1, <2>1, <1>c
<1>6. Len(b) = 5 /\ Len(c) = 7
  BY <1>2, <1>4, <1>5
<1>7. /\ b[1] = "install" /\ b[2] = "build" /\ b[2 + 1] = "db-start" /\ b[2 + 2] = "db-migrate"
      /\ b[2 + 3] = "db-seed"
  BY <1>2, <1>3, <1>4
<1>8. c[5 + 1] = "preview-start" /\ c[5 + 2] = "preview-health" /\ \A i \in 1 .. 5 : c[i] = b[i]
  BY <1>2, <1>3, <1>5, <1>6
<1>9. Preview!Pipeline("reopen") = c
  BY DEF Preview!Pipeline, a, b, c
<1>10. QED
  BY <1>6, <1>7, <1>8, <1>9

LEMMA GatingNames ==
    Preview!Gating = {"install", "prisma-validate", "lint", "typecheck", "test", "build", "preview-health"}
<1>1. DOMAIN Preview!Checks = 1 .. 6
  BY DEF Preview!Checks
<1>2. /\ Preview!Checks[1] = "install" /\ Preview!Checks[2] = "prisma-validate"
      /\ Preview!Checks[3] = "lint"
      /\ Preview!Checks[4] = "typecheck" /\ Preview!Checks[5] = "test"
      /\ Preview!Checks[6] = "build"
  BY DEF Preview!Checks
<1>3. \A i : i \in 1 .. 6 <=> i \in {1, 2, 3, 4, 5, 6}
  OBVIOUS
<1>4. {Preview!Checks[i] : i \in DOMAIN Preview!Checks} = {"install", "prisma-validate", "lint", "typecheck", "test", "build"}
  BY <1>1, <1>2, <1>3
<1>5. QED
  BY <1>4 DEF Preview!Gating

\* Where the pipeline goes on, and that what it leaves out does not gate.
LEMMA StepsFollow ==
    ASSUME NEW kind \in {"run", "reopen"}, NEW i \in 1 .. Len(Preview!Pipeline(kind)), NEW ok \in BOOLEAN
    PROVE  /\ Preview!NextStep(kind, i, ok) \in i + 1 .. Len(Preview!Pipeline(kind)) + 1
           /\ Len(Preview!Pipeline(kind)) \in 1 .. Len(Preview!Pipeline("run"))
           /\ kind = "run" => \A j \in i .. Preview!NextStep("run", i, ok) - 1 : Preview!Pipeline("run")[j] \in Preview!Gating => j = i
<1>1. CASE kind = "run"
  <2>1. Len(Preview!Pipeline("run")) = 12 /\ i \in 1 .. 12
    BY <1>1, RunPipeline
  <2>2. /\ Preview!Pipeline("run")[i] = "db-start" => i = 7
        /\ Preview!Pipeline("run")[i] = "db-migrate" => i = 8
    BY <2>1, RunPipeline
  <2>3. \A j \in 8 .. 9 : Preview!Pipeline("run")[j] \notin Preview!Gating
    BY RunPipeline, GatingNames
  <2>4. QED
    BY <1>1, <2>1, <2>2, <2>3, SMTT(60) DEF Preview!NextStep
<1>2. CASE kind = "reopen"
  <2>1. Len(Preview!Pipeline("reopen")) = 7 /\ i \in 1 .. 7
    BY <1>2, ReopenPipeline
  <2>2. /\ Preview!Pipeline("reopen")[i] = "db-start" => i = 3
        /\ Preview!Pipeline("reopen")[i] = "db-migrate" => i = 4
    BY <2>1, ReopenPipeline
  <2>3. Preview!NextStep("reopen", i, ok) \in i + 1 .. 8
    BY <2>1, <2>2 DEF Preview!NextStep
  <2>4. 7 + 1 = 8 /\ 7 \in 1 .. 12 /\ Len(Preview!Pipeline("run")) = 12
    BY RunPipeline
  <2>5. QED
    BY <1>2, <2>1, <2>3, <2>4, Zenon
<1>3. QED
  BY <1>1, <1>2

LEMMA EveryGateIsAStep == \A n \in Preview!Gating : \E i \in 1 .. Len(Preview!Pipeline("run")) : Preview!Pipeline("run")[i] = n
BY RunPipeline, GatingNames, SMTT(60)

LEMMA SessionsAreApart ==
    ASSUME Preview!PreviewSessionAssumption
    PROVE  /\ \A s \in Preview!RunSessions : s \in Nat /\ s < Preview!FirstReopen /\ s \in Preview!Sessions
           /\ \A s \in Preview!ReopenSessions : s \in Nat /\ s >= Preview!FirstReopen /\ s \in Preview!Sessions
           /\ \A a \in 1 .. MaxAttempts, r \in 0 .. MaxRepairs : a + r * Preview!Stride \in Preview!RunSessions
           /\ NoSession \notin Sandboxes /\ NoSession \notin Preview!Sessions
           /\ \A b \in Sandboxes : b \notin Preview!Sessions
<1>1. /\ MaxAttempts \in 1 .. 99 /\ MaxRepairs \in 0 .. 9 /\ NoSession \notin Sandboxes
      /\ ReopenBound \in Nat
  BY DEF Preview!PreviewSessionAssumption
<1>2. \A a \in 1 .. MaxAttempts, r \in 0 .. MaxRepairs : a + r * 100 \in Nat /\ a + r * 100 < 1001
  BY <1>1
<1>3. \A s \in Preview!RunSessions : s \in Nat /\ s < Preview!FirstReopen /\ s \in Preview!Sessions
  BY <1>2 DEF Preview!RunSessions, Preview!Sessions, Preview!FirstReopen, Preview!Stride
<1>4. \A s \in Preview!ReopenSessions : s \in Nat /\ s >= Preview!FirstReopen /\ s \in Preview!Sessions
  BY <1>1 DEF Preview!ReopenSessions, Preview!Sessions, Preview!FirstReopen
<1>5. \A a \in 1 .. MaxAttempts, r \in 0 .. MaxRepairs : a + r * Preview!Stride \in Preview!RunSessions
  BY DEF Preview!RunSessions
<1>6. NoSession \notin Preview!Sessions
  BY <1>3, <1>4 DEF Preview!Sessions, Preview!PreviewSessionAssumption
<1>7. \A b \in Sandboxes : b \notin Preview!Sessions
  BY <1>3, <1>4 DEF Preview!Sessions, Preview!PreviewSessionAssumption
<1>8. QED
  BY <1>1, <1>3, <1>4, <1>5, <1>6, <1>7

-----------------------------------------------------------------------------
(* What a step has to show *)

\* The instance the properties are claimed of: a process does not die, and the calls
\* of a cleanup succeed.
Careful == CrashBound = 0 /\ ~ CleanupFails

LEMMA IdleIs ==
    ASSUME Preview!PreviewSessionAssumption
    PROVE  LET x == Preview!Idle IN
           /\ x \in Exec /\ x.pc = "idle" /\ x.kind = "run" /\ x.session = NoSession /\ x.sandbox = NoSession
BY RunPipeline DEF Preview!PreviewSessionAssumption, Preview!Idle, Exec, Preview!Pcs, Preview!Causes

LEMMA OfWorker ==
    ASSUME PreviewInv
    PROVE  /\ validation \in [Validators -> Exec]
           /\ sandbox \in [Sandboxes -> {"none", "alive", "dead"}] /\ recorded \in [Preview!Sessions -> SessionRow]
           /\ command \in [Preview!Sessions -> [Preview!Gating -> {"none", "SUCCEEDED", "FAILED"}]]
           /\ preview \in [Preview!Sessions -> Shown]
           /\ store \in [Preview!Sessions -> Sandboxes \union {NoSession}]
           /\ \A b \in expired : b \in Sandboxes /\ sandbox[b] = "dead"
           /\ contested \subseteq Preview!RunSessions
BY DEF PreviewInv, Preview!TypeOK, Exec, SessionRow, Shown, Apart

\* What an execution knows of itself.
LEMMA ItsOwn ==
    ASSUME Preview!PreviewSessionAssumption, PreviewInv, NEW w \in Validators
    PROVE  LET x == validation[w] IN
           /\ x \in Exec /\ Holding(w) /\ PublishesItsOwn(w)
           /\ x.session \notin contested => Stands(w)
           /\ x.sandbox \in Sandboxes \union {NoSession} /\ x.session \in Preview!Sessions \union {NoSession}
           /\ NoSession \notin Sandboxes /\ NoSession \notin Preview!Sessions /\ NoSession \notin contested
           /\ x.session # NoSession => x.session \in (IF x.kind = "run" THEN Preview!RunSessions ELSE Preview!ReopenSessions)
<1>1. validation[w] \in Exec /\ Holding(w) /\ PublishesItsOwn(w) /\ (validation[w].session \notin contested => Stands(w))
  BY OfWorker DEF PreviewInv
<1>2. NoSession \notin Sandboxes /\ NoSession \notin Preview!Sessions /\ Preview!RunSessions \subseteq Preview!Sessions
  BY SessionsAreApart
<1>3. QED
  BY <1>1, <1>2, OfWorker DEF Exec, Holding

\* A step of one execution, which becomes x, and what it leaves to the others.
Touches(w, x) ==
    /\ validation' = [validation EXCEPT ![w] = x]
    /\ UNCHANGED <<expired, asked, crashes>>
    /\ x.sandbox \in {NoSession, validation[w].sandbox} \/ sandbox[x.sandbox] = "none"
    /\ \/ x.session \in {NoSession, validation[w].session}
       \/ \A v \in Validators : validation[v].session = x.session => x.session \in contested'
    /\ \A b \in Sandboxes \ {validation[w].sandbox} : sandbox[b] # "none" => sandbox'[b] = sandbox[b]
    /\ \A b \in Sandboxes : (sandbox[b] # "none" => sandbox'[b] \in {sandbox[b], "dead"}) /\ (b \in unheard => b \in unheard')
    /\ \A s \in Preview!Sessions \ {validation[w].session} :
          /\ store'[s] = store[s] /\ preview'[s] = preview[s] /\ command'[s] = command[s]
          /\ s \in unheard' <=> s \in unheard
    /\ \A s \in Preview!Sessions \ {x.session} : s \in contested' <=> s \in contested
    /\ \A v \in Validators : validation[v].session \in contested => validation[v].session \in contested'
    /\ contested' \subseteq Preview!RunSessions
    /\ \A s \in Preview!Sessions : recorded[s].status # "none" => recorded'[s].status # "none"

\* It is still the same execution.
GoesOnAs(w, x) ==
    /\ x.pc # "idle" /\ x.kind = validation[w].kind
    /\ x.version = validation[w].version /\ x.attempt = validation[w].attempt

LEMMA OtherExecutionsKeep ==
    ASSUME Preview!PreviewSessionAssumption, PreviewInv, NEW w \in Validators, NEW x \in Exec, Touches(w, x),
           NEW v \in Validators \ {w}
    PROVE  /\ validation'[v] = validation[v] /\ Holding(v)'
           /\ validation'[v].session \notin contested' => Stands(v)'
<1> DEFINE y == validation[v]
<1>1. validation'[v] = y /\ validation'[w] = x
  BY OfWorker DEF Touches
<1>2. /\ y \in Exec /\ Holding(v) /\ (y.session \notin contested => Stands(v))
      /\ y.sandbox \in Sandboxes \union {NoSession} /\ y.session \in Preview!Sessions \union {NoSession}
      /\ y.session # NoSession => y.session \in (IF y.kind = "run" THEN Preview!RunSessions ELSE Preview!ReopenSessions)
  BY ItsOwn
<1>3. /\ y.sandbox # NoSession => y.sandbox # validation[w].sandbox
      /\ y.session # NoSession /\ y.session = validation[w].session => y.session \in contested
  BY DEF PreviewInv, Apart
<1>4. y.sandbox # NoSession => sandbox[y.sandbox] # "none" /\ sandbox'[y.sandbox] = sandbox[y.sandbox]
  BY <1>2, <1>3 DEF Touches, Holding
<1>5. y.session # NoSession => recorded'[y.session].status # "none"
  BY <1>2 DEF Touches, Holding
<1>6. y.session # NoSession /\ y.kind = "reopen" => preview'[y.session] = preview[y.session]
  <2>1. y.session # NoSession /\ y.kind = "reopen" => y.session \notin contested
    BY <1>2, OfWorker, SessionsAreApart DEF Preview!FirstReopen
  <2>2. QED
    BY <1>2, <1>3, <2>1 DEF Touches
<1>7. expired' = expired
  BY DEF Touches
<1>8. Holding(v)'
  BY <1>1, <1>2, <1>4, <1>5, <1>6, <1>7 DEF Holding, HoldsSandbox, HasSession, Published
<1>9. ASSUME y.session \notin contested' PROVE Stands(v)'
  <2>1. y.session \notin contested
    BY <1>9 DEF Touches
  <2>2. CASE y.session = NoSession
    <3>1. y.pc \notin HasSession
      BY <1>2, <2>2 DEF Holding
    <3>2. QED
      BY <1>1, <3>1 DEF Stands, HasSession, Published
  <2>3. CASE y.session # NoSession
    <3>1. y.session \in Preview!Sessions \ {validation[w].session}
      BY <1>2, <1>3, <2>1, <2>3
    <3>2. /\ store'[y.session] = store[y.session] /\ preview'[y.session] = preview[y.session]
          /\ command'[y.session] = command[y.session]
      BY <3>1 DEF Touches
    <3>3. QED
      BY <1>1, <1>2, <1>7, <2>1, <3>2 DEF Stands
  <2>4. QED
    BY <2>2, <2>3
<1>10. QED
  BY <1>1, <1>8, <1>9

LEMMA ApartStays ==
    ASSUME Preview!PreviewSessionAssumption, PreviewInv, NEW w \in Validators, NEW x \in Exec, Touches(w, x)
    PROVE  Apart'
<1>1. /\ \A v \in Validators \ {w} : validation'[v] = validation[v]
      /\ validation'[w] = x
  BY OfWorker, OtherExecutionsKeep DEF Touches
<1>2. Apart /\ contested' \subseteq Preview!RunSessions
  BY DEF PreviewInv, Touches
<1>3. ASSUME NEW v \in Validators \ {w}
      PROVE  /\ x.sandbox # NoSession => validation[v].sandbox # x.sandbox
             /\ validation[v].session # NoSession /\ validation[v].session = x.session => x.session \in contested'
  <2>1. validation[v].sandbox # NoSession => sandbox[validation[v].sandbox] # "none"
    BY ItsOwn DEF Holding
  <2>2. x.sandbox # NoSession => validation[v].sandbox # x.sandbox
    BY <1>2, <2>1 DEF Touches, Apart
  <2>3. validation[v].session # NoSession /\ validation[v].session = x.session => x.session \in contested'
    BY <1>2 DEF Touches, Apart
  <2>4. QED
    BY <2>2, <2>3
<1>4. ASSUME NEW u \in Validators \ {w}, NEW v \in Validators \ {w}, u # v
      PROVE  /\ validation[u].sandbox # NoSession => validation[u].sandbox # validation[v].sandbox
             /\ validation[u].session # NoSession /\ validation[u].session = validation[v].session =>
                   validation[u].session \in contested'
  BY <1>2, <1>4 DEF Apart, Touches
<1>5. QED
  BY <1>1, <1>2, <1>3, <1>4 DEF Apart

\* The previews of the sessions a step is not about.
LEMMA OtherPreviews ==
    ASSUME Preview!PreviewSessionAssumption, PreviewInv, NEW w \in Validators, NEW x \in Exec, Touches(w, x),
           run.status = "COMPLETED" => run'.status = "COMPLETED",
           NEW s \in Preview!Sessions, s # validation[w].session, s # x.session
    PROVE  Shown1(s)'
<1>1. /\ \A v \in Validators \ {w} : validation'[v] = validation[v]
      /\ validation'[w] = x /\ expired' = expired
  BY OfWorker, OtherExecutionsKeep DEF Touches
<1>2. /\ store'[s] = store[s] /\ preview'[s] = preview[s] /\ command'[s] = command[s]
      /\ s \in unheard' <=> s \in unheard
      /\ s \in contested' <=> s \in contested
      /\ recorded[s].status # "none" => recorded'[s].status # "none"
  BY DEF Touches
<1>3. Shown1(s) /\ preview[s].sandbox \in Sandboxes \union {NoSession}
  BY OfWorker DEF PreviewInv, Shown
<1>4. preview[s].sandbox # NoSession => /\ preview[s].sandbox # validation[w].sandbox
                                        /\ sandbox[preview[s].sandbox] # "none"
                                        /\ sandbox'[preview[s].sandbox] = sandbox[preview[s].sandbox]
  <2>1. ASSUME preview[s].sandbox # NoSession
        PROVE  preview[s].sandbox # validation[w].sandbox /\ sandbox[preview[s].sandbox] # "none"
    BY <1>3, <2>1 DEF Shown1
  <2>2. QED
    BY <1>3, <2>1 DEF Touches
<1>5. x.sandbox # NoSession => preview[s].sandbox # x.sandbox
  BY <1>4 DEF Touches
<1>6. Preview!Live(s)' <=> Preview!Live(s)
  BY <1>1, <1>2 DEF Preview!Live
<1>7. Preview!Trusted(s)' <=> Preview!Trusted(s)
  BY <1>2 DEF Preview!Trusted
<1>8. Shows(s) /\ Preview!Live(s) => Shows(s)'
  <2>1. SUFFICES ASSUME Shows(s) PROVE Shows(s)'
    OBVIOUS
  <2>2. preview[s].sandbox # NoSession
    BY <2>1, SessionsAreApart DEF Shows
  <2>3. \A v \in Validators : validation'[v].session = s => validation'[v].pc \in Published
    BY <1>1, <2>1 DEF Shows
  <2>4. QED
    BY <1>2, <1>4, <2>1, <2>2, <2>3 DEF Shows
<1>9. /\ preview'[s].sandbox # NoSession => sandbox'[preview'[s].sandbox] # "none"
      /\ \A v \in Validators : validation'[v].sandbox # NoSession /\ preview'[s].sandbox = validation'[v].sandbox =>
            validation'[v].session = s
      /\ s \in Preview!ReopenSessions /\ recorded'[s].status = "none" => preview'[s].status = "none"
  BY <1>1, <1>2, <1>3, <1>4, <1>5 DEF Shown1
<1>10. s \in Preview!RunSessions /\ Preview!Live(s)' /\ s \notin unheard' =>
          \/ run'.status = "COMPLETED"
          \/ \E v \in Validators : validation'[v].pc \in Published /\ validation'[v].session = s
  <2>1. \A v \in Validators : validation[v].session = s => v # w /\ validation'[v] = validation[v]
    BY <1>1
  <2>2. QED
    BY <1>2, <1>3, <1>6, <2>1 DEF Shown1
<1>11. Preview!Live(s)' /\ Preview!Trusted(s)' => Shows(s)'
  BY <1>3, <1>6, <1>7, <1>8 DEF Shown1
<1>12. QED
  BY <1>9, <1>10, <1>11 DEF Shown1

\* Who pays for the sandboxes of the others, when a step leaves the previews behind them.
LEMMA OthersArePaid ==
    ASSUME Preview!PreviewSessionAssumption, PreviewInv, NEW w \in Validators, NEW x \in Exec, Touches(w, x),
           NEW b \in Sandboxes, sandbox'[b] = "alive", sandbox[b] = "alive", b # validation[w].sandbox,
           run.status = "COMPLETED" => run'.status = "COMPLETED",
           run.status = "COMPLETED" =>
              \A s \in Preview!Sessions : preview[s].sandbox = b /\ (Preview!Live(s) \/ s \in contested) =>
                 preview'[s].sandbox = b /\ (Preview!Live(s)' \/ s \in contested')
    PROVE  Paid(b)'
<1>1. \A v \in Validators \ {w} : validation'[v] = validation[v]
  BY OtherExecutionsKeep
<1>2. Paid(b)
  BY DEF PreviewInv
<1>3. CASE \E v \in Validators : validation[v].sandbox = b
  BY <1>1, <1>3 DEF Paid
<1>4. CASE b \in unheard
  BY <1>4 DEF Paid, Touches
<1>5. CASE /\ run.status = "COMPLETED"
           /\ \E s \in Preview!Sessions : preview[s].sandbox = b /\ (Preview!Live(s) \/ s \in contested)
  BY <1>5 DEF Paid
<1>6. QED
  BY <1>2, <1>3, <1>4, <1>5 DEF Paid

\* The run and the jobs, as long as a step leaves them.
LEMMA QueueStays ==
    ASSUME Preview!PreviewSessionAssumption, PreviewInv, NEW w \in Validators, NEW x \in Exec, Touches(w, x),
           UNCHANGED <<run, job, reopen>>, Works(w), x = Preview!Idle \/ GoesOnAs(w, x)
    PROVE  RunsApart' /\ OneReopen'
<1>1. /\ \A v \in Validators \ {w} : validation'[v] = validation[v]
      /\ validation'[w] = x
  BY OfWorker, OtherExecutionsKeep DEF Touches
<1>2. RunsApart /\ OneReopen
  BY DEF PreviewInv
<1>3. CASE x = Preview!Idle
  <2>1. x.pc = "idle"
    BY <1>3, IdleIs
  <2>2. ~ Works(w)' /\ \A v \in Validators \ {w} : (OfRun(v)' <=> OfRun(v)) /\ (Reopening(v)' <=> Reopening(v))
    BY <1>1, <2>1 DEF Works, OfRun, Reopening
  <2>3. \A v \in Validators : (OfRun(v)' \/ Reopening(v)') => v # w
    BY <2>2 DEF OfRun, Reopening
  <2>4. RunsApart'
    BY <1>1, <1>2, <2>2, <2>3 DEF RunsApart
  <2>5. OneReopen'
    BY <1>1, <1>2, <1>3, <2>2, <2>3 DEF OneReopen, Works
  <2>6. QED
    BY <2>4, <2>5
<1>4. CASE x # Preview!Idle
  <2>1. x.pc # "idle" /\ x.kind = validation[w].kind /\ x.version = validation[w].version /\ x.attempt = validation[w].attempt
    BY <1>4 DEF GoesOnAs
  <2>2. \A v \in Validators : /\ Works(v)' <=> Works(v)
                              /\ OfRun(v)' <=> OfRun(v)
                              /\ Reopening(v)' <=> Reopening(v)
                              /\ validation'[v].version = validation[v].version
                              /\ validation'[v].attempt = validation[v].attempt
    BY <1>1, <2>1 DEF Works, OfRun, Reopening
  <2>3. RunsApart'
    BY <1>2, <2>2 DEF RunsApart
  <2>4. OneReopen'
    BY <1>1, <1>2, <2>2 DEF OneReopen
  <2>5. QED
    BY <2>3, <2>4
<1>5. QED
  BY <1>3, <1>4

\* The numbers of the reopen sessions, when no session is made and no reopen begins.
LEMMA NumberedStays ==
    ASSUME Preview!PreviewSessionAssumption, PreviewInv, NEW w \in Validators, NEW x \in Exec, Touches(w, x),
           \/ x.pc \notin {"create", "session"} \/ x.kind = "run"
           \/ validation[w].kind = "reopen" /\ validation[w].pc \in {"create", "session"},
           reopen' = "waiting" => reopen = "waiting",
           \A s \in Preview!ReopenSessions : recorded'[s].status # "none" <=> recorded[s].status # "none"
    PROVE  Numbered'
<1>1. /\ \A v \in Validators \ {w} : validation'[v] = validation[v]
      /\ validation'[w] = x
  BY OfWorker, OtherExecutionsKeep DEF Touches
<1>2. Opening' => Opening
  BY <1>1 DEF Opening, Preview!Kind
<1>3. Coming' <= Coming /\ Coming' \in {0, 1} /\ Coming \in {0, 1}
  BY <1>2 DEF Coming
<1>4. PICK n \in 0 .. ReopenBound :
         /\ \A s \in Preview!ReopenSessions : recorded[s].status # "none" <=> s < Preview!FirstReopen + n
         /\ n + Coming <= asked
  BY DEF PreviewInv, Numbered
<1>5. n + Coming' <= asked'
  <2>1. asked \in Nat /\ n \in Nat /\ asked' = asked
    BY DEF PreviewInv, Preview!TypeOK, Preview!PreviewSessionAssumption, Touches
  <2>2. \A c, d \in {0, 1} : d <= c /\ n + c <= asked => n + d <= asked
    BY <2>1
  <2>3. QED
    BY <1>3, <1>4, <2>1, <2>2
<1>6. QED
  BY <1>4, <1>5 DEF Numbered

\* The newest publisher still has its preview: another one that publishes is newer, or
\* reopens.
LEMMA OthersPublishTheirOwn ==
    ASSUME Preview!PreviewSessionAssumption, PreviewInv, NEW w \in Validators, NEW x \in Exec, Touches(w, x),
           run'.status = "RUNNING" => run' = run,
           \/ OfRun(w) /\ Preview!Holds(w)
           \/ \A s \in Preview!RunSessions : preview'[s].sandbox = preview[s].sandbox,
           NEW v \in Validators \ {w}
    PROVE  PublishesItsOwn(v)'
<1>1. validation'[v] = validation[v]
  BY OtherExecutionsKeep
<1>2. SUFFICES ASSUME validation[v].pc = "complete", Preview!Holds(v)' PROVE preview'[validation[v].session].sandbox = validation[v].sandbox
  BY <1>1 DEF PublishesItsOwn
<1>3. Preview!Holds(v)
  BY <1>1, <1>2 DEF Preview!Holds
<1>4. preview[validation[v].session].sandbox = validation[v].sandbox
  BY <1>2, <1>3, ItsOwn DEF PublishesItsOwn
<1>5. /\ validation[v].kind = "run" /\ validation[v].session \in Preview!RunSessions
  BY <1>2, ItsOwn DEF Holding, Published, HasSession
<1>6. OfRun(v)
  BY <1>2, <1>5 DEF OfRun, Works
<1>7. ~ (OfRun(w) /\ Preview!Holds(w))
  BY <1>3, <1>6 DEF PreviewInv, RunsApart, Preview!Holds
<1>8. QED
  BY <1>4, <1>5, <1>7

LEMMA WorkerKeeps ==
    ASSUME Preview!PreviewSessionAssumption, PreviewInv, NEW w \in Validators, NEW x \in Exec, Touches(w, x),
           Preview!TypeOK', RunsApart', OneReopen', Numbered',
           run'.status = "RUNNING" => run' = run,
           run.status = "COMPLETED" => run'.status = "COMPLETED",
           \/ OfRun(w) /\ Preview!Holds(w)
           \/ \A s \in Preview!RunSessions : preview'[s].sandbox = preview[s].sandbox,
           x # Preview!Idle => Holding(w)' /\ PublishesItsOwn(w)' /\ (x.session \notin contested' => Stands(w)'),
           \A s \in {validation[w].session, x.session} : s # NoSession => Shown1(s)',
           \A b \in Sandboxes : sandbox'[b] = "alive" /\ (b = validation[w].sandbox \/ sandbox[b] # "alive") => Paid(b)',
           run.status = "COMPLETED" =>
              \A s \in Preview!Sessions :
                 preview[s].sandbox # validation[w].sandbox /\ (Preview!Live(s) \/ s \in contested) =>
                    preview'[s].sandbox = preview[s].sandbox /\ (Preview!Live(s)' \/ s \in contested')
    PROVE  PreviewInv'
<1>1. /\ \A v \in Validators \ {w} : validation'[v] = validation[v]
      /\ validation'[w] = x /\ expired' = expired
  BY OfWorker, OtherExecutionsKeep DEF Touches
<1>2. Holding(w)' /\ PublishesItsOwn(w)' /\ (validation'[w].session \notin contested' => Stands(w)')
  <2>1. CASE x = Preview!Idle
    <3>1. x.pc = "idle" /\ x.kind = "run" /\ x.session = NoSession /\ x.sandbox = NoSession
      BY <2>1, IdleIs
    <3>2. QED
      BY <1>1, <3>1 DEF Holding, PublishesItsOwn, Stands, HoldsSandbox, HasSession, Published
  <2>2. CASE x # Preview!Idle
    BY <1>1, <2>2
  <2>3. QED
    BY <2>1, <2>2
<1>3. \A v \in Validators : Holding(v)' /\ PublishesItsOwn(v)' /\ (validation'[v].session \notin contested' => Stands(v)')
  BY <1>2, OtherExecutionsKeep, OthersPublishTheirOwn
<1>4. Apart'
  BY ApartStays
<1>5. \A s \in Preview!Sessions : Shown1(s)'
  BY OtherPreviews, SessionsAreApart
<1>6. \A b \in expired' : sandbox'[b] = "dead"
  BY <1>1, OfWorker DEF Touches
<1>7. ASSUME NEW b \in Sandboxes, sandbox'[b] = "alive" PROVE Paid(b)'
  <2>1. CASE b = validation[w].sandbox \/ sandbox[b] # "alive"
    BY <1>7, <2>1
  <2>2. CASE b # validation[w].sandbox /\ sandbox[b] = "alive"
    BY <1>7, <2>2, OthersArePaid
  <2>3. QED
    BY <2>1, <2>2
<1>8. QED
  BY <1>3, <1>4, <1>5, <1>6, <1>7 DEF PreviewInv

\* Before it publishes, an execution has no live preview under a session that is its alone.
LEMMA NotYetShown ==
    ASSUME Preview!PreviewSessionAssumption, PreviewInv, NEW w \in Validators, validation[w].pc \notin Published,
           validation[w].session # NoSession
    PROVE  ~ (Preview!Live(validation[w].session) /\ Preview!Trusted(validation[w].session))
BY ItsOwn DEF PreviewInv, Shown1, Shows

\* The steps of an execution that has not published.
LEMMA MovesOn ==
    ASSUME Preview!PreviewSessionAssumption, PreviewInv, NEW w \in Validators, validation[w].pc \notin Published,
           NEW x \in Exec, Touches(w, x),
           Preview!TypeOK', RunsApart', OneReopen', Numbered',
           run'.status = "RUNNING" => run' = run,
           run.status = "COMPLETED" => run'.status = "COMPLETED",
           UNCHANGED <<preview, contested>>,
           \A s \in Preview!Sessions : s \in unheard' <=> s \in unheard,
           x.session = validation[w].session \/ (x.session = NoSession /\ x.sandbox = NoSession),
           x # Preview!Idle => x.pc \notin Published /\ Holding(w)' /\ (x.session \notin contested => Stands(w)'),
           \A b \in Sandboxes : sandbox'[b] = "alive" /\ (b = validation[w].sandbox \/ sandbox[b] # "alive") =>
              x.sandbox = b \/ b \in unheard'
    PROVE  PreviewInv'
<1>1. /\ \A v \in Validators \ {w} : validation'[v] = validation[v]
      /\ validation'[w] = x /\ expired' = expired
  BY OfWorker, OtherExecutionsKeep DEF Touches
<1>2. \A t \in Preview!Sessions : /\ Preview!Live(t)' <=> Preview!Live(t)
                                  /\ Preview!Trusted(t)' <=> Preview!Trusted(t)
  BY <1>1 DEF Preview!Live, Preview!Trusted
<1>3. x # Preview!Idle => PublishesItsOwn(w)'
  BY <1>1 DEF PublishesItsOwn, Published
<1>4. ASSUME NEW s \in Preview!Sessions, s = validation[w].session PROVE Shown1(s)'
  <2>1. s # NoSession /\ Shown1(s) /\ preview[s].sandbox \in Sandboxes \union {NoSession}
    BY <1>4, ItsOwn, OfWorker DEF PreviewInv, Shown
  <2>2. ~ (Preview!Live(s)' /\ Preview!Trusted(s)')
    BY <1>2, <1>4, <2>1, NotYetShown
  <2>3. preview[s].sandbox # NoSession => sandbox[preview[s].sandbox] # "none" /\ sandbox'[preview[s].sandbox] # "none"
    BY <1>4, <2>1 DEF Shown1, Touches
  <2>4. x.sandbox # NoSession /\ preview[s].sandbox = x.sandbox => x.session = s
    BY <1>4, <2>1, <2>3 DEF Touches
  <2>5. \A v \in Validators :
          validation'[v].sandbox # NoSession /\ preview[s].sandbox = validation'[v].sandbox => validation'[v].session = s
    BY <1>1, <1>4, <2>1, <2>4 DEF Shown1
  <2>6. recorded[s].status # "none" => recorded'[s].status # "none"
    BY <1>4 DEF Touches
  <2>7. s \in Preview!RunSessions /\ Preview!Live(s)' /\ s \notin unheard' =>
          \/ run'.status = "COMPLETED"
          \/ \E v \in Validators : validation'[v].pc \in Published /\ validation'[v].session = s
    BY <1>1, <1>2, <1>4, <2>1 DEF Shown1
  <2>8. QED
    BY <1>4, <2>1, <2>2, <2>3, <2>5, <2>6, <2>7 DEF Shown1
<1>5. \A t \in {validation[w].session, x.session} : t # NoSession => Shown1(t)'
  BY <1>4, ItsOwn
<1>6. ASSUME NEW b \in Sandboxes, sandbox'[b] = "alive", b = validation[w].sandbox \/ sandbox[b] # "alive"
      PROVE  Paid(b)'
  BY <1>1, <1>6 DEF Paid
<1>7. QED
  BY <1>2, <1>3, <1>5, <1>6, WorkerKeeps

\* The same, for the steps that leave the run and the jobs alone.
LEMMA GoesOn ==
    ASSUME Preview!PreviewSessionAssumption, PreviewInv, NEW w \in Validators, Works(w), validation[w].pc \notin Published,
           NEW x \in Exec, Touches(w, x), GoesOnAs(w, x), x.pc \notin Published, x.session = validation[w].session,
           UNCHANGED <<run, job, reopen, preview, answered, contested>>,
           sandbox' \in [Sandboxes -> {"none", "alive", "dead"}],
           recorded' \in [Preview!Sessions -> SessionRow],
           command' \in [Preview!Sessions -> [Preview!Gating -> {"none", "SUCCEEDED", "FAILED"}]],
           store' \in [Preview!Sessions -> Sandboxes \union {NoSession}],
           unheard' \subseteq Sandboxes \union Preview!Sessions,
           \A s \in Preview!Sessions : s \in unheard' <=> s \in unheard,
           \A s \in Preview!ReopenSessions : recorded'[s].status # "none" <=> recorded[s].status # "none",
           x.pc \in {"create", "session"} => x.kind = "run" \/ validation[w].pc \in {"create", "session"},
           Holding(w)', x.session \notin contested => Stands(w)',
           \A b \in Sandboxes : sandbox'[b] = "alive" /\ (b = validation[w].sandbox \/ sandbox[b] # "alive") =>
              x.sandbox = b \/ b \in unheard'
    PROVE  PreviewInv'
<1>1. validation' \in [Validators -> Exec] /\ UNCHANGED <<expired, asked, crashes>>
  BY OfWorker DEF Touches
<1>2. Preview!TypeOK'
  <2>1. Preview!TypeOK
    BY DEF PreviewInv
  <2>2. QED
    BY <1>1, <2>1 DEF Preview!TypeOK, Exec, SessionRow
<1>3. RunsApart' /\ OneReopen'
  BY QueueStays
<1>4. x # Preview!Idle
  BY IdleIs DEF GoesOnAs
<1>5. x.kind = validation[w].kind /\ x.kind \in {"run", "reopen"}
  BY ItsOwn DEF GoesOnAs, Exec
<1>6. Numbered'
  BY <1>5, NumberedStays
<1>7. QED
  BY <1>2, <1>3, <1>4, <1>6, MovesOn

\* A call that throws, whatever it has done to the rows of its own session.
LEMMA Fails ==
    ASSUME Preview!PreviewSessionAssumption, PreviewInv, NEW w \in Validators, Works(w), validation[w].pc \notin Published,
           NEW cause \in Preview!Causes, Preview!Fail(w, cause),
           UNCHANGED <<run, job, reopen, sandbox, expired, preview, asked, answered, crashes, unheard, contested>>,
           recorded' \in [Preview!Sessions -> SessionRow],
           command' \in [Preview!Sessions -> [Preview!Gating -> {"none", "SUCCEEDED", "FAILED"}]],
           store' \in [Preview!Sessions -> Sandboxes \union {NoSession}],
           \A s \in Preview!Sessions : recorded[s].status # "none" => recorded'[s].status # "none",
           \A s \in Preview!ReopenSessions : recorded'[s].status # "none" <=> recorded[s].status # "none",
           \A s \in Preview!Sessions \ {validation[w].session} : store'[s] = store[s] /\ command'[s] = command[s]
    PROVE  PreviewInv'
<1> DEFINE x == [validation[w] EXCEPT !.pc = "unwind", !.cause = cause]
<1>1. /\ validation[w] \in Exec /\ Holding(w)
      /\ validation[w].sandbox \in Sandboxes \union {NoSession}
      /\ validation[w].session \in Preview!Sessions \union {NoSession}
  BY ItsOwn
<1>2. /\ x \in Exec /\ x.pc = "unwind" /\ x.kind = validation[w].kind
      /\ x.version = validation[w].version
      /\ x.attempt = validation[w].attempt /\ x.session = validation[w].session
      /\ x.sandbox = validation[w].sandbox
  BY <1>1 DEF Exec, Preview!Pcs
<1>3. validation' = [validation EXCEPT ![w] = x]
  BY OfWorker DEF Preview!Fail
<1> HIDE DEF x
<1>4. validation'[w] = x
  BY <1>3, OfWorker
<1>5. Touches(w, x) /\ GoesOnAs(w, x)
  BY <1>2, <1>3, OfWorker DEF Touches, GoesOnAs
<1>6. Holding(w)'
  <2>1. x.session # NoSession => /\ recorded'[x.session].status # "none"
                            /\ x.session \in (IF x.kind = "run" THEN Preview!RunSessions ELSE Preview!ReopenSessions)
    BY <1>1, <1>2 DEF Holding
  <2>2. x.sandbox # NoSession => sandbox'[x.sandbox] # "none"
    BY <1>1, <1>2 DEF Holding
  <2>3. QED
    BY <1>2, <1>4, <2>1, <2>2 DEF Holding, HoldsSandbox, HasSession, Published
<1>7. Stands(w)' /\ x.pc \notin Published \union {"create", "session"}
  BY <1>2, <1>4 DEF Stands, Published
<1>8. sandbox' \in [Sandboxes -> {"none", "alive", "dead"}] /\ unheard' \subseteq Sandboxes \union Preview!Sessions
  BY OfWorker DEF PreviewInv, Preview!TypeOK
<1>9. QED
  BY <1>2, <1>5, <1>6, <1>7, <1>8, GoesOn

LEMMA FailKeeps ==
    ASSUME Preview!PreviewSessionAssumption, PreviewInv, NEW w \in Validators, Works(w), validation[w].pc \notin Published,
           NEW cause \in Preview!Causes, Preview!Fail(w, cause),
           UNCHANGED <<run, job, reopen, sandbox, expired, Preview!rows, store, asked, answered, crashes, Preview!history>>
    PROVE  PreviewInv'
BY OfWorker, Fails DEF Preview!rows, Preview!history

\* A call that answers or throws.
LEMMA ThrowsFails ==
    ASSUME NEW w \in Validators, Preview!Throws(w)
    PROVE  \E cause \in Preview!Causes : Preview!Fail(w, cause)
BY DEF Preview!Throws, Preview!Causes

-----------------------------------------------------------------------------
(* validate *)

LEMMA CreateSandboxKeeps ==
    ASSUME Preview!PreviewSessionAssumption, PreviewInv, NEW w \in Validators, Preview!CreateSandbox(w)
    PROVE  PreviewInv'
<1>1. PICK b \in Sandboxes :
         /\ sandbox[b] = "none"
         /\ sandbox' = [sandbox EXCEPT ![b] = "alive"]
         /\ \/ /\ validation' = [validation EXCEPT ![w].pc = "session", ![w].sandbox = b]
               /\ UNCHANGED unheard
            \/ Preview!Throws(w) /\ unheard' = unheard \union {b}
  BY DEF Preview!CreateSandbox
<1>2. validation[w].pc = "create" /\ Works(w) /\ validation[w].pc \notin Published
  BY DEF Preview!CreateSandbox, Preview!At, Works, Published
<1>3. /\ validation[w] \in Exec /\ validation \in [Validators -> Exec]
      /\ validation[w].session = NoSession /\ validation[w].sandbox = NoSession /\ NoSession \notin Sandboxes
  BY <1>2, ItsOwn, OfWorker DEF Holding
<1>4. UNCHANGED <<run, job, reopen, expired, recorded, command, preview, store, asked, answered, crashes, contested>>
  BY DEF Preview!CreateSandbox, Preview!rows
<1>5. PICK x \in Exec :
         /\ validation' = [validation EXCEPT ![w] = x] /\ GoesOnAs(w, x) /\ x.session = NoSession
         /\ \/ x.pc = "session" /\ x.sandbox = b /\ unheard' = unheard
            \/ x.pc = "unwind" /\ x.sandbox = NoSession /\ unheard' = unheard \union {b}
  <2>1. CASE validation' = [validation EXCEPT ![w].pc = "session", ![w].sandbox = b] /\ UNCHANGED unheard
    <3> DEFINE x == [validation[w] EXCEPT !.pc = "session", !.sandbox = b]
    <3>1. x \in Exec /\ GoesOnAs(w, x) /\ x.session = NoSession /\ x.pc = "session" /\ x.sandbox = b
      BY <1>3 DEF Exec, Preview!Pcs, GoesOnAs
    <3>2. validation' = [validation EXCEPT ![w] = x]
      BY <1>3, <2>1
    <3>3. QED
      BY <2>1, <3>1, <3>2
  <2>2. CASE Preview!Throws(w) /\ unheard' = unheard \union {b}
    <3>1. PICK cause \in Preview!Causes : Preview!Fail(w, cause)
      BY <2>2, ThrowsFails
    <3> DEFINE x == [validation[w] EXCEPT !.pc = "unwind", !.cause = cause]
    <3>2. x \in Exec /\ GoesOnAs(w, x) /\ x.session = NoSession /\ x.pc = "unwind" /\ x.sandbox = NoSession
      BY <1>3 DEF Exec, Preview!Pcs, GoesOnAs
    <3>3. validation' = [validation EXCEPT ![w] = x]
      BY <1>3, <3>1 DEF Preview!Fail
    <3>4. QED
      BY <2>2, <3>2, <3>3
  <2>3. QED
    BY <1>1, <2>1, <2>2
<1>6. validation'[w] = x
  BY <1>3, <1>5
<1>7. /\ sandbox' \in [Sandboxes -> {"none", "alive", "dead"}]
      /\ recorded' \in [Preview!Sessions -> SessionRow]
      /\ command' \in [Preview!Sessions -> [Preview!Gating -> {"none", "SUCCEEDED", "FAILED"}]]
      /\ store' \in [Preview!Sessions -> Sandboxes \union {NoSession}]
  BY <1>1, <1>4, OfWorker
<1>8. /\ sandbox'[b] = "alive" /\ \A c \in Sandboxes \ {b} : sandbox'[c] = sandbox[c]
  BY <1>1, OfWorker
<1>9. /\ unheard' \subseteq Sandboxes \union Preview!Sessions /\ unheard \subseteq unheard'
      /\ \A s \in Preview!Sessions : s \in unheard' <=> s \in unheard
  BY <1>5, SessionsAreApart DEF PreviewInv, Preview!TypeOK
<1>10. Touches(w, x)
  BY <1>1, <1>3, <1>4, <1>5, <1>8, <1>9, OfWorker DEF Touches
<1>11. Holding(w)' /\ Stands(w)' /\ x.pc \notin Published
  BY <1>3, <1>5, <1>6, <1>8 DEF Holding, Stands, HoldsSandbox, HasSession, Published
<1>12. \A c \in Sandboxes : sandbox'[c] = "alive" /\ (c = validation[w].sandbox \/ sandbox[c] # "alive") =>
          x.sandbox = c \/ c \in unheard'
  BY <1>3, <1>5, <1>8
<1>13. QED
  BY <1>2, <1>3, <1>4, <1>5, <1>7, <1>9, <1>10, <1>11, <1>12, GoesOn

LEMMA CreateSandboxSessionKeeps ==
    ASSUME Preview!PreviewSessionAssumption, PreviewInv, NEW w \in Validators, Preview!CreateSandboxSession(w)
    PROVE  PreviewInv'
<1>1. /\ validation[w].pc = "session" /\ validation[w].kind = "run" /\ Works(w)
      /\ validation[w].pc \notin Published /\ OfRun(w)
  BY DEF Preview!CreateSandboxSession, Preview!At, Preview!Kind, Works, Published, OfRun
<1>2. /\ validation[w] \in Exec /\ validation \in [Validators -> Exec] /\ Holding(w)
      /\ validation[w].session = NoSession /\ validation[w].sandbox \in Sandboxes
      /\ NoSession \notin Sandboxes
  BY <1>1, ItsOwn, OfWorker DEF Holding, HoldsSandbox
<1>3. validation[w].attempt \in 1 .. MaxAttempts
  BY <1>1 DEF PreviewInv, RunsApart
<1>4. UNCHANGED <<run, job, reopen, sandbox, expired, command, preview, store, asked, answered, crashes, unheard>>
  BY DEF Preview!CreateSandboxSession
<1>5. CASE ~ Preview!Holds(w)
  <2>1. Preview!Fail(w, "stopped") /\ UNCHANGED <<recorded, contested>> /\ "stopped" \in Preview!Causes
    BY <1>5 DEF Preview!CreateSandboxSession, Preview!Causes
  <2>2. QED
    BY <1>1, <1>4, <2>1, FailKeeps DEF Preview!rows, Preview!history
<1>6. CASE Preview!Holds(w)
  <2>1. PICK s \in Preview!RunSessions : s = Preview!AttemptOf(w)
    BY <1>2, <1>3, SessionsAreApart DEF Preview!AttemptOf, Exec
  <2>2. /\ recorded' = [recorded EXCEPT ![s] = [status |-> "PROVISIONING", sandbox |-> validation[w].sandbox]]
        /\ \/ /\ validation' = [validation EXCEPT ![w].pc = "restore", ![w].session = s]
              /\ contested' = Preview!Mark(s)
           \/ Preview!Throws(w) /\ UNCHANGED contested
    BY <1>6, <2>1 DEF Preview!CreateSandboxSession
  <2>3. s \in Preview!Sessions /\ s \notin Preview!ReopenSessions /\ s # NoSession
    BY SessionsAreApart DEF Preview!FirstReopen
  <2>4. /\ recorded' \in [Preview!Sessions -> SessionRow] /\ recorded'[s].status # "none"
        /\ \A t \in Preview!Sessions \ {s} : recorded'[t] = recorded[t]
    <3>1. [status |-> "PROVISIONING", sandbox |-> validation[w].sandbox] \in SessionRow
      BY <1>2 DEF SessionRow
    <3>2. QED
      BY <2>2, <2>3, <3>1, OfWorker
  <2>5. /\ \A t \in Preview!Sessions : recorded[t].status # "none" => recorded'[t].status # "none"
        /\ \A t \in Preview!ReopenSessions : recorded'[t].status # "none" <=> recorded[t].status # "none"
    BY <2>3, <2>4, SessionsAreApart
  <2>6. CASE Preview!Throws(w) /\ UNCHANGED contested
    <3>1. PICK cause \in Preview!Causes : Preview!Fail(w, cause)
      BY <2>6, ThrowsFails
    <3>2. QED
      BY <1>1, <1>4, <2>4, <2>5, <2>6, <3>1, OfWorker, Fails
  <2>7. CASE /\ validation' = [validation EXCEPT ![w].pc = "restore", ![w].session = s]
             /\ contested' = Preview!Mark(s)
    <3> DEFINE x == [validation[w] EXCEPT !.pc = "restore", !.session = s]
    <3>1. /\ x \in Exec /\ GoesOnAs(w, x) /\ x.pc = "restore" /\ x.kind = "run" /\ x.session = s
          /\ x.sandbox = validation[w].sandbox
      BY <1>1, <1>2, <2>3 DEF Exec, Preview!Pcs, GoesOnAs
    <3>2. validation' = [validation EXCEPT ![w] = x]
      BY <1>2, <2>7
    <3> HIDE DEF x
    <3>3. validation'[w] = x /\ \A v \in Validators \ {w} : validation'[v] = validation[v]
      BY <1>2, <3>2
    <3>4. /\ contested' \subseteq Preview!RunSessions
          /\ \A v \in Validators : validation[v].session = s => s \in contested'
          /\ \A t \in Preview!Sessions \ {s} : t \in contested' <=> t \in contested
      BY <2>7, OfWorker DEF Preview!Mark, Preview!InUse
    <3>5. \A v \in Validators : validation[v].session \in contested => validation[v].session \in contested'
      BY <3>4, ItsOwn
    <3>6. Touches(w, x)
      BY <1>4, <2>5, <3>1, <3>2, <3>4, <3>5 DEF Touches
    <3>7. RunsApart' /\ OneReopen' /\ Numbered'
      BY <1>1, <1>4, <2>5, <3>1, <3>6, QueueStays, NumberedStays
    <3>8. Preview!TypeOK'
      <4>1. Preview!TypeOK /\ validation' \in [Validators -> Exec] /\ contested' \subseteq Preview!Sessions
        BY <1>2, <3>1, <3>2, <3>4, SessionsAreApart DEF PreviewInv
      <4>2. QED
        BY <1>4, <2>4, <4>1 DEF Preview!TypeOK, Exec, SessionRow
    <3>9. Holding(w)'
      BY <1>1, <1>2, <1>4, <2>3, <2>4, <3>1, <3>3 DEF Holding, HoldsSandbox, HasSession, Published
    <3>10. Stands(w)' /\ PublishesItsOwn(w)'
      BY <3>1, <3>3 DEF Stands, PublishesItsOwn, Published
    <3>11. Shown1(s)'
      <4>1. Shown1(s) /\ run.status # "COMPLETED"
        BY <1>6, <2>3 DEF PreviewInv, Preview!Holds
      <4>2. ~ (Preview!Live(s) /\ s \notin unheard /\ s \notin contested')
        BY <3>4, <4>1 DEF Shown1
      <4>3. ~ (Preview!Live(s)' /\ Preview!Trusted(s)')
        BY <1>4, <4>2 DEF Preview!Live, Preview!Trusted
      <4>4. Preview!Live(s)' <=> Preview!Live(s)
        BY <1>4 DEF Preview!Live
      <4>5. s \in Preview!RunSessions /\ Preview!Live(s)' /\ s \notin unheard' =>
              \E v \in Validators : validation'[v].pc \in Published /\ validation'[v].session = s
        BY <1>1, <1>4, <3>3, <4>1, <4>4 DEF Shown1
      <4>6. \A v \in Validators :
              validation'[v].sandbox # NoSession /\ preview[s].sandbox = validation'[v].sandbox => validation'[v].session = s
        BY <3>1, <3>3, <4>1 DEF Shown1
      <4>7. QED
        BY <1>4, <2>4, <4>1, <4>3, <4>5, <4>6 DEF Shown1
    <3>12. \A t \in {validation[w].session, x.session} : t # NoSession => Shown1(t)'
      BY <1>2, <3>1, <3>11
    <3>13. \A b \in Sandboxes : sandbox'[b] = "alive" /\ (b = validation[w].sandbox \/ sandbox[b] # "alive") => Paid(b)'
      BY <1>4, <3>1, <3>3 DEF Paid
    <3>14. run.status # "COMPLETED" /\ run' = run /\ preview' = preview
      BY <1>4, <1>6 DEF Preview!Holds
    <3>15. QED
      BY <1>1, <3>1, <3>6, <3>7, <3>8, <3>9, <3>10, <3>12, <3>13, <3>14, WorkerKeeps
  <2>8. QED
    BY <2>2, <2>6, <2>7
<1>7. QED
  BY <1>5, <1>6

\* The reopen at work takes the first number that is free; there is one, because it
\* was asked for.
LEMMA FreeNumber ==
    ASSUME Preview!PreviewSessionAssumption, PreviewInv, NEW w \in Validators, Preview!At(w, "session"), Preview!Kind(w, "reopen")
    PROVE  \E n \in 0 .. ReopenBound :
              /\ \A s \in Preview!ReopenSessions : recorded[s].status # "none" <=> s < Preview!FirstReopen + n
              /\ n + 1 <= asked /\ n + 1 <= ReopenBound
              /\ Preview!NextAttempt = Preview!FirstReopen + n
              /\ Preview!FirstReopen + n \in Preview!ReopenSessions
<1>1. PICK n \in 0 .. ReopenBound :
         /\ \A s \in Preview!ReopenSessions : recorded[s].status # "none" <=> s < Preview!FirstReopen + n
         /\ n + Coming <= asked
  BY DEF PreviewInv, Numbered
<1>2. Coming = 1
  <2>1. Opening
    BY DEF Opening, Preview!At, Preview!Kind
  <2>2. QED
    BY <2>1 DEF Coming
<1>3. ReopenBound \in Nat /\ asked \in Nat /\ asked <= ReopenBound /\ n \in Nat
  BY DEF PreviewInv, Preview!TypeOK, Preview!PreviewSessionAssumption
<1>4. n + 1 <= asked /\ n + 1 <= ReopenBound
  BY <1>1, <1>2, <1>3
<1> DEFINE s == Preview!FirstReopen + n
<1>5. s \in Preview!ReopenSessions /\ ~ (s < Preview!FirstReopen + n)
  BY <1>3, <1>4 DEF Preview!ReopenSessions, Preview!FirstReopen
<1>6. \A t \in Preview!ReopenSessions : (t < s => recorded[t].status # "none") /\ (recorded[t].status # "none" => t < s)
  BY <1>1
<1>7. \A t \in Preview!ReopenSessions : t \in Nat
  BY SessionsAreApart
<1>8. s \in Nat
  BY <1>5, <1>7
<1>9. recorded[s].status = "none"
  BY <1>5, <1>1
<1> HIDE DEF s
<1>10. \A t \in Preview!ReopenSessions :
          recorded[t].status = "none" /\ (\A u \in Preview!ReopenSessions : u < t => recorded[u].status # "none") => t = s
  <2>1. SUFFICES ASSUME NEW t \in Preview!ReopenSessions, recorded[t].status = "none",
                        \A u \in Preview!ReopenSessions : u < t => recorded[u].status # "none"
                 PROVE  t = s
    OBVIOUS
  <2>2. ~ (t < s) /\ ~ (s < t)
    BY <1>5, <1>6, <1>9, <2>1
  <2>3. t \in Nat
    BY <1>7
  <2>4. QED
    BY <2>2, <2>3, <1>8
<1>11. \E t \in Preview!ReopenSessions :
          recorded[t].status = "none" /\ \A u \in Preview!ReopenSessions : u < t => recorded[u].status # "none"
  BY <1>5, <1>6, <1>9
<1>12. Preview!NextAttempt = s
  BY <1>10, <1>11 DEF Preview!NextAttempt
<1>13. QED
  BY <1>1, <1>4, <1>5, <1>12 DEF s

LEMMA CreatePreviewReopenSessionKeeps ==
    ASSUME Preview!PreviewSessionAssumption, PreviewInv, NEW w \in Validators, Preview!CreatePreviewReopenSession(w)
    PROVE  PreviewInv'
<1>1. /\ validation[w].pc = "session" /\ validation[w].kind = "reopen" /\ Works(w)
      /\ validation[w].pc \notin Published /\ Reopening(w)
  BY DEF Preview!CreatePreviewReopenSession, Preview!At, Preview!Kind, Works, Published, Reopening
<1>2. /\ validation[w] \in Exec /\ validation \in [Validators -> Exec] /\ Holding(w)
      /\ validation[w].session = NoSession /\ validation[w].sandbox \in Sandboxes
      /\ NoSession \notin Sandboxes
  BY <1>1, ItsOwn, OfWorker DEF Holding, HoldsSandbox
<1>3. reopen = "active" /\ \A v \in Validators \ {w} : ~ Reopening(v)
  BY <1>1 DEF PreviewInv, OneReopen
<1>4. UNCHANGED <<run, job, reopen, sandbox, expired, command, preview, store, asked, answered, crashes, unheard, contested>>
  BY DEF Preview!CreatePreviewReopenSession, Preview!history
<1>5. CASE run.status # "COMPLETED"
  <2>1. Preview!Fail(w, "stopped") /\ UNCHANGED recorded /\ "stopped" \in Preview!Causes
    BY <1>5 DEF Preview!CreatePreviewReopenSession, Preview!Causes
  <2>2. QED
    BY <1>1, <1>4, <2>1, FailKeeps DEF Preview!rows, Preview!history
<1>6. CASE run.status = "COMPLETED"
  <2>0. PICK n \in 0 .. ReopenBound :
              /\ \A t \in Preview!ReopenSessions : recorded[t].status # "none" <=> t < Preview!FirstReopen + n
              /\ n + 1 <= asked /\ n + 1 <= ReopenBound
              /\ Preview!NextAttempt = Preview!FirstReopen + n
              /\ Preview!FirstReopen + n \in Preview!ReopenSessions
    BY FreeNumber DEF Preview!CreatePreviewReopenSession
  <2>1. PICK s \in Preview!ReopenSessions : s = Preview!NextAttempt /\ s = Preview!FirstReopen + n
    BY <2>0
  <2>2. /\ recorded' = [recorded EXCEPT ![s] = [status |-> "PROVISIONING", sandbox |-> validation[w].sandbox]]
        /\ Preview!Answer(w, [validation[w] EXCEPT !.pc = "restore", !.session = s])
    BY <1>6, <2>1 DEF Preview!CreatePreviewReopenSession
  <2>3. s \in Preview!Sessions /\ s \notin Preview!RunSessions /\ s # NoSession /\ s \in Nat
    BY SessionsAreApart DEF Preview!FirstReopen
  <2>4. PICK x \in Exec :
           /\ validation' = [validation EXCEPT ![w] = x] /\ GoesOnAs(w, x) /\ x.kind = "reopen"
           /\ x.sandbox = validation[w].sandbox
           /\ \/ x.pc = "restore" /\ x.session = s
              \/ x.pc = "unwind" /\ x.session = NoSession
    <3> DEFINE y == [validation[w] EXCEPT !.pc = "restore", !.session = s]
    <3>1. /\ y \in Exec /\ GoesOnAs(w, y) /\ y.kind = "reopen" /\ y.sandbox = validation[w].sandbox
          /\ y.pc = "restore" /\ y.session = s
      BY <1>1, <1>2, <2>3 DEF Exec, Preview!Pcs, GoesOnAs
    <3>2. CASE validation' = [validation EXCEPT ![w] = y]
      BY <3>1, <3>2
    <3>3. CASE Preview!Throws(w)
      <4>1. PICK cause \in Preview!Causes : Preview!Fail(w, cause)
        BY <3>3, ThrowsFails
      <4> DEFINE z == [validation[w] EXCEPT !.pc = "unwind", !.cause = cause]
      <4>2. /\ z \in Exec /\ GoesOnAs(w, z) /\ z.kind = "reopen" /\ z.sandbox = validation[w].sandbox
            /\ z.pc = "unwind" /\ z.session = NoSession
        BY <1>1, <1>2 DEF Exec, Preview!Pcs, GoesOnAs
      <4>3. validation' = [validation EXCEPT ![w] = z]
        BY <1>2, <4>1 DEF Preview!Fail
      <4>4. QED
        BY <4>2, <4>3
    <3>4. QED
      BY <2>2, <3>2, <3>3 DEF Preview!Answer
  <2>5. validation'[w] = x /\ \A v \in Validators \ {w} : validation'[v] = validation[v]
    BY <1>2, <2>4
  <2>6. /\ recorded' \in [Preview!Sessions -> SessionRow] /\ recorded'[s].status # "none"
        /\ \A t \in Preview!Sessions \ {s} : recorded'[t] = recorded[t]
    <3>1. [status |-> "PROVISIONING", sandbox |-> validation[w].sandbox] \in SessionRow
      BY <1>2 DEF SessionRow
    <3>2. QED
      BY <2>2, <2>3, <3>1, OfWorker
  <2>7. \A t \in Preview!Sessions : recorded[t].status # "none" => recorded'[t].status # "none"
    BY <2>6
  <2>8. recorded[s].status = "none" /\ \A v \in Validators : validation[v].session # s
    <3>1. recorded[s].status = "none"
      BY <2>0, <2>1, <2>3
    <3>2. QED
      BY <2>3, <3>1, ItsOwn DEF Holding
  <2>9. Touches(w, x)
    BY <1>4, <2>4, <2>7, <2>8, OfWorker DEF Touches
  <2>10. Preview!TypeOK'
    <3>1. Preview!TypeOK /\ validation' \in [Validators -> Exec]
      BY <1>2, <2>4 DEF PreviewInv
    <3>2. QED
      BY <1>4, <2>6, <3>1 DEF Preview!TypeOK, Exec, SessionRow
  <2>11. RunsApart' /\ OneReopen'
    BY <1>1, <1>4, <2>4, <2>9, QueueStays
  <2>12. Numbered'
    <3>1. ReopenBound \in Nat /\ n \in Nat /\ n + 1 \in 0 .. ReopenBound
      BY <2>0 DEF Preview!PreviewSessionAssumption
    <3>2. ASSUME NEW t \in Preview!ReopenSessions
          PROVE  recorded'[t].status # "none" <=> t < Preview!FirstReopen + (n + 1)
      <4>1. t \in Nat /\ t \in Preview!Sessions
        BY SessionsAreApart
      <4>2. CASE t = s
        BY <2>1, <2>6, <3>1, <4>1, <4>2 DEF Preview!FirstReopen
      <4>3. CASE t # s
        <5>1. recorded'[t] = recorded[t]
          BY <2>6, <4>1, <4>3
        <5>2. t < Preview!FirstReopen + n <=> t < Preview!FirstReopen + (n + 1)
          BY <2>1, <3>1, <4>1, <4>3 DEF Preview!FirstReopen
        <5>3. QED
          BY <2>0, <5>1, <5>2
      <4>4. QED
        BY <4>2, <4>3
    <3>3. ~ Opening'
      <4>1. ASSUME NEW v \in Validators, validation'[v].kind = "reopen" PROVE validation'[v].pc \notin {"create", "session"}
        <5>1. CASE v = w
          BY <2>4, <2>5, <5>1
        <5>2. CASE v # w
          BY <1>3, <2>5, <4>1, <5>2 DEF Reopening, Works
        <5>3. QED
          BY <5>1, <5>2
      <4>2. QED
        BY <4>1 DEF Opening, Preview!Kind
    <3>4. Coming' = 0 /\ asked' = asked
      BY <1>3, <1>4, <3>3 DEF Coming
    <3>5. (n + 1) + 0 <= asked
      BY <2>0, <3>1
    <3>6. QED
      BY <3>1, <3>2, <3>4, <3>5 DEF Numbered
  <2>13. Shown1(s) /\ preview[s].status = "none" /\ s \notin contested
    BY <2>3, <2>8, OfWorker DEF PreviewInv, Shown1
  <2>14. Holding(w)' /\ Stands(w)' /\ PublishesItsOwn(w)' /\ x.pc \notin Published
    <3>1. x.pc \in {"restore", "unwind"} /\ Stands(w)' /\ PublishesItsOwn(w)' /\ x.pc \notin Published
      BY <2>4, <2>5 DEF Stands, PublishesItsOwn, Published
    <3>2. sandbox'[x.sandbox] # "none" /\ (x.sandbox \notin expired' => sandbox'[x.sandbox] = "alive" \/ x.pc = "unwind")
      BY <1>1, <1>2, <1>4, <2>4 DEF Holding, HoldsSandbox
    <3>3. x.session # NoSession => recorded'[x.session].status # "none" /\ preview'[x.session].status = "none"
      BY <1>4, <2>4, <2>6, <2>13
    <3>4. QED
      BY <1>2, <2>3, <2>4, <2>5, <3>1, <3>2, <3>3 DEF Holding, HoldsSandbox, HasSession, Published
  <2>15. Shown1(s)'
    <3>1. ~ Preview!Live(s)'
      BY <1>4, <2>13 DEF Preview!Live
    <3>2. \A v \in Validators : validation[v].sandbox # NoSession => preview[s].sandbox # validation[v].sandbox
      BY <2>8, <2>13 DEF Shown1
    <3>3. \A v \in Validators : validation'[v].sandbox # NoSession => preview[s].sandbox # validation'[v].sandbox
      BY <1>2, <2>4, <2>5, <3>2
    <3>4. QED
      BY <1>4, <2>6, <2>13, <3>1, <3>3 DEF Shown1
  <2>16. \A t \in {validation[w].session, x.session} : t # NoSession => Shown1(t)'
    BY <1>2, <2>4, <2>15
  <2>17. \A b \in Sandboxes : sandbox'[b] = "alive" /\ (b = validation[w].sandbox \/ sandbox[b] # "alive") => Paid(b)'
    BY <1>4, <2>4, <2>5 DEF Paid
  <2>18. \A t \in Preview!Sessions : Preview!Live(t)' <=> Preview!Live(t)
    BY <1>4 DEF Preview!Live
  <2>19. QED
    BY <1>4, <2>4, <2>9, <2>10, <2>11, <2>12, <2>14, <2>16, <2>17, <2>18, WorkerKeeps
<1>7. QED
  BY <1>5, <1>6

\* A step inside a session, which changes rows of that session alone.
LEMMA SessionGoesOn ==
    ASSUME Preview!PreviewSessionAssumption, PreviewInv, NEW w \in Validators, validation[w].pc \in {"restore", "steps", "put"},
           NEW x \in Exec, validation' = [validation EXCEPT ![w] = x], GoesOnAs(w, x), x.pc \in {"steps", "put", "ready"},
           x.session = validation[w].session, x.sandbox = validation[w].sandbox,
           UNCHANGED <<run, job, reopen, sandbox, expired, preview, asked, answered, crashes, unheard, contested>>,
           recorded' \in [Preview!Sessions -> SessionRow],
           \A s \in Preview!Sessions : recorded'[s].status # "none" <=> recorded[s].status # "none",
           command' \in [Preview!Sessions -> [Preview!Gating -> {"none", "SUCCEEDED", "FAILED"}]],
           store' \in [Preview!Sessions -> Sandboxes \union {NoSession}],
           \A s \in Preview!Sessions \ {validation[w].session} : store'[s] = store[s] /\ command'[s] = command[s],
           x.pc = "steps" => x.step \in 1 .. Len(Preview!Pipeline(x.kind)),
           x.session \notin contested => Stands(w)'
    PROVE  PreviewInv'
<1>1. Works(w) /\ validation[w].pc \notin Published /\ x.pc \notin Published \union {"create", "session"}
  BY DEF Works, Published
<1>2. validation'[w] = x /\ validation[w] \in Exec /\ Holding(w) /\ validation[w].sandbox \in Sandboxes
  BY ItsOwn, OfWorker DEF Holding, HoldsSandbox, HasSession
<1>3. Touches(w, x)
  BY OfWorker DEF Touches
<1>4. Holding(w)'
  <2>1. /\ x.session # NoSession /\ recorded'[x.session].status # "none"
        /\ x.session \in (IF x.kind = "run" THEN Preview!RunSessions ELSE Preview!ReopenSessions)
        /\ x.sandbox # NoSession /\ sandbox'[x.sandbox] # "none" /\ (x.sandbox \notin expired' => sandbox'[x.sandbox] = "alive")
        /\ x.kind = "reopen" => preview'[x.session].status = "none"
    BY <1>2, ItsOwn DEF Holding, HoldsSandbox, HasSession, GoesOnAs
  <2>2. QED
    BY <1>1, <1>2, <2>1 DEF Holding
<1>5. sandbox' \in [Sandboxes -> {"none", "alive", "dead"}] /\ unheard' \subseteq Sandboxes \union Preview!Sessions
  BY OfWorker DEF PreviewInv, Preview!TypeOK
<1>6. \A s \in Preview!ReopenSessions : recorded'[s].status # "none" <=> recorded[s].status # "none"
  BY SessionsAreApart
<1>7. QED
  BY <1>1, <1>3, <1>4, <1>5, <1>6, GoesOn

LEMMA RestoreFilesKeeps ==
    ASSUME Preview!PreviewSessionAssumption, PreviewInv, NEW w \in Validators, Preview!RestoreFiles(w)
    PROVE  PreviewInv'
<1>1. validation[w].pc = "restore" /\ validation[w].pc \notin Published /\ Works(w)
  BY DEF Preview!RestoreFiles, Preview!At, Published, Works
<1>2. /\ validation[w] \in Exec /\ validation \in [Validators -> Exec]
      /\ validation[w].session \in Preview!Sessions
      /\ recorded[validation[w].session].status # "none"
  BY <1>1, ItsOwn, OfWorker DEF Holding, HasSession
<1>3. UNCHANGED <<run, job, reopen, sandbox, expired, command, preview, store, asked, answered, crashes, unheard, contested>>
  BY DEF Preview!RestoreFiles, Preview!history
<1>4. /\ recorded' = [recorded EXCEPT ![validation[w].session].status = "VALIDATING"] \/ recorded' = recorded
      /\ \/ \E cause \in Preview!Causes : Preview!Fail(w, cause)
         \/ validation' = [validation EXCEPT ![w] = [validation[w] EXCEPT !.pc = "steps", !.step = 1]]
         \/ validation' = [validation EXCEPT ![w].pc = "steps", ![w].step = 1]
  <2>1. "stopped" \in Preview!Causes
    BY DEF Preview!Causes
  <2>2. QED
    BY <2>1, ThrowsFails DEF Preview!RestoreFiles, Preview!Answer
<1>5. /\ recorded' \in [Preview!Sessions -> SessionRow]
      /\ \A s \in Preview!Sessions : recorded'[s].status # "none" <=> recorded[s].status # "none"
  <2>1. recorded \in [Preview!Sessions -> SessionRow]
    BY OfWorker
  <2>2. QED
    BY <1>2, <1>4, <2>1 DEF SessionRow
<1>6. CASE \E cause \in Preview!Causes : Preview!Fail(w, cause)
  BY <1>1, <1>3, <1>5, <1>6, OfWorker, SessionsAreApart, Fails
<1>7. CASE ~ \E cause \in Preview!Causes : Preview!Fail(w, cause)
  <2> DEFINE x == [validation[w] EXCEPT !.pc = "steps", !.step = 1]
  <2>1. Len(Preview!Pipeline("run")) = 12 /\ Len(Preview!Pipeline("reopen")) = 7
    BY RunPipeline, ReopenPipeline
  <2>2. 1 \in 0 .. Len(Preview!Pipeline("run")) + 1
    BY <2>1
  <2>3. /\ x \in Exec /\ GoesOnAs(w, x) /\ x.pc = "steps" /\ x.step = 1 /\ x.kind = validation[w].kind
        /\ x.session = validation[w].session /\ x.sandbox = validation[w].sandbox
    BY <1>2, <2>2 DEF Exec, Preview!Pcs, GoesOnAs
  <2>4. validation' = [validation EXCEPT ![w] = x]
    BY <1>2, <1>4, <1>7
  <2> HIDE DEF x
  <2>5. validation'[w] = x
    BY <1>2, <2>4
  <2>6. x.step \in 1 .. Len(Preview!Pipeline(x.kind))
    <3>1. x.kind \in {"run", "reopen"}
      BY <1>2, <2>3 DEF Exec
    <3>2. Len(Preview!Pipeline(x.kind)) \in {7, 12}
      BY <2>1, <3>1, Zenon
    <3>3. \A l \in {7, 12} : 1 \in 1 .. l
      OBVIOUS
    <3>4. QED
      BY <2>3, <3>2, <3>3, Zenon
  <2>7. Stands(w)'
    <3>1. validation'[w].pc = "steps" /\ 1 .. validation'[w].step - 1 = {}
      BY <2>3, <2>5
    <3>2. QED
      BY <3>1 DEF Stands, Published
  <2>8. QED
    BY <1>1, <1>3, <1>5, <2>3, <2>4, <2>6, <2>7, OfWorker, SessionGoesOn
<1>8. QED
  BY <1>6, <1>7

LEMMA RunStepKeeps ==
    ASSUME Preview!PreviewSessionAssumption, PreviewInv, NEW w \in Validators, Preview!RunStep(w)
    PROVE  PreviewInv'
<1> DEFINE kind == validation[w].kind
           i == validation[w].step
           name == Preview!Pipeline(kind)[i]
           next(ok) == Preview!NextStep(kind, i, ok)
           after(ok) == IF next(ok) > Len(Preview!Pipeline(kind)) THEN "put" ELSE "steps"
<1>1. validation[w].pc = "steps" /\ Works(w) /\ validation[w].pc \notin Published
  BY DEF Preview!RunStep, Preview!At, Published, Works
<1>2. PICK s \in Preview!Sessions :
        /\ s = validation[w].session /\ validation[w] \in Exec /\ validation \in [Validators -> Exec]
        /\ Holding(w) /\ (s \notin contested => Stands(w))
  BY <1>1, ItsOwn, OfWorker DEF Holding, HasSession
<1>3. kind \in {"run", "reopen"} /\ i \in 1 .. Len(Preview!Pipeline(kind))
  BY <1>1, <1>2 DEF Holding, Exec
<1>4. PICK ok \in BOOLEAN :
         IF kind = "run" /\ ~ Preview!Holds(w)
         THEN Preview!Fail(w, "stopped") /\ UNCHANGED command
         ELSE /\ command' = IF kind = "run" /\ name \in Preview!Gating
                            THEN [command EXCEPT ![s][name] = IF ok THEN "SUCCEEDED" ELSE "FAILED"]
                            ELSE command
              /\ IF ~ Preview!AssertSuccessful(name, ok)
                 THEN Preview!Fail(w, Preview!FailureCause(name)) \/ Preview!Throws(w)
                 ELSE Preview!Answer(w, [validation[w] EXCEPT !.step = next(ok), !.pc = after(ok)])
  BY <1>2 DEF Preview!RunStep
<1>5. UNCHANGED <<run, job, reopen, sandbox, expired, recorded, preview, store, asked, answered, crashes, unheard, contested>>
  BY DEF Preview!RunStep, Preview!history
<1>6. /\ command' \in [Preview!Sessions -> [Preview!Gating -> {"none", "SUCCEEDED", "FAILED"}]]
      /\ \A t \in Preview!Sessions \ {s} : command'[t] = command[t]
  <2> DEFINE C == [Preview!Sessions -> [Preview!Gating -> {"none", "SUCCEEDED", "FAILED"}]]
  <2>1. command \in C
    BY OfWorker
  <2>2. ASSUME NEW n \in Preview!Gating, NEW v \in {"SUCCEEDED", "FAILED"}
        PROVE  /\ [command EXCEPT ![s][n] = v] \in C
               /\ \A t \in Preview!Sessions \ {s} : [command EXCEPT ![s][n] = v][t] = command[t]
    BY <1>2, <2>1
  <2>3. command' = command \/ \E n \in Preview!Gating, v \in {"SUCCEEDED", "FAILED"} : command' = [command EXCEPT ![s][n] = v]
    BY <1>4
  <2>4. QED
    BY <2>1, <2>2, <2>3
<1>7. ASSUME NEW cause \in Preview!Causes, Preview!Fail(w, cause) PROVE PreviewInv'
  BY <1>1, <1>2, <1>5, <1>6, <1>7, OfWorker, Fails
<1>8. CASE \E cause \in Preview!Causes : Preview!Fail(w, cause)
  BY <1>7, <1>8
<1>9. CASE ~ \E cause \in Preview!Causes : Preview!Fail(w, cause)
  <2> DEFINE x == [validation[w] EXCEPT !.step = next(ok), !.pc = after(ok)]
  <2>1. ~ Preview!Throws(w) /\ "stopped" \in Preview!Causes /\ Preview!FailureCause(name) \in Preview!Causes
    BY <1>9, ThrowsFails DEF Preview!Causes, Preview!FailureCause
  <2>2. /\ ~ (kind = "run" /\ ~ Preview!Holds(w)) /\ Preview!AssertSuccessful(name, ok)
        /\ validation' = [validation EXCEPT ![w] = x]
    BY <1>4, <1>9, <2>1 DEF Preview!Answer
  <2>3. /\ next(ok) \in i + 1 .. Len(Preview!Pipeline(kind)) + 1
        /\ Len(Preview!Pipeline(kind)) \in 1 .. Len(Preview!Pipeline("run"))
    BY <1>3, StepsFollow
  <2>4. Len(Preview!Pipeline("run")) = 12
    BY RunPipeline
  <2>5. PICK k \in Nat : k = next(ok) /\ k \in 0 .. Len(Preview!Pipeline("run")) + 1
                         /\ i \in Nat /\ i < k /\ k <= Len(Preview!Pipeline(kind)) + 1 /\ Len(Preview!Pipeline(kind)) \in Nat
    <3> HIDE DEF next, i
    <3>1. QED
      BY <1>3, <2>3, <2>4
  <2>6. /\ x \in Exec /\ GoesOnAs(w, x) /\ x.kind = kind /\ x.session = s /\ x.sandbox = validation[w].sandbox
        /\ x.step = k /\ x.pc = IF k > Len(Preview!Pipeline(kind)) THEN "put" ELSE "steps"
    <3> HIDE DEF next
    <3>1. QED
      BY <1>2, <2>5 DEF Exec, Preview!Pcs, GoesOnAs
  <2> HIDE DEF x
  <2>7. validation'[w] = x
    BY <1>2, <2>2
  <2>8. x.pc = "steps" => x.step \in 1 .. Len(Preview!Pipeline(x.kind))
    <3> HIDE DEF next
    <3>1. ~ (k > Len(Preview!Pipeline(kind))) => k \in 1 .. Len(Preview!Pipeline(kind))
      BY <2>5
    <3>2. QED
      BY <2>6, <3>1
  <2>9. ASSUME kind = "run", s \notin contested
        PROVE  \A j \in 1 .. k - 1 : Preview!Pipeline("run")[j] \in Preview!Gating => command'[s][Preview!Pipeline("run")[j]] = "SUCCEEDED"
    <3>1. \A j \in 1 .. i - 1 : Preview!Pipeline("run")[j] \in Preview!Gating => command[s][Preview!Pipeline("run")[j]] = "SUCCEEDED"
      BY <1>1, <1>2, <2>9 DEF Stands
    <3>2. \A j \in i .. k - 1 : Preview!Pipeline("run")[j] \in Preview!Gating => j = i
      BY <1>3, <2>5, <2>9, StepsFollow
    <3>3. name \in Preview!Gating => ok
      BY <2>2 DEF Preview!AssertSuccessful
    <3>4. command' = IF name \in Preview!Gating THEN [command EXCEPT ![s][name] = "SUCCEEDED"] ELSE command
      BY <1>4, <2>2, <2>9, <3>3
    <3>5. \A n \in Preview!Gating : command[s][n] = "SUCCEEDED" => command'[s][n] = "SUCCEEDED"
      BY <1>2, <3>4, OfWorker
    <3>6. name \in Preview!Gating => command'[s][name] = "SUCCEEDED"
      BY <1>2, <3>4, OfWorker
    <3>7. SUFFICES ASSUME NEW j \in 1 .. k - 1, Preview!Pipeline("run")[j] \in Preview!Gating
                   PROVE  command'[s][Preview!Pipeline("run")[j]] = "SUCCEEDED"
      OBVIOUS
    <3> HIDE DEF i
    <3>8. j \in 1 .. i - 1 \/ j \in i .. k - 1
      BY <2>5, <3>7
    <3>9. CASE j \in 1 .. i - 1
      BY <3>1, <3>5, <3>7, <3>9
    <3>10. CASE j \in i .. k - 1
      <4>1. j = i
        BY <3>2, <3>7, <3>10
      <4>2. name = Preview!Pipeline("run")[j]
        BY <2>9, <4>1
      <4>3. QED
        BY <3>6, <3>7, <4>2
    <3>11. QED
      BY <3>8, <3>9, <3>10
  <2>10. ASSUME s \notin contested PROVE Stands(w)'
    <3>1. SUFFICES ASSUME kind = "run"
                   PROVE  /\ x.pc = "steps" => \A j \in 1 .. x.step - 1 :
                                Preview!Pipeline("run")[j] \in Preview!Gating => command'[s][Preview!Pipeline("run")[j]] = "SUCCEEDED"
                          /\ x.pc = "put" => \A n \in Preview!Gating : command'[s][n] = "SUCCEEDED"
      BY <2>6, <2>7 DEF Stands, Published
    <3>2. CASE x.pc = "steps"
      BY <2>6, <2>9, <2>10, <3>1, <3>2
    <3>3. CASE x.pc = "put"
      <4>1. k > Len(Preview!Pipeline("run"))
        BY <2>6, <3>1, <3>3
      <4>2. ASSUME NEW n \in Preview!Gating PROVE command'[s][n] = "SUCCEEDED"
        <5>1. PICK j \in 1 .. Len(Preview!Pipeline("run")) : Preview!Pipeline("run")[j] = n
          BY EveryGateIsAStep
        <5>2. j \in 1 .. k - 1
          BY <2>4, <2>5, <4>1
        <5>3. QED
          BY <2>9, <2>10, <3>1, <5>1, <5>2
      <4>3. QED
        BY <3>3, <4>2
    <3>4. QED
      BY <3>2, <3>3
  <2>11. /\ recorded' \in [Preview!Sessions -> SessionRow]
         /\ \A t \in Preview!Sessions : recorded'[t].status # "none" <=> recorded[t].status # "none"
         /\ store' \in [Preview!Sessions -> Sandboxes \union {NoSession}] /\ store' = store
         /\ x.pc \in {"steps", "put", "ready"}
    BY <1>5, <2>6, OfWorker
  <2>12. QED
    BY <1>1, <1>2, <1>5, <1>6, <2>2, <2>6, <2>8, <2>10, <2>11, SessionGoesOn
<1>10. QED
  BY <1>8, <1>9

LEMMA PutKeeps ==
    ASSUME Preview!PreviewSessionAssumption, PreviewInv, NEW w \in Validators, Preview!Put(w)
    PROVE  PreviewInv'
<1>1. validation[w].pc = "put" /\ validation[w].pc \notin Published /\ Works(w)
  BY DEF Preview!Put, Preview!At, Published, Works
<1>2. PICK s \in Preview!Sessions :
        /\ s = validation[w].session /\ validation[w] \in Exec /\ validation \in [Validators -> Exec]
        /\ validation[w].sandbox \in Sandboxes /\ (s \notin contested => Stands(w))
  BY <1>1, ItsOwn, OfWorker DEF Holding, HasSession, HoldsSandbox
<1>3. UNCHANGED <<run, job, reopen, sandbox, expired, recorded, command, preview, asked, answered, crashes, unheard, contested>>
  BY DEF Preview!Put, Preview!rows, Preview!history
<1>4. \/ Preview!Fail(w, "final") /\ UNCHANGED store
      \/ /\ store' = [store EXCEPT ![s] = validation[w].sandbox]
         /\ Preview!Answer(w, [validation[w] EXCEPT !.pc = "ready"])
  BY <1>2 DEF Preview!Put
<1>5. /\ store' \in [Preview!Sessions -> Sandboxes \union {NoSession}]
      /\ \A t \in Preview!Sessions \ {s} : store'[t] = store[t]
  BY <1>2, <1>4, OfWorker
<1>6. CASE \E cause \in Preview!Causes : Preview!Fail(w, cause)
  BY <1>1, <1>2, <1>3, <1>5, <1>6, OfWorker, Fails
<1>7. CASE ~ \E cause \in Preview!Causes : Preview!Fail(w, cause)
  <2> DEFINE x == [validation[w] EXCEPT !.pc = "ready"]
  <2>1. ~ Preview!Throws(w) /\ "final" \in Preview!Causes
    BY <1>7, ThrowsFails DEF Preview!Causes
  <2>2. store' = [store EXCEPT ![s] = validation[w].sandbox] /\ validation' = [validation EXCEPT ![w] = x]
    BY <1>4, <1>7, <2>1 DEF Preview!Answer
  <2>3. /\ x \in Exec /\ GoesOnAs(w, x) /\ x.pc = "ready" /\ x.session = s /\ x.sandbox = validation[w].sandbox
        /\ x.kind = validation[w].kind
    BY <1>2 DEF Exec, Preview!Pcs, GoesOnAs
  <2> HIDE DEF x
  <2>4. validation'[w] = x
    BY <1>2, <2>2
  <2>5. ASSUME s \notin contested PROVE Stands(w)'
    <3>1. validation[w].kind = "run" => \A n \in Preview!Gating : command[s][n] = "SUCCEEDED"
      BY <1>1, <1>2, <2>5 DEF Stands
    <3>2. store'[s] = x.sandbox /\ command' = command
      BY <1>2, <1>3, <2>2, <2>3, OfWorker
    <3>3. QED
      BY <2>3, <2>4, <3>1, <3>2 DEF Stands, Published
  <2>6. /\ recorded' \in [Preview!Sessions -> SessionRow]
        /\ command' \in [Preview!Sessions -> [Preview!Gating -> {"none", "SUCCEEDED", "FAILED"}]]
        /\ x.pc # "steps" /\ x.pc \in {"steps", "put", "ready"}
    BY <1>3, <2>3, OfWorker
  <2>7. QED
    BY <1>1, <1>2, <1>3, <1>5, <2>2, <2>3, <2>5, <2>6, SessionGoesOn
<1>8. QED
  BY <1>6, <1>7

LEMMA CallThrowsKeeps ==
    ASSUME Preview!PreviewSessionAssumption, PreviewInv, NEW w \in Validators, Preview!CallThrows(w)
    PROVE  PreviewInv'
<1>1. PICK cause \in Preview!Causes : Preview!Fail(w, cause)
  BY ThrowsFails DEF Preview!CallThrows
<1>2. Works(w) /\ validation[w].pc \notin Published
  BY DEF Preview!CallThrows, Works, Published
<1>3. UNCHANGED <<run, job, reopen, sandbox, expired, Preview!rows, store, asked, answered, crashes, Preview!history>>
  BY DEF Preview!CallThrows
<1>4. QED
  BY <1>1, <1>2, <1>3, FailKeeps

\* What an execution of a run, or of a reopen, has when it is about to publish.
LEMMA AboutToPublish ==
    ASSUME Preview!PreviewSessionAssumption, PreviewInv, NEW w \in Validators, validation[w].pc \in {"ready"} \union Published
    PROVE  LET x == validation[w] IN
           /\ Works(w) /\ x \in Exec /\ validation \in [Validators -> Exec] /\ Holding(w)
           /\ x.session \in Preview!Sessions /\ x.session # NoSession /\ recorded[x.session].status # "none"
           /\ x.sandbox \in Sandboxes /\ x.sandbox # NoSession /\ sandbox[x.sandbox] # "none"
           /\ x.sandbox \notin expired => sandbox[x.sandbox] = "alive"
           /\ x.session \notin contested => Stands(w)
           /\ \A v \in Validators \ {w} : validation[v].sandbox # x.sandbox
           /\ x.session \notin contested => \A v \in Validators \ {w} : validation[v].session # x.session
BY ItsOwn, OfWorker DEF Holding, HasSession, HoldsSandbox, Works, Published, PreviewInv, Apart

LEMMA RecordPreviewReadyKeeps ==
    ASSUME Preview!PreviewSessionAssumption, PreviewInv, NEW w \in Validators, Preview!RecordPreviewReady(w)
    PROVE  PreviewInv'
<1>1. validation[w].pc = "ready" /\ validation[w].pc \notin Published /\ Works(w) /\ validation[w].kind = "run" /\ OfRun(w)
  BY DEF Preview!RecordPreviewReady, Preview!At, Preview!Kind, Published, Works, OfRun
<1>2. PICK s \in Preview!RunSessions :
        /\ s = validation[w].session /\ s \in Preview!Sessions /\ s \notin Preview!ReopenSessions /\ s # NoSession
  BY <1>1, ItsOwn, SessionsAreApart DEF Holding, HasSession, Preview!FirstReopen
<1>3. PICK b \in Sandboxes : b = validation[w].sandbox /\ b # NoSession
  BY <1>1, AboutToPublish
<1>4. /\ validation[w] \in Exec /\ validation \in [Validators -> Exec] /\ Holding(w) /\ recorded[s].status # "none"
      /\ sandbox[b] # "none" /\ (b \notin expired => sandbox[b] = "alive")
      /\ s \notin contested => Stands(w) /\ \A v \in Validators \ {w} : validation[v].session # s
      /\ \A v \in Validators \ {w} : validation[v].sandbox # b
  BY <1>1, <1>2, <1>3, AboutToPublish
<1>5. UNCHANGED <<run, job, reopen, sandbox, expired, command, store, asked, crashes, contested>>
  BY DEF Preview!RecordPreviewReady
<1>6. CASE ~ Preview!Holds(w)
  <2>1. Preview!Fail(w, "stopped") /\ UNCHANGED <<recorded, preview, answered, unheard>> /\ "stopped" \in Preview!Causes
    BY <1>6 DEF Preview!RecordPreviewReady, Preview!Causes
  <2>2. QED
    BY <1>1, <1>5, <2>1, FailKeeps DEF Preview!rows, Preview!history
<1>7. CASE Preview!Holds(w)
  <2>1. /\ recorded' = [recorded EXCEPT ![s].status = "READY"]
        /\ preview' = [preview EXCEPT ![s] = [status |-> "READY", sandbox |-> b]]
        /\ answered' = TRUE
    BY <1>2, <1>3, <1>7 DEF Preview!RecordPreviewReady, Preview!Publish
  <2>2. PICK x \in Exec :
           /\ validation' = [validation EXCEPT ![w] = x] /\ GoesOnAs(w, x) /\ x.session = s /\ x.sandbox = b
           /\ \/ x.pc = "complete" /\ unheard' = unheard \ {s}
              \/ x.pc = "unwind" /\ unheard' = unheard \union {s}
    <3>1. CASE Preview!Heard(w) /\ Preview!Goto(w, "complete")
      <4> DEFINE x == [validation[w] EXCEPT !.pc = "complete"]
      <4>1. x \in Exec /\ GoesOnAs(w, x) /\ x.session = s /\ x.sandbox = b /\ x.pc = "complete"
        BY <1>2, <1>3, <1>4 DEF Exec, Preview!Pcs, GoesOnAs
      <4>2. validation' = [validation EXCEPT ![w] = x] /\ unheard' = unheard \ {s}
        BY <1>2, <1>4, <3>1 DEF Preview!Heard, Preview!Goto
      <4>3. QED
        BY <4>1, <4>2
    <3>2. CASE Preview!NotHeard(w)
      <4>1. PICK cause \in Preview!Causes : Preview!Fail(w, cause)
        BY <3>2, ThrowsFails DEF Preview!NotHeard
      <4> DEFINE x == [validation[w] EXCEPT !.pc = "unwind", !.cause = cause]
      <4>2. x \in Exec /\ GoesOnAs(w, x) /\ x.session = s /\ x.sandbox = b /\ x.pc = "unwind"
        BY <1>2, <1>3, <1>4 DEF Exec, Preview!Pcs, GoesOnAs
      <4>3. validation' = [validation EXCEPT ![w] = x] /\ unheard' = unheard \union {s}
        BY <1>2, <1>4, <3>2, <4>1 DEF Preview!NotHeard, Preview!Fail
      <4>4. QED
        BY <4>2, <4>3
    <3>3. QED
      BY <1>7, <3>1, <3>2 DEF Preview!RecordPreviewReady
  <2>3. /\ validation'[w] = x /\ \A v \in Validators \ {w} : validation'[v] = validation[v]
        /\ x.kind = "run"
    BY <1>1, <1>4, <2>2 DEF GoesOnAs
  <2>4. /\ recorded' \in [Preview!Sessions -> SessionRow]
        /\ \A t \in Preview!Sessions : recorded'[t].status # "none" <=> recorded[t].status # "none"
        /\ preview' \in [Preview!Sessions -> Shown]
        /\ preview'[s].status = "READY" /\ preview'[s].sandbox = b
        /\ \A t \in Preview!Sessions \ {s} : preview'[t] = preview[t]
    <3>1. recorded \in [Preview!Sessions -> SessionRow] /\ preview \in [Preview!Sessions -> Shown]
      BY OfWorker
    <3>2. [status |-> "READY", sandbox |-> b] \in Shown
      BY DEF Shown
    <3>3. QED
      BY <1>2, <1>4, <2>1, <3>1, <3>2 DEF SessionRow
  <2>5. /\ unheard' \subseteq Sandboxes \union Preview!Sessions
        /\ \A t \in Preview!Sessions \ {s} : t \in unheard' <=> t \in unheard
        /\ \A c \in Sandboxes : c \in unheard' <=> c \in unheard
    BY <1>2, <2>2, SessionsAreApart DEF PreviewInv, Preview!TypeOK
  <2>6. Touches(w, x)
    BY <1>2, <1>3, <1>5, <2>2, <2>4, <2>5, OfWorker DEF Touches
  <2>7. Preview!TypeOK'
    <3>1. Preview!TypeOK /\ validation' \in [Validators -> Exec]
      BY <1>4, <2>2 DEF PreviewInv
    <3>2. QED
      BY <1>5, <2>1, <2>4, <2>5, <3>1 DEF Preview!TypeOK, Exec, SessionRow, Shown
  <2>8. RunsApart' /\ OneReopen'
    BY <1>1, <1>5, <2>2, <2>6, QueueStays
  <2>9. Numbered'
    BY <1>5, <2>3, <2>4, <2>6, SessionsAreApart, NumberedStays
  <2>10. Holding(w)'
    BY <1>2, <1>3, <1>4, <1>5, <2>2, <2>3, <2>4 DEF Holding, HoldsSandbox, HasSession, Published
  <2>11. PublishesItsOwn(w)'
    BY <2>2, <2>3, <2>4 DEF PublishesItsOwn
  <2>12. ASSUME s \notin contested PROVE Stands(w)'
    BY <1>1, <1>2, <1>3, <1>4, <1>5, <2>2, <2>3, <2>4, <2>12 DEF Stands, Published
  <2>13. Shown1(s)'
    <3>1. sandbox'[preview'[s].sandbox] # "none"
      BY <1>4, <1>5, <2>4
    <3>2. \A v \in Validators : validation'[v].sandbox # NoSession /\ preview'[s].sandbox = validation'[v].sandbox => validation'[v].session = s
      BY <1>4, <2>2, <2>3, <2>4
    <3>3. s \notin unheard' => \E v \in Validators : validation'[v].pc \in Published /\ validation'[v].session = s
      BY <2>2, <2>3 DEF Published
    <3>4. ASSUME Preview!Live(s)', Preview!Trusted(s)' PROVE Shows(s)'
      <4>1. b \notin expired /\ s \notin contested /\ s \notin unheard'
        BY <1>5, <2>4, <3>4 DEF Preview!Live, Preview!Trusted
      <4>2. x.pc = "complete" /\ Stands(w) /\ \A v \in Validators \ {w} : validation'[v].session # s
        BY <1>4, <2>2, <2>3, <4>1
      <4>3. store[s] = b /\ \A n \in Preview!Gating : command[s][n] = "SUCCEEDED"
        BY <1>1, <1>2, <1>3, <4>1, <4>2 DEF Stands
      <4>4. \A v \in Validators : validation'[v].session = s => validation'[v].pc \in Published
        BY <2>3, <4>2 DEF Published
      <4>5. QED
        BY <1>4, <1>5, <2>4, <4>1, <4>3, <4>4 DEF Shows
    <3>5. QED
      BY <1>2, <1>4, <2>4, <3>1, <3>2, <3>3, <3>4 DEF Shown1
  <2>14. \A t \in {validation[w].session, x.session} : t # NoSession => Shown1(t)'
    BY <1>2, <2>2, <2>13
  <2>15. \A c \in Sandboxes : sandbox'[c] = "alive" /\ (c = validation[w].sandbox \/ sandbox[c] # "alive") => Paid(c)'
    BY <1>3, <1>5, <2>2, <2>3 DEF Paid
  <2>16. run.status # "COMPLETED" /\ run' = run
    BY <1>5, <1>7 DEF Preview!Holds
  <2>17. x.session \notin contested' => Stands(w)'
    BY <1>5, <2>2, <2>12
  <2>18. QED
    BY <1>1, <1>7, <2>6, <2>7, <2>8, <2>9, <2>10, <2>11, <2>14, <2>15, <2>16, <2>17, WorkerKeeps
<1>8. QED
  BY <1>6, <1>7

LEMMA RecordPreviewReopenedKeeps ==
    ASSUME Preview!PreviewSessionAssumption, PreviewInv, NEW w \in Validators, Preview!RecordPreviewReopened(w)
    PROVE  PreviewInv'
<1>1. validation[w].pc = "ready" /\ validation[w].pc \notin Published /\ Works(w) /\ validation[w].kind = "reopen" /\ Reopening(w)
  BY DEF Preview!RecordPreviewReopened, Preview!At, Preview!Kind, Published, Works, Reopening
<1>2. PICK s \in Preview!ReopenSessions :
        /\ s = validation[w].session /\ s \in Preview!Sessions /\ s \notin Preview!RunSessions /\ s # NoSession
        /\ s \notin contested
  BY <1>1, ItsOwn, OfWorker, SessionsAreApart DEF Holding, HasSession, Preview!FirstReopen
<1>3. PICK b \in Sandboxes : b = validation[w].sandbox /\ b # NoSession
  BY <1>1, AboutToPublish
<1>4. /\ validation[w] \in Exec /\ validation \in [Validators -> Exec] /\ Holding(w) /\ recorded[s].status # "none"
      /\ sandbox[b] # "none" /\ (b \notin expired => sandbox[b] = "alive")
      /\ Stands(w) /\ \A v \in Validators \ {w} : validation[v].session # s
      /\ \A v \in Validators \ {w} : validation[v].sandbox # b
      /\ preview[s].status = "none"
  BY <1>1, <1>2, <1>3, AboutToPublish DEF Holding, HasSession
<1>5. /\ UNCHANGED <<run, job, sandbox, expired, command, store, asked, crashes, contested>>
      /\ recorded' = [recorded EXCEPT ![s].status = "READY"]
      /\ preview' = [preview EXCEPT ![s] = [status |-> "READY", sandbox |-> b]]
      /\ answered' = TRUE
  BY <1>2, <1>3 DEF Preview!RecordPreviewReopened, Preview!Publish
<1>6. reopen = "active" /\ run.status = "COMPLETED" /\ \A v \in Validators \ {w} : ~ Reopening(v)
  BY <1>1 DEF PreviewInv, OneReopen
<1>7. PICK x \in Exec :
         /\ validation' = [validation EXCEPT ![w] = x]
         /\ \/ x = Preview!Idle /\ unheard' = unheard \ {s} /\ reopen' = "none"
            \/ /\ GoesOnAs(w, x) /\ x.session = s /\ x.sandbox = b
               /\ x.pc = "unwind" /\ unheard' = unheard \union {s} /\ reopen' = reopen
  <2>1. CASE Preview!Heard(w) /\ Preview!End(w) /\ reopen' = "none"
    BY <1>2, <2>1, IdleIs DEF Preview!Heard, Preview!End
  <2>2. CASE Preview!NotHeard(w) /\ UNCHANGED reopen
    <3>1. PICK cause \in Preview!Causes : Preview!Fail(w, cause)
      BY <2>2, ThrowsFails DEF Preview!NotHeard
    <3> DEFINE x == [validation[w] EXCEPT !.pc = "unwind", !.cause = cause]
    <3>2. x \in Exec /\ GoesOnAs(w, x) /\ x.session = s /\ x.sandbox = b /\ x.pc = "unwind"
      BY <1>2, <1>3, <1>4 DEF Exec, Preview!Pcs, GoesOnAs
    <3>3. validation' = [validation EXCEPT ![w] = x] /\ unheard' = unheard \union {s}
      BY <1>2, <1>4, <2>2, <3>1 DEF Preview!NotHeard, Preview!Fail
    <3>4. QED
      BY <2>2, <3>2, <3>3
  <2>3. QED
    BY <2>1, <2>2 DEF Preview!RecordPreviewReopened
<1>8. /\ validation'[w] = x /\ \A v \in Validators \ {w} : validation'[v] = validation[v]
      /\ x.session \in {NoSession, s} /\ x.sandbox \in {NoSession, b} /\ x.pc \in {"idle", "unwind"}
  BY <1>4, <1>7, IdleIs
<1>9. /\ recorded' \in [Preview!Sessions -> SessionRow]
      /\ \A t \in Preview!Sessions : recorded'[t].status # "none" <=> recorded[t].status # "none"
      /\ preview' \in [Preview!Sessions -> Shown]
      /\ preview'[s].status = "READY" /\ preview'[s].sandbox = b
      /\ \A t \in Preview!Sessions \ {s} : preview'[t] = preview[t]
  <2>1. recorded \in [Preview!Sessions -> SessionRow] /\ preview \in [Preview!Sessions -> Shown]
    BY OfWorker
  <2>2. [status |-> "READY", sandbox |-> b] \in Shown
    BY DEF Shown
  <2>3. QED
    BY <1>2, <1>4, <1>5, <2>1, <2>2 DEF SessionRow
<1>10. /\ unheard' \subseteq Sandboxes \union Preview!Sessions
       /\ \A t \in Preview!Sessions \ {s} : t \in unheard' <=> t \in unheard
       /\ \A c \in Sandboxes : c \in unheard' <=> c \in unheard
  BY <1>2, <1>7, SessionsAreApart DEF PreviewInv, Preview!TypeOK
<1>11. Touches(w, x)
  BY <1>2, <1>3, <1>5, <1>7, <1>8, <1>9, <1>10, OfWorker DEF Touches
<1>12. Preview!TypeOK'
  <2>1. Preview!TypeOK /\ validation' \in [Validators -> Exec] /\ reopen' \in {"none", "waiting", "active"}
    BY <1>4, <1>6, <1>7 DEF PreviewInv
  <2>2. QED
    BY <1>5, <1>9, <1>10, <2>1 DEF Preview!TypeOK, Exec, SessionRow, Shown
<1>13. RunsApart' /\ OneReopen'
  <2>1. RunsApart /\ OneReopen /\ ~ OfRun(w)
    BY <1>1 DEF PreviewInv, OfRun
  <2>2. \A v \in Validators : (OfRun(v)' => v # w) /\ (Reopening(v)' => v = w /\ reopen' = reopen)
    BY <1>1, <1>6, <1>7, <1>8, IdleIs DEF OfRun, Reopening, Works, GoesOnAs
  <2>3. RunsApart'
    BY <1>5, <1>8, <2>1, <2>2 DEF RunsApart, OfRun, Works
  <2>4. OneReopen'
    BY <1>5, <1>6, <1>7, <1>8, <2>1, <2>2, IdleIs DEF OneReopen, Works, GoesOnAs
  <2>5. QED
    BY <2>3, <2>4
<1>14. Numbered'
  BY <1>6, <1>7, <1>8, <1>9, <1>11, SessionsAreApart, NumberedStays
<1>15. x # Preview!Idle => Holding(w)' /\ PublishesItsOwn(w)' /\ Stands(w)'
  <2>1. SUFFICES ASSUME x # Preview!Idle PROVE Holding(w)' /\ PublishesItsOwn(w)' /\ Stands(w)'
    OBVIOUS
  <2>2. GoesOnAs(w, x) /\ x.session = s /\ x.sandbox = b /\ x.pc = "unwind" /\ x.kind = "reopen"
    BY <1>1, <1>7, <2>1 DEF GoesOnAs
  <2>3. QED
    BY <1>2, <1>4, <1>5, <1>8, <1>9, <2>2 DEF Holding, PublishesItsOwn, Stands, HoldsSandbox, HasSession, Published
<1>16. Shown1(s)'
  <2>1. sandbox'[preview'[s].sandbox] # "none"
    BY <1>4, <1>5, <1>9
  <2>2. \A v \in Validators : validation'[v].sandbox # NoSession /\ preview'[s].sandbox = validation'[v].sandbox => validation'[v].session = s
    BY <1>4, <1>7, <1>8, <1>9, IdleIs
  <2>3. ASSUME Preview!Live(s)', Preview!Trusted(s)' PROVE Shows(s)'
    <3>1. b \notin expired /\ s \notin unheard' /\ x.session = NoSession
      BY <1>5, <1>7, <1>9, <2>3, IdleIs DEF Preview!Live, Preview!Trusted
    <3>2. store[s] = b
      BY <1>1, <1>2, <1>3, <1>4, <3>1 DEF Stands
    <3>3. \A v \in Validators : validation'[v].session # s
      BY <1>2, <1>4, <1>8, <3>1
    <3>4. QED
      BY <1>2, <1>4, <1>5, <1>9, <3>1, <3>2, <3>3 DEF Shows
  <2>4. QED
    BY <1>2, <1>4, <1>9, <2>1, <2>2, <2>3 DEF Shown1
<1>17. \A t \in {validation[w].session, x.session} : t # NoSession => Shown1(t)'
  BY <1>2, <1>8, <1>16
<1>18. \A c \in Sandboxes : sandbox'[c] = "alive" /\ (c = validation[w].sandbox \/ sandbox[c] # "alive") => Paid(c)'
  <2>1. SUFFICES ASSUME sandbox'[b] = "alive" PROVE Paid(b)'
    BY <1>3, <1>5
  <2>2. b \notin expired
    BY <1>5, <2>1, OfWorker
  <2>3. Preview!Live(s)' /\ preview'[s].sandbox = b /\ run'.status = "COMPLETED"
    BY <1>5, <1>6, <1>9, <2>2 DEF Preview!Live
  <2>4. QED
    BY <1>2, <2>3 DEF Paid
<1>19. \A t \in Preview!Sessions : Preview!Live(t) \/ t \in contested =>
          preview'[t].sandbox = preview[t].sandbox /\ (Preview!Live(t)' \/ t \in contested')
  <2>1. ~ Preview!Live(s)
    BY <1>4 DEF Preview!Live
  <2>2. QED
    BY <1>2, <1>5, <1>9, <2>1 DEF Preview!Live
<1>20. \A t \in Preview!RunSessions : preview'[t].sandbox = preview[t].sandbox
  BY <1>2, <1>9, SessionsAreApart
<1>21. run' = run
  BY <1>5
<1>22. QED
  BY <1>11, <1>12, <1>13, <1>14, <1>15, <1>17, <1>18, <1>19, <1>20, <1>21, WorkerKeeps

-----------------------------------------------------------------------------
(* Cleanup *)

\* The run and the jobs, when an execution of the run ends or goes on to revoke its lease.
LEMMA QueueSettles ==
    ASSUME Preview!PreviewSessionAssumption, PreviewInv, NEW w \in Validators, OfRun(w), NEW x \in Exec, Touches(w, x),
           run'.version = run.version, reopen' = reopen, reopen # "none" => run'.status = "COMPLETED",
           \/ x = Preview!Idle /\ job'.version = job.version /\ (validation[w].version # job.version => job' = job)
           \/ GoesOnAs(w, x) /\ job' = job
    PROVE  RunsApart' /\ OneReopen'
<1>1. /\ \A v \in Validators \ {w} : validation'[v] = validation[v]
      /\ validation'[w] = x
  BY OfWorker, OtherExecutionsKeep DEF Touches
<1>2. RunsApart /\ OneReopen
  BY DEF PreviewInv
<1>3. \A v \in Validators \ {w} : /\ Works(v)' <=> Works(v)
                                  /\ OfRun(v)' <=> OfRun(v)
                                  /\ Reopening(v)' <=> Reopening(v)
                                  /\ validation'[v].version = validation[v].version
                                  /\ validation'[v].attempt = validation[v].attempt
                                  /\ OfRun(v) => validation[v].version # validation[w].version
  BY <1>1, <1>2 DEF Works, OfRun, Reopening, RunsApart
<1>4. ~ Reopening(w)'
  BY <1>1, IdleIs DEF OfRun, Reopening, Works, GoesOnAs
<1>5. CASE x = Preview!Idle /\ job'.version = job.version /\ (validation[w].version # job.version => job' = job)
  <2>1. ~ Works(w)' /\ ~ OfRun(w)'
    BY <1>1, <1>5, IdleIs DEF Works, OfRun
  <2>2. RunsApart'
    BY <1>2, <1>3, <1>5, <2>1 DEF RunsApart
  <2>3. OneReopen'
    BY <1>1, <1>2, <1>3, <1>4, <1>5, <2>1 DEF OneReopen
  <2>4. QED
    BY <2>2, <2>3
<1>6. CASE GoesOnAs(w, x) /\ job' = job
  <2>1. /\ Works(w)' /\ OfRun(w)' /\ validation'[w].version = validation[w].version
        /\ validation'[w].attempt = validation[w].attempt
    BY <1>1, <1>6 DEF GoesOnAs, OfRun, Works
  <2>2. RunsApart'
    BY <1>2, <1>3, <1>6, <2>1 DEF RunsApart
  <2>3. OneReopen'
    BY <1>1, <1>2, <1>3, <1>4, <1>6, <2>1 DEF OneReopen
  <2>4. QED
    BY <2>2, <2>3
<1>7. QED
  BY <1>5, <1>6

LEMMA UnwindKeeps ==
    ASSUME Preview!PreviewSessionAssumption, PreviewInv, NEW w \in Validators, Careful, Preview!Unwind(w)
    PROVE  PreviewInv'
<1> DEFINE x == [validation[w] EXCEPT !.pc = "after"]
<1>1. validation[w].pc = "unwind" /\ validation[w].pc \notin Published /\ Works(w)
  BY DEF Preview!Unwind, Preview!At, Published, Works
<1>2. /\ validation[w] \in Exec /\ validation \in [Validators -> Exec] /\ Holding(w)
      /\ validation[w].sandbox \in Sandboxes \union {NoSession}
      /\ validation[w].session \in Preview!Sessions \union {NoSession}
      /\ validation[w].session # NoSession => recorded[validation[w].session].status # "none"
      /\ validation[w].sandbox # NoSession => sandbox[validation[w].sandbox] # "none"
  BY ItsOwn, OfWorker DEF Holding
<1>3. UNCHANGED <<run, job, reopen, expired, command, preview, asked, answered, crashes, unheard, contested>>
  BY DEF Preview!Unwind, Preview!history
<1>4. /\ sandbox' = IF validation[w].sandbox # NoSession THEN [sandbox EXCEPT ![validation[w].sandbox] = "dead"] ELSE sandbox
      /\ store' = IF validation[w].session # NoSession THEN [store EXCEPT ![validation[w].session] = NoSession] ELSE store
      /\ \/ recorded' = recorded
         \/ validation[w].session # NoSession /\ recorded' = [recorded EXCEPT ![validation[w].session].status = "FAILED"]
      /\ validation' = [validation EXCEPT ![w].pc = "after"]
  BY DEF Preview!Unwind, Preview!Outcomes, Preview!Try, Preview!Terminates, Preview!Goto, Careful
<1>5. /\ x \in Exec /\ GoesOnAs(w, x) /\ x.pc = "after" /\ x.session = validation[w].session
      /\ x.sandbox = validation[w].sandbox /\ x.kind = validation[w].kind
  BY <1>2 DEF Exec, Preview!Pcs, GoesOnAs
<1>6. validation' = [validation EXCEPT ![w] = x]
  BY <1>2, <1>4
<1> HIDE DEF x
<1>7. validation'[w] = x
  BY <1>2, <1>6
<1>8. /\ sandbox' \in [Sandboxes -> {"none", "alive", "dead"}]
      /\ \A b \in Sandboxes \ {validation[w].sandbox} : sandbox'[b] = sandbox[b]
      /\ validation[w].sandbox # NoSession => sandbox'[validation[w].sandbox] = "dead"
      /\ \A b \in Sandboxes : sandbox'[b] \in {sandbox[b], "dead"}
  BY <1>2, <1>4, OfWorker
<1>9. /\ store' \in [Preview!Sessions -> Sandboxes \union {NoSession}]
      /\ \A s \in Preview!Sessions \ {validation[w].session} : store'[s] = store[s]
  BY <1>2, <1>4, OfWorker
<1>10. /\ recorded' \in [Preview!Sessions -> SessionRow]
       /\ \A s \in Preview!Sessions : recorded'[s].status # "none" <=> recorded[s].status # "none"
  <2>1. recorded \in [Preview!Sessions -> SessionRow]
    BY OfWorker
  <2>2. QED
    BY <1>2, <1>4, <2>1 DEF SessionRow
<1>11. Touches(w, x)
  BY <1>2, <1>3, <1>5, <1>6, <1>8, <1>9, <1>10, OfWorker DEF Touches
<1>12. Holding(w)' /\ Stands(w)' /\ x.pc \notin Published \union {"create", "session"}
  BY <1>2, <1>5, <1>7, <1>8, <1>10 DEF Holding, Stands, HoldsSandbox, HasSession, Published
<1>13. /\ command' \in [Preview!Sessions -> [Preview!Gating -> {"none", "SUCCEEDED", "FAILED"}]]
       /\ unheard' \subseteq Sandboxes \union Preview!Sessions
  BY <1>3, OfWorker DEF PreviewInv, Preview!TypeOK
<1>14. \A b \in Sandboxes : ~ (sandbox'[b] = "alive" /\ (b = validation[w].sandbox \/ sandbox[b] # "alive"))
  BY <1>2, <1>8, SessionsAreApart
<1>15. \A s \in Preview!ReopenSessions : recorded'[s].status # "none" <=> recorded[s].status # "none"
  BY <1>10, SessionsAreApart
<1>16. QED
  BY <1>1, <1>3, <1>5, <1>8, <1>9, <1>10, <1>11, <1>12, <1>13, <1>14, <1>15, GoesOn

\* After its cleanup an execution has nothing that lives.
LEMMA LeavesNothing ==
    ASSUME Preview!PreviewSessionAssumption, PreviewInv, NEW w \in Validators, validation[w].pc = "after"
    PROVE  \A b \in Sandboxes : b = validation[w].sandbox => sandbox[b] = "dead"
BY ItsOwn DEF Holding

LEMMA RepairKeeps ==
    ASSUME Preview!PreviewSessionAssumption, PreviewInv, NEW w \in Validators, Preview!Repair(w)
    PROVE  PreviewInv'
<1> DEFINE x == [validation[w] EXCEPT !.pc = "create", !.repairs = @ + 1, !.session = NoSession, !.sandbox = NoSession,
                                      !.step = 0, !.cause = "none"]
<1>1. /\ validation[w].pc = "after" /\ validation[w].pc \notin Published /\ Works(w) /\ validation[w].kind = "run"
      /\ validation[w].repairs < MaxRepairs /\ validation' = [validation EXCEPT ![w] = x]
  BY DEF Preview!Repair, Preview!At, Preview!Kind, Published, Works
<1>2. validation[w] \in Exec /\ validation \in [Validators -> Exec]
  BY ItsOwn, OfWorker
<1>3. UNCHANGED <<run, job, reopen, sandbox, expired, recorded, command, preview, store, asked, answered, crashes, unheard, contested>>
  BY DEF Preview!Repair, Preview!rows, Preview!history
<1>4. /\ x \in Exec /\ GoesOnAs(w, x) /\ x.pc = "create" /\ x.session = NoSession /\ x.sandbox = NoSession
      /\ x.kind = "run"
  <2>1. validation[w].repairs + 1 \in 0 .. MaxRepairs /\ 0 \in 0 .. Len(Preview!Pipeline("run")) + 1
    <3> HIDE DEF x
    <3>1. /\ validation[w].repairs \in 0 .. MaxRepairs /\ MaxRepairs \in Nat
          /\ Len(Preview!Pipeline("run")) = 12
      BY <1>2, RunPipeline DEF Exec, Preview!PreviewSessionAssumption
    <3>2. QED
      BY <1>1, <3>1
  <2>2. QED
    BY <1>1, <1>2, <2>1 DEF Exec, Preview!Pcs, Preview!Causes, GoesOnAs
<1> HIDE DEF x
<1>5. validation'[w] = x
  BY <1>1, <1>2
<1>6. Touches(w, x)
  BY <1>1, <1>3, <1>4, OfWorker DEF Touches
<1>7. RunsApart' /\ OneReopen' /\ Numbered'
  BY <1>1, <1>3, <1>4, <1>6, QueueStays, NumberedStays
<1>8. Preview!TypeOK'
  <2>1. Preview!TypeOK /\ validation' \in [Validators -> Exec]
    BY <1>1, <1>2, <1>4 DEF PreviewInv
  <2>2. QED
    BY <1>3, <2>1 DEF Preview!TypeOK, Exec
<1>9. Holding(w)' /\ Stands(w)' /\ x.pc \notin Published
  BY <1>4, <1>5 DEF Holding, Stands, HoldsSandbox, HasSession, Published
<1>10. \A b \in Sandboxes : ~ (sandbox'[b] = "alive" /\ (b = validation[w].sandbox \/ sandbox[b] # "alive"))
  BY <1>1, <1>3, LeavesNothing
<1>11. QED
  BY <1>1, <1>3, <1>4, <1>6, <1>7, <1>8, <1>9, <1>10, MovesOn

LEMMA ConcludeKeeps ==
    ASSUME Preview!PreviewSessionAssumption, PreviewInv, NEW w \in Validators, Preview!Conclude(w)
    PROVE  PreviewInv'
<1> DEFINE x == Preview!Idle
<1>1. /\ validation[w].pc = "after" /\ validation[w].pc \notin Published /\ OfRun(w)
      /\ validation' = [validation EXCEPT ![w] = x]
  BY DEF Preview!Conclude, Preview!At, Preview!Kind, Preview!End, Published, Works, OfRun
<1>2. validation[w] \in Exec /\ validation \in [Validators -> Exec]
  BY ItsOwn, OfWorker
<1>3. UNCHANGED <<reopen, sandbox, expired, recorded, command, preview, store, asked, answered, crashes, unheard, contested>>
  BY DEF Preview!Conclude, Preview!rows, Preview!history
<1>4. x \in Exec /\ x.pc = "idle" /\ x.session = NoSession /\ x.sandbox = NoSession /\ x.kind = "run"
  BY IdleIs
<1> HIDE DEF x
<1>5. Touches(w, x)
  BY <1>1, <1>3, <1>4, OfWorker DEF Touches
<1>6. Preview!TypeOK /\ OneReopen /\ RunsApart
  BY DEF PreviewInv
<1>7. /\ run' = run \/ (Preview!Holds(w) /\ run' = [run EXCEPT !.status = "FAILED"])
      /\ run' \in [status : {"RUNNING", "STOPPED", "COMPLETED", "FAILED"}, version : 1 .. MaxVersion]
      /\ run'.version = run.version
      /\ run'.status = "RUNNING" => run' = run
      /\ run.status = "COMPLETED" => run' = run
      /\ reopen # "none" => run'.status = "COMPLETED"
  <2>1. run' = run \/ (Preview!Holds(w) /\ run' = [run EXCEPT !.status = "FAILED"])
    BY DEF Preview!Conclude
  <2>2. run \in [status : {"RUNNING", "STOPPED", "COMPLETED", "FAILED"}, version : 1 .. MaxVersion]
    BY <1>6 DEF Preview!TypeOK
  <2>3. QED
    BY <1>6, <2>1, <2>2 DEF Preview!Holds, OneReopen
<1>8. /\ job' \in [state : {"waiting", "active", "done"}, version : 1 .. MaxVersion, attempt : 1 .. MaxAttempts]
      /\ job'.version = job.version /\ (validation[w].version # job.version => job' = job)
  <2>1. \/ Preview!Settle(w, [job EXCEPT !.state = "done"])
        \/ /\ validation[w].attempt < MaxAttempts
           /\ Preview!Settle(w, [job EXCEPT !.state = "waiting", !.attempt = validation[w].attempt + 1])
    BY DEF Preview!Conclude
  <2>2. job \in [state : {"waiting", "active", "done"}, version : 1 .. MaxVersion, attempt : 1 .. MaxAttempts]
    BY <1>6 DEF Preview!TypeOK
  <2>3. validation[w].attempt < MaxAttempts => validation[w].attempt + 1 \in 1 .. MaxAttempts
    BY <1>2 DEF Exec, Preview!PreviewSessionAssumption
  <2>4. QED
    BY <2>1, <2>2, <2>3 DEF Preview!Settle
<1>9. RunsApart' /\ OneReopen'
  BY <1>1, <1>3, <1>4, <1>5, <1>7, <1>8, QueueSettles DEF x
<1>10. Numbered'
  BY <1>3, <1>4, <1>5, NumberedStays
<1>11. Preview!TypeOK'
  <2>1. validation' \in [Validators -> Exec]
    BY <1>1, <1>2, <1>4
  <2>2. QED
    BY <1>3, <1>6, <1>7, <1>8, <2>1 DEF Preview!TypeOK, Exec
<1>12. \A b \in Sandboxes : ~ (sandbox'[b] = "alive" /\ (b = validation[w].sandbox \/ sandbox[b] # "alive"))
  BY <1>1, <1>3, LeavesNothing
<1>13. x = Preview!Idle
  BY DEF x
<1>14. QED
  BY <1>1, <1>3, <1>4, <1>5, <1>7, <1>9, <1>10, <1>11, <1>12, <1>13, MovesOn

LEMMA CompleteRunKeeps ==
    ASSUME Preview!PreviewSessionAssumption, PreviewInv, NEW w \in Validators, Preview!CompleteRun(w)
    PROVE  PreviewInv'
<1>1. validation[w].pc = "complete" /\ validation[w].pc \in Published
  BY DEF Preview!CompleteRun, Preview!At, Published
<1>2. /\ Works(w) /\ validation[w] \in Exec /\ validation \in [Validators -> Exec] /\ Holding(w)
      /\ \A v \in Validators \ {w} : validation[v].sandbox # validation[w].sandbox
  BY <1>1, AboutToPublish
<1>3. PICK s \in Preview!RunSessions :
        /\ s = validation[w].session /\ s \in Preview!Sessions /\ s \notin Preview!ReopenSessions /\ s # NoSession
        /\ recorded[s].status # "none" /\ validation[w].kind = "run"
        /\ s \notin contested => Stands(w)
  BY <1>1, <1>2, AboutToPublish, SessionsAreApart DEF Holding, Preview!FirstReopen
<1>4. PICK b \in Sandboxes :
        /\ b = validation[w].sandbox /\ b # NoSession /\ sandbox[b] # "none" /\ (b \notin expired => sandbox[b] = "alive")
  BY <1>1, AboutToPublish
<1>5. OfRun(w) /\ UNCHANGED <<reopen, sandbox, expired, recorded, command, preview, store, asked, answered, crashes, unheard, contested>>
  BY <1>2, <1>3 DEF OfRun, Preview!CompleteRun, Preview!rows, Preview!history
<1>6. PICK x \in Exec :
         /\ validation' = [validation EXCEPT ![w] = x]
         /\ \/ /\ x = Preview!Idle /\ Preview!Settle(w, [job EXCEPT !.state = "done"])
               /\ Preview!Holds(w) /\ run' = [run EXCEPT !.status = "COMPLETED"]
            \/ /\ GoesOnAs(w, x) /\ x.pc = "revoke" /\ x.session = s /\ x.sandbox = b /\ x.kind = "run" /\ job' = job
               /\ run' = run \/ (Preview!Holds(w) /\ run' = [run EXCEPT !.status = "COMPLETED"])
  <2>1. CASE Preview!Holds(w) /\ run' = [run EXCEPT !.status = "COMPLETED"] /\ Preview!Settle(w, [job EXCEPT !.state = "done"]) /\ Preview!End(w)
    BY <2>1, IdleIs DEF Preview!End
  <2>2. ASSUME NEW causes \in SUBSET Preview!Causes, Preview!ToRevoke(w, causes),
               run' = run \/ (Preview!Holds(w) /\ run' = [run EXCEPT !.status = "COMPLETED"])
        PROVE  \E y \in Exec : /\ validation' = [validation EXCEPT ![w] = y]
                               /\ GoesOnAs(w, y) /\ y.pc = "revoke" /\ y.session = s /\ y.sandbox = b /\ y.kind = "run" /\ job' = job
                               /\ run' = run \/ (Preview!Holds(w) /\ run' = [run EXCEPT !.status = "COMPLETED"])
    <3>1. PICK cause \in causes : validation' = [validation EXCEPT ![w].pc = "revoke", ![w].cause = cause]
      BY <2>2 DEF Preview!ToRevoke
    <3> DEFINE y == [validation[w] EXCEPT !.pc = "revoke", !.cause = cause]
    <3>2. y \in Exec /\ GoesOnAs(w, y) /\ y.pc = "revoke" /\ y.session = s /\ y.sandbox = b /\ y.kind = "run"
      BY <1>2, <1>3, <1>4 DEF Exec, Preview!Pcs, GoesOnAs
    <3>3. validation' = [validation EXCEPT ![w] = y] /\ job' = job
      BY <1>2, <2>2, <3>1 DEF Preview!ToRevoke
    <3>4. QED
      BY <2>2, <3>2, <3>3
  <2>3. {"retryable", "final"} \subseteq Preview!Causes /\ {"stopped"} \subseteq Preview!Causes
    BY DEF Preview!Causes
  <2>4. QED
    BY <2>1, <2>2, <2>3 DEF Preview!CompleteRun
<1>7. /\ validation'[w] = x /\ \A v \in Validators \ {w} : validation'[v] = validation[v]
      /\ x.session \in {NoSession, s} /\ x.sandbox \in {NoSession, b} /\ x.kind = "run" /\ x.pc \in {"idle", "revoke"}
  BY <1>2, <1>6, IdleIs
<1>8. Touches(w, x)
  BY <1>3, <1>4, <1>5, <1>6, <1>7, OfWorker DEF Touches
<1>9. Preview!TypeOK /\ OneReopen
  BY DEF PreviewInv
<1>10. /\ run' \in [status : {"RUNNING", "STOPPED", "COMPLETED", "FAILED"}, version : 1 .. MaxVersion]
       /\ run'.version = run.version
       /\ run'.status = "RUNNING" => run' = run
       /\ run.status = "COMPLETED" => run'.status = "COMPLETED"
       /\ reopen # "none" => run'.status = "COMPLETED"
  <2>1. run \in [status : {"RUNNING", "STOPPED", "COMPLETED", "FAILED"}, version : 1 .. MaxVersion]
    BY <1>9 DEF Preview!TypeOK
  <2>2. run' = run \/ run' = [run EXCEPT !.status = "COMPLETED"]
    BY <1>6
  <2>3. QED
    BY <1>9, <2>1, <2>2 DEF OneReopen
<1>11. /\ job' \in [state : {"waiting", "active", "done"}, version : 1 .. MaxVersion, attempt : 1 .. MaxAttempts]
       /\ job'.version = job.version /\ (validation[w].version # job.version => job' = job)
  <2>1. job \in [state : {"waiting", "active", "done"}, version : 1 .. MaxVersion, attempt : 1 .. MaxAttempts]
    BY <1>9 DEF Preview!TypeOK
  <2>2. QED
    BY <1>6, <2>1 DEF Preview!Settle
<1>12. RunsApart' /\ OneReopen'
  BY <1>5, <1>6, <1>8, <1>10, <1>11, QueueSettles
<1>13. Numbered'
  BY <1>5, <1>7, <1>8, NumberedStays
<1>14. Preview!TypeOK'
  <2>1. validation' \in [Validators -> Exec]
    BY <1>2, <1>6
  <2>2. QED
    BY <1>5, <1>9, <1>10, <1>11, <2>1 DEF Preview!TypeOK, Exec
<1>15. x # Preview!Idle => Holding(w)' /\ PublishesItsOwn(w)' /\ (x.session \notin contested' => Stands(w)')
  <2>1. SUFFICES ASSUME x # Preview!Idle
                 PROVE  Holding(w)' /\ PublishesItsOwn(w)' /\ (x.session \notin contested' => Stands(w)')
    OBVIOUS
  <2>2. x.pc = "revoke" /\ x.session = s /\ x.sandbox = b /\ x.kind = "run"
    BY <1>6, <2>1
  <2>3. Holding(w)'
    BY <1>3, <1>4, <1>5, <1>7, <2>2 DEF Holding, HoldsSandbox, HasSession, Published
  <2>4. PublishesItsOwn(w)'
    BY <1>7, <2>2 DEF PublishesItsOwn
  <2>5. ASSUME s \notin contested PROVE Stands(w)'
    BY <1>1, <1>3, <1>4, <1>5, <1>7, <2>2, <2>5 DEF Stands, Published
  <2>6. QED
    BY <1>5, <2>2, <2>3, <2>4, <2>5
<1>16. Shown1(s)'
  <2>1. Shown1(s) /\ (Preview!Live(s)' <=> Preview!Live(s)) /\ (Preview!Trusted(s)' <=> Preview!Trusted(s))
    BY <1>3, <1>5 DEF PreviewInv, Preview!Live, Preview!Trusted
  <2>2. \A v \in Validators : /\ validation'[v].sandbox \in {NoSession, validation[v].sandbox}
                              /\ validation'[v].session \in {NoSession, validation[v].session}
    BY <1>3, <1>4, <1>7
  <2>3. /\ x.session = s => x.pc \in Published
        /\ run'.status = "COMPLETED" \/ (x.session = s /\ x.pc \in Published)
    <3>1. run \in [status : {"RUNNING", "STOPPED", "COMPLETED", "FAILED"}, version : 1 .. MaxVersion]
      BY <1>9 DEF Preview!TypeOK
    <3>2. QED
      BY <1>3, <1>6, <3>1, IdleIs DEF Published
  <2>4. \A v \in Validators :
          validation'[v].sandbox # NoSession /\ preview[s].sandbox = validation'[v].sandbox => validation'[v].session = s
    <3>1. x.sandbox # NoSession => x.session = s
      BY <1>6, IdleIs
    <3>2. QED
      BY <1>7, <2>1, <3>1 DEF Shown1
  <2>5. Shows(s) => Shows(s)'
    BY <1>3, <1>5, <1>7, <2>3 DEF Shows
  <2>6. \/ run'.status = "COMPLETED"
        \/ \E v \in Validators : validation'[v].pc \in Published /\ validation'[v].session = s
    BY <1>7, <2>3
  <2>7. QED
    BY <1>3, <1>5, <2>1, <2>4, <2>5, <2>6 DEF Shown1
<1>17. \A t \in {validation[w].session, x.session} : t # NoSession => Shown1(t)'
  BY <1>3, <1>7, <1>16
<1>18. \A c \in Sandboxes : sandbox'[c] = "alive" /\ (c = validation[w].sandbox \/ sandbox[c] # "alive") => Paid(c)'
  <2>1. SUFFICES ASSUME sandbox'[b] = "alive" PROVE Paid(b)'
    BY <1>4, <1>5
  <2>2. CASE x # Preview!Idle
    BY <1>6, <1>7, <2>2 DEF Paid
  <2>3. CASE x = Preview!Idle
    <3>1. Preview!Holds(w) /\ run' = [run EXCEPT !.status = "COMPLETED"]
      <4>1. x.pc = "idle"
        BY <2>3, IdleIs
      <4>2. QED
        BY <1>6, <4>1
    <3>2. preview[s].sandbox = b
      BY <1>1, <1>3, <1>4, <3>1, ItsOwn DEF PublishesItsOwn
    <3>3. b \notin expired
      BY <1>5, <2>1, OfWorker
    <3>4. s \notin contested => Preview!Live(s)
      BY <1>1, <1>3, <3>2, <3>3 DEF Stands, Preview!Live
    <3>5. run'.status = "COMPLETED" /\ preview'[s].sandbox = b /\ (Preview!Live(s)' \/ s \in contested')
      <4>1. run \in [status : {"RUNNING", "STOPPED", "COMPLETED", "FAILED"}, version : 1 .. MaxVersion]
        BY <1>9 DEF Preview!TypeOK
      <4>2. QED
        BY <1>5, <3>1, <3>2, <3>4, <4>1 DEF Preview!Live
    <3>6. QED
      BY <1>3, <3>5 DEF Paid
  <2>4. QED
    BY <2>2, <2>3
<1>19. \A t \in Preview!Sessions : preview'[t] = preview[t] /\ (Preview!Live(t) => Preview!Live(t)') /\ (t \in contested => t \in contested')
  BY <1>5 DEF Preview!Live
<1>20. \A t \in Preview!RunSessions : preview'[t].sandbox = preview[t].sandbox
  BY <1>5
<1>21. QED
  BY <1>8, <1>10, <1>12, <1>13, <1>14, <1>15, <1>17, <1>18, <1>19, <1>20, WorkerKeeps

LEMMA RevokeKeeps ==
    ASSUME Preview!PreviewSessionAssumption, PreviewInv, NEW w \in Validators, Careful, Preview!Revoke(w)
    PROVE  PreviewInv'
<1> DEFINE x == [validation[w] EXCEPT !.pc = "after"]
<1>1. validation[w].pc = "revoke" /\ validation[w].pc \in Published
  BY DEF Preview!Revoke, Preview!At, Published
<1>2. /\ Works(w) /\ validation[w] \in Exec /\ validation \in [Validators -> Exec] /\ Holding(w)
      /\ \A v \in Validators \ {w} : validation[v].sandbox # validation[w].sandbox
  BY <1>1, AboutToPublish
<1>3. PICK s \in Preview!RunSessions :
        /\ s = validation[w].session /\ s \in Preview!Sessions /\ s \notin Preview!ReopenSessions /\ s # NoSession
        /\ recorded[s].status # "none" /\ validation[w].kind = "run"
        /\ s \notin contested => Stands(w)
  BY <1>1, <1>2, AboutToPublish, SessionsAreApart DEF Holding, Preview!FirstReopen
<1>4. PICK b \in Sandboxes : b = validation[w].sandbox /\ b # NoSession /\ sandbox[b] # "none"
  BY <1>1, AboutToPublish
<1>5. /\ UNCHANGED <<run, job, reopen, expired, command, asked, answered, crashes, unheard, contested>>
      /\ store' = [store EXCEPT ![s] = NoSession] /\ sandbox' = [sandbox EXCEPT ![b] = "dead"]
      /\ recorded' = [recorded EXCEPT ![s].status = "TERMINATED"]
      /\ preview' = [preview EXCEPT ![s].status = "STOPPED"]
      /\ validation' = [validation EXCEPT ![w].pc = "after"]
  BY <1>3, <1>4 DEF Preview!Revoke, Preview!Outcomes, Preview!Try, Preview!Goto, Preview!history, Careful
<1>6. /\ x \in Exec /\ GoesOnAs(w, x) /\ x.pc = "after" /\ x.session = s /\ x.sandbox = b /\ x.kind = "run"
  BY <1>2, <1>3, <1>4 DEF Exec, Preview!Pcs, GoesOnAs
<1>7. validation' = [validation EXCEPT ![w] = x]
  BY <1>2, <1>5
<1> HIDE DEF x
<1>8. /\ validation'[w] = x /\ \A v \in Validators \ {w} : validation'[v] = validation[v]
  BY <1>2, <1>7
<1>9. /\ sandbox' \in [Sandboxes -> {"none", "alive", "dead"}] /\ sandbox'[b] = "dead"
      /\ \A c \in Sandboxes \ {b} : sandbox'[c] = sandbox[c]
      /\ store' \in [Preview!Sessions -> Sandboxes \union {NoSession}]
      /\ \A t \in Preview!Sessions \ {s} : store'[t] = store[t]
  BY <1>3, <1>5, OfWorker
<1>10. /\ recorded' \in [Preview!Sessions -> SessionRow]
       /\ \A t \in Preview!Sessions : recorded'[t].status # "none" <=> recorded[t].status # "none"
       /\ preview' \in [Preview!Sessions -> Shown] /\ preview'[s].status = "STOPPED"
       /\ \A t \in Preview!Sessions : preview'[t].sandbox = preview[t].sandbox
       /\ \A t \in Preview!Sessions \ {s} : preview'[t] = preview[t]
  <2>1. recorded \in [Preview!Sessions -> SessionRow] /\ preview \in [Preview!Sessions -> Shown]
    BY OfWorker
  <2>2. QED
    BY <1>3, <1>5, <2>1 DEF SessionRow, Shown
<1>11. Touches(w, x)
  BY <1>3, <1>4, <1>5, <1>6, <1>7, <1>9, <1>10, OfWorker DEF Touches
<1>12. RunsApart' /\ OneReopen'
  BY <1>2, <1>5, <1>6, <1>11, QueueStays
<1>13. Numbered'
  BY <1>5, <1>6, <1>10, <1>11, NumberedStays, SessionsAreApart
<1>14. Preview!TypeOK'
  <2>1. Preview!TypeOK /\ validation' \in [Validators -> Exec]
    BY <1>2, <1>6, <1>7 DEF PreviewInv
  <2>2. QED
    BY <1>5, <1>9, <1>10, <2>1 DEF Preview!TypeOK, Exec, SessionRow, Shown
<1>15. Holding(w)' /\ PublishesItsOwn(w)' /\ Stands(w)'
  BY <1>3, <1>4, <1>6, <1>8, <1>9, <1>10 DEF Holding, PublishesItsOwn, Stands, HoldsSandbox, HasSession, Published
<1>16. Shown1(s)'
  <2>1. Shown1(s) /\ ~ Preview!Live(s)'
    BY <1>3, <1>10 DEF PreviewInv, Preview!Live
  <2>2. preview[s].sandbox \in Sandboxes \union {NoSession}
    BY <1>3, OfWorker DEF Shown
  <2>3. preview'[s].sandbox # NoSession => sandbox'[preview'[s].sandbox] # "none"
    BY <1>3, <1>9, <1>10, <2>1, <2>2 DEF Shown1
  <2>4. \A v \in Validators :
          validation'[v].sandbox # NoSession /\ preview'[s].sandbox = validation'[v].sandbox => validation'[v].session = s
    BY <1>3, <1>4, <1>6, <1>8, <1>10, <2>1 DEF Shown1
  <2>5. QED
    BY <1>3, <2>1, <2>3, <2>4 DEF Shown1
<1>17. \A t \in {validation[w].session, x.session} : t # NoSession => Shown1(t)'
  BY <1>3, <1>6, <1>16
<1>18. \A c \in Sandboxes : sandbox'[c] = "alive" /\ (c = validation[w].sandbox \/ sandbox[c] # "alive") => Paid(c)'
  BY <1>4, <1>9
<1>19. \A t \in Preview!Sessions :
          preview[t].sandbox # validation[w].sandbox /\ (Preview!Live(t) \/ t \in contested) =>
             preview'[t].sandbox = preview[t].sandbox /\ (Preview!Live(t)' \/ t \in contested')
  <2>1. preview[s].sandbox # validation[w].sandbox => s \in contested
    BY <1>1, <1>3 DEF Stands
  <2>2. QED
    BY <1>5, <1>10, <2>1 DEF Preview!Live
<1>20. x.session \notin contested' => Stands(w)'
  BY <1>15
<1>21. run' = run /\ \A t \in Preview!RunSessions : preview'[t].sandbox = preview[t].sandbox
  BY <1>5, <1>10, SessionsAreApart
<1>22. QED
  BY <1>6, <1>11, <1>12, <1>13, <1>14, <1>15, <1>17, <1>18, <1>19, <1>20, <1>21, WorkerKeeps

-----------------------------------------------------------------------------
(* The reopen worker *)

LEMMA ReopenFailedKeeps ==
    ASSUME Preview!PreviewSessionAssumption, PreviewInv, NEW w \in Validators, Preview!ReopenFailed(w)
    PROVE  PreviewInv'
<1> DEFINE x == Preview!Idle
<1>1. /\ validation[w].pc = "after" /\ validation[w].pc \notin Published /\ Reopening(w) /\ ~ OfRun(w)
      /\ validation' = [validation EXCEPT ![w] = x] /\ reopen' = "none"
  BY DEF Preview!ReopenFailed, Preview!At, Preview!Kind, Preview!End, Published, Works, Reopening, OfRun
<1>2. /\ validation[w] \in Exec /\ validation \in [Validators -> Exec]
      /\ validation[w].session # NoSession => validation[w].session \in Preview!Sessions /\ recorded[validation[w].session].status # "none"
  BY ItsOwn, OfWorker DEF Holding
<1>3. /\ UNCHANGED <<run, job, sandbox, expired, command, preview, store, asked, crashes, unheard, contested>>
      /\ recorded' = recorded \/ (validation[w].session # NoSession /\ recorded' = [recorded EXCEPT ![validation[w].session].status = "FAILED"])
      /\ answered' = TRUE \/ answered' = answered
  BY DEF Preview!ReopenFailed, Preview!history
<1>4. x \in Exec /\ x.pc = "idle" /\ x.session = NoSession /\ x.sandbox = NoSession /\ x.kind = "run"
  BY IdleIs
<1>5. x = Preview!Idle
  OBVIOUS
<1> HIDE DEF x
<1>6. /\ validation'[w] = x /\ \A v \in Validators \ {w} : validation'[v] = validation[v]
  BY <1>1, <1>2
<1>7. /\ recorded' \in [Preview!Sessions -> SessionRow]
      /\ \A t \in Preview!Sessions : recorded'[t].status # "none" <=> recorded[t].status # "none"
  <2>1. recorded \in [Preview!Sessions -> SessionRow]
    BY OfWorker
  <2>2. QED
    BY <1>2, <1>3, <2>1 DEF SessionRow
<1>8. Touches(w, x)
  BY <1>1, <1>3, <1>4, <1>7, OfWorker DEF Touches
<1>9. RunsApart' /\ OneReopen'
  <2>1. RunsApart /\ OneReopen
    BY DEF PreviewInv
  <2>2. \A v \in Validators : (OfRun(v)' => v # w) /\ ~ Reopening(v)'
    BY <1>1, <1>4, <1>6, <2>1 DEF OneReopen, Works, OfRun, Reopening
  <2>3. RunsApart'
    BY <1>3, <1>6, <2>1, <2>2 DEF RunsApart, OfRun, Works
  <2>4. OneReopen'
    BY <1>1, <1>5, <1>6, <2>1, <2>2 DEF OneReopen, Works
  <2>5. QED
    BY <2>3, <2>4
<1>10. Numbered'
  BY <1>1, <1>4, <1>7, <1>8, SessionsAreApart, NumberedStays
<1>11. Preview!TypeOK'
  <2>1. Preview!TypeOK /\ validation' \in [Validators -> Exec]
    BY <1>1, <1>2, <1>4 DEF PreviewInv
  <2>2. QED
    BY <1>1, <1>3, <1>7, <2>1 DEF Preview!TypeOK, Exec, SessionRow
<1>12. \A b \in Sandboxes : ~ (sandbox'[b] = "alive" /\ (b = validation[w].sandbox \/ sandbox[b] # "alive"))
  BY <1>1, <1>3, LeavesNothing
<1>13. QED
  BY <1>1, <1>3, <1>4, <1>5, <1>8, <1>9, <1>10, <1>11, <1>12, MovesOn

\* A step of nobody: the person's, and the deliveries that come to nothing.
LEMMA NobodysStepKeeps ==
    ASSUME Preview!PreviewSessionAssumption, PreviewInv,
           UNCHANGED <<validation, sandbox, expired, Preview!rows, store, crashes, Preview!history>>,
           Preview!TypeOK', RunsApart', OneReopen', Numbered',
           run.status = "COMPLETED" => run'.status = "COMPLETED",
           \A w \in Validators : OfRun(w) /\ Preview!Holds(w)' => Preview!Holds(w)
    PROVE  PreviewInv'
<1>1. UNCHANGED <<validation, sandbox, expired, recorded, command, preview, store, unheard, contested>>
  BY DEF Preview!rows, Preview!history
<1>2. Apart'
  BY <1>1 DEF PreviewInv, Apart
<1>3. ASSUME NEW w \in Validators
      PROVE  Holding(w)' /\ PublishesItsOwn(w)' /\ (validation'[w].session \notin contested' => Stands(w)')
  <2>1. Holding(w) /\ PublishesItsOwn(w) /\ (validation[w].session \notin contested => Stands(w))
    BY DEF PreviewInv
  <2>2. Holding(w)' /\ (validation'[w].session \notin contested' => Stands(w)')
    BY <1>1, <2>1 DEF Holding, Stands
  <2>3. validation[w].pc = "complete" => OfRun(w)
    BY <2>1 DEF Holding, Published, OfRun, Works
  <2>4. PublishesItsOwn(w)'
    BY <1>1, <2>1, <2>3 DEF PublishesItsOwn
  <2>5. QED
    BY <2>2, <2>4
<1>4. ASSUME NEW s \in Preview!Sessions PROVE Shown1(s)'
  <2>1. Shown1(s)
    BY DEF PreviewInv
  <2>2. /\ Preview!Live(s)' <=> Preview!Live(s)
        /\ Preview!Trusted(s)' <=> Preview!Trusted(s)
        /\ Shows(s)' <=> Shows(s)
    BY <1>1 DEF Preview!Live, Preview!Trusted, Shows
  <2>3. QED
    BY <1>1, <2>1, <2>2 DEF Shown1
<1>5. ASSUME NEW b \in Sandboxes, sandbox'[b] = "alive" PROVE Paid(b)'
  <2>1. Paid(b)
    BY <1>1, <1>5 DEF PreviewInv
  <2>2. \A s \in Preview!Sessions : Preview!Live(s)' <=> Preview!Live(s)
    BY <1>1 DEF Preview!Live
  <2>3. QED
    BY <1>1, <2>1, <2>2 DEF Paid
<1>6. \A b \in expired' : sandbox'[b] = "dead"
  BY <1>1, OfWorker
<1>7. QED
  BY <1>2, <1>3, <1>4, <1>5, <1>6 DEF PreviewInv

\* What both sides of a delivery, and a person, know of the run.
LEMMA OfTheRun ==
    ASSUME PreviewInv
    PROVE  /\ Preview!TypeOK /\ RunsApart /\ OneReopen
           /\ run \in [status : {"RUNNING", "STOPPED", "COMPLETED", "FAILED"}, version : 1 .. MaxVersion]
           /\ job \in [state : {"waiting", "active", "done"}, version : 1 .. MaxVersion, attempt : 1 .. MaxAttempts]
           /\ asked \in 0 .. ReopenBound /\ reopen \in {"none", "waiting", "active"}
BY DEF PreviewInv, Preview!TypeOK

LEMMA DeliverKeeps ==
    ASSUME Preview!PreviewSessionAssumption, PreviewInv, NEW w \in Validators, Preview!Deliver(w)
    PROVE  PreviewInv'
<1>1. validation[w] = Preview!Idle /\ job.state = "waiting"
  BY DEF Preview!Deliver
<1>2. UNCHANGED <<run, reopen, sandbox, expired, recorded, command, preview, store, asked, answered, crashes, unheard, contested>>
  BY DEF Preview!Deliver, Preview!rows, Preview!history
<1>3. Preview!TypeOK /\ RunsApart /\ OneReopen /\ validation \in [Validators -> Exec]
  BY OfTheRun, OfWorker
<1>4. job \in [state : {"waiting", "active", "done"}, version : 1 .. MaxVersion, attempt : 1 .. MaxAttempts]
  BY OfTheRun
<1>5. \A v \in Validators : OfRun(v) => validation[v].version # job.version
  BY <1>1, <1>3 DEF RunsApart
<1>6. CASE run.status = "RUNNING" /\ run.version = job.version
  <2> DEFINE x == [Preview!Idle EXCEPT !.pc = "create", !.version = job.version, !.attempt = job.attempt]
  <2>1. job' = [job EXCEPT !.state = "active"] /\ validation' = [validation EXCEPT ![w] = x]
    BY <1>6 DEF Preview!Deliver
  <2>2. /\ x \in Exec /\ x.pc = "create" /\ x.kind = "run" /\ x.version = job.version /\ x.attempt = job.attempt
        /\ x.session = NoSession /\ x.sandbox = NoSession
    <3>1. Preview!Idle \in Exec /\ Preview!Idle.kind = "run" /\ Preview!Idle.session = NoSession /\ Preview!Idle.sandbox = NoSession
      BY IdleIs
    <3>2. /\ job.version \in 0 .. MaxVersion /\ job.attempt \in 0 .. MaxAttempts
          /\ "create" \in Preview!Pcs
      BY <1>4 DEF Preview!Pcs
    <3>3. QED
      BY <3>1, <3>2 DEF Exec
  <2> HIDE DEF x
  <2>3. /\ validation'[w] = x /\ \A v \in Validators \ {w} : validation'[v] = validation[v]
    BY <1>3, <2>1
  <2>4. validation[w].pc \notin Published /\ validation[w].sandbox = NoSession /\ validation[w].session = NoSession
    BY <1>1, IdleIs DEF Published
  <2>5. Touches(w, x)
    BY <1>2, <2>1, <2>2, <2>4, OfWorker DEF Touches
  <2>6. /\ job' \in [state : {"waiting", "active", "done"}, version : 1 .. MaxVersion, attempt : 1 .. MaxAttempts]
        /\ job'.state = "active" /\ job'.version = job.version
    BY <1>4, <2>1
  <2>7. RunsApart'
    <3>1. \A v \in Validators \ {w} : OfRun(v)' <=> OfRun(v)
      BY <2>3 DEF OfRun, Works
    <3>2. /\ validation'[w].version \in 1 .. job'.version
          /\ validation'[w].attempt \in 1 .. MaxAttempts
      BY <1>4, <2>2, <2>3, <2>6
    <3>3. QED
      BY <1>2, <1>3, <1>5, <2>2, <2>3, <2>6, <3>1, <3>2 DEF RunsApart
  <2>8. OneReopen'
    BY <1>2, <1>3, <2>2, <2>3 DEF OneReopen, Works, Reopening
  <2>9. Numbered'
    BY <1>2, <2>2, <2>5, NumberedStays
  <2>10. Preview!TypeOK'
    <3>1. validation' \in [Validators -> Exec]
      BY <1>3, <2>1, <2>2
    <3>2. QED
      BY <1>2, <1>3, <2>6, <3>1 DEF Preview!TypeOK, Exec
  <2>11. Holding(w)' /\ Stands(w)' /\ x.pc \notin Published
    BY <2>2, <2>3 DEF Holding, Stands, HoldsSandbox, HasSession, Published
  <2>12. \A b \in Sandboxes : ~ (sandbox'[b] = "alive" /\ (b = validation[w].sandbox \/ sandbox[b] # "alive"))
    BY <1>2, <2>4, SessionsAreApart
  <2>13. QED
    BY <1>2, <2>2, <2>4, <2>5, <2>7, <2>8, <2>9, <2>10, <2>11, <2>12, MovesOn
<1>7. CASE ~ (run.status = "RUNNING" /\ run.version = job.version)
  <2>1. job' = [job EXCEPT !.state = "done"] /\ validation' = validation
    BY <1>7 DEF Preview!Deliver
  <2>2. RunsApart'
    BY <1>2, <1>3, <1>4, <1>5, <2>1 DEF RunsApart, OfRun, Works
  <2>3. OneReopen'
    BY <1>2, <1>3, <2>1 DEF OneReopen, Works, Reopening
  <2>4. Numbered'
    BY <1>2, <2>1 DEF PreviewInv, Numbered, Coming, Opening, Preview!Kind
  <2>5. Preview!TypeOK'
    BY <1>2, <1>3, <1>4, <2>1 DEF Preview!TypeOK
  <2>6. QED
    BY <1>2, <2>1, <2>2, <2>3, <2>4, <2>5, NobodysStepKeeps DEF Preview!rows, Preview!history, Preview!Holds
<1>8. QED
  BY <1>6, <1>7

LEMMA DeliverReopenKeeps ==
    ASSUME Preview!PreviewSessionAssumption, PreviewInv, NEW w \in Validators, Preview!DeliverReopen(w)
    PROVE  PreviewInv'
<1>1. validation[w] = Preview!Idle /\ reopen = "waiting"
  BY DEF Preview!DeliverReopen
<1>2. UNCHANGED <<run, job, sandbox, expired, recorded, command, preview, store, asked, crashes, unheard, contested>>
  BY DEF Preview!DeliverReopen, Preview!rows, Preview!history
<1>3. Preview!TypeOK /\ RunsApart /\ OneReopen /\ validation \in [Validators -> Exec]
  BY OfTheRun, OfWorker
<1>4. answered' = TRUE \/ answered' = answered
  BY DEF Preview!DeliverReopen
<1>5. \A v \in Validators : ~ Reopening(v)
  BY <1>1, <1>3 DEF OneReopen
<1>6. PICK n \in 0 .. ReopenBound :
         /\ \A s \in Preview!ReopenSessions : recorded[s].status # "none" <=> s < Preview!FirstReopen + n
         /\ n + Coming <= asked
  BY DEF PreviewInv, Numbered
<1>7. n + Coming' <= asked'
  <2>1. Coming = 1 /\ Coming' \in {0, 1}
    BY <1>1 DEF Coming
  <2>2. asked \in Nat /\ n \in Nat
    BY OfTheRun DEF Preview!PreviewSessionAssumption
  <2>3. \A d \in {0, 1} : n + 1 <= asked => n + d <= asked
    BY <2>2
  <2>4. n + 1 <= asked /\ asked' = asked
    BY <1>2, <1>6, <2>1
  <2>5. QED
    BY <2>1, <2>3, <2>4
<1>8. Numbered'
  BY <1>2, <1>6, <1>7 DEF Numbered
<1>9. CASE reopen' = "active" /\ validation' = [validation EXCEPT ![w] = [Preview!Idle EXCEPT !.pc = "create", !.kind = "reopen"]]
  <2> DEFINE x == [Preview!Idle EXCEPT !.pc = "create", !.kind = "reopen"]
  <2>1. x \in Exec /\ x.pc = "create" /\ x.kind = "reopen" /\ x.session = NoSession /\ x.sandbox = NoSession
    <3>1. Preview!Idle \in Exec /\ Preview!Idle.session = NoSession /\ Preview!Idle.sandbox = NoSession
      BY IdleIs
    <3>2. QED
      BY <3>1 DEF Exec, Preview!Pcs
  <2>2. validation' = [validation EXCEPT ![w] = x]
    BY <1>9
  <2> HIDE DEF x
  <2>3. /\ validation'[w] = x /\ \A v \in Validators \ {w} : validation'[v] = validation[v]
    BY <1>3, <2>2
  <2>4. validation[w].pc \notin Published /\ validation[w].sandbox = NoSession /\ validation[w].session = NoSession
    BY <1>1, IdleIs DEF Published
  <2>5. Touches(w, x)
    BY <1>2, <2>1, <2>2, <2>4, OfWorker DEF Touches
  <2>6. \A v \in Validators \ {w} : /\ OfRun(v)' <=> OfRun(v)
                                    /\ Reopening(v)' <=> Reopening(v)
                                    /\ Works(v)' <=> Works(v)
    BY <2>3 DEF OfRun, Reopening, Works
  <2>7. ~ OfRun(w)' /\ Works(w)'
    BY <2>1, <2>3 DEF OfRun, Works
  <2>8. RunsApart'
    BY <1>2, <1>3, <2>3, <2>6, <2>7 DEF RunsApart
  <2>9. OneReopen'
    BY <1>1, <1>2, <1>3, <1>5, <1>9, <2>3, <2>6, <2>7 DEF OneReopen
  <2>10. Preview!TypeOK'
    <3>1. validation' \in [Validators -> Exec]
      BY <1>3, <2>1, <2>2
    <3>2. QED
      BY <1>2, <1>3, <1>4, <1>9, <3>1 DEF Preview!TypeOK, Exec
  <2>11. Holding(w)' /\ Stands(w)' /\ x.pc \notin Published
    BY <2>1, <2>3 DEF Holding, Stands, HoldsSandbox, HasSession, Published
  <2>12. \A b \in Sandboxes : ~ (sandbox'[b] = "alive" /\ (b = validation[w].sandbox \/ sandbox[b] # "alive"))
    BY <1>2, <2>4, SessionsAreApart
  <2>13. QED
    BY <1>2, <1>8, <2>1, <2>4, <2>5, <2>8, <2>9, <2>10, <2>11, <2>12, MovesOn
<1>10. CASE reopen' = "none" /\ validation' = validation
  <2>1. RunsApart'
    BY <1>2, <1>3, <1>10 DEF RunsApart, OfRun, Works
  <2>2. OneReopen'
    BY <1>2, <1>3, <1>5, <1>10 DEF OneReopen, Works, Reopening
  <2>3. Preview!TypeOK'
    BY <1>2, <1>3, <1>4, <1>10 DEF Preview!TypeOK
  <2>4. QED
    BY <1>2, <1>8, <1>10, <2>1, <2>2, <2>3, NobodysStepKeeps DEF Preview!rows, Preview!history, Preview!Holds
<1>11. QED
  BY <1>9, <1>10 DEF Preview!DeliverReopen

-----------------------------------------------------------------------------
(* The person, and time *)

LEMMA StopKeeps ==
    ASSUME Preview!PreviewSessionAssumption, PreviewInv, Preview!Stop
    PROVE  PreviewInv'
<1>1. /\ run.status = "RUNNING" /\ run.version < MaxVersion
      /\ run' = [status |-> "STOPPED", version |-> run.version + 1]
      /\ UNCHANGED <<job, reopen, validation, sandbox, expired, recorded, command, preview, store, asked, answered, crashes, unheard, contested>>
  BY DEF Preview!Stop, Preview!rows, Preview!history
<1>2. /\ Preview!TypeOK /\ RunsApart /\ OneReopen
      /\ run.version \in 1 .. MaxVersion /\ job.version \in 1 .. MaxVersion /\ MaxVersion \in Nat
  BY OfTheRun DEF Preview!PreviewSessionAssumption
<1>3. Preview!TypeOK'
  BY <1>1, <1>2 DEF Preview!TypeOK
<1>4. RunsApart'
  <2>1. job'.version <= run'.version
    BY <1>1, <1>2 DEF RunsApart
  <2>2. QED
    BY <1>1, <1>2, <2>1 DEF RunsApart, OfRun, Works
<1>5. OneReopen'
  BY <1>1, <1>2 DEF OneReopen, Works, Reopening
<1>6. Numbered'
  BY <1>1 DEF PreviewInv, Numbered, Coming, Opening, Preview!Kind
<1>7. QED
  BY <1>1, <1>3, <1>4, <1>5, <1>6, NobodysStepKeeps DEF Preview!rows, Preview!history, Preview!Holds

LEMMA ResumeKeeps ==
    ASSUME Preview!PreviewSessionAssumption, PreviewInv, Preview!Resume
    PROVE  PreviewInv'
<1>1. /\ run.status = "STOPPED" /\ run.version < MaxVersion
      /\ run' = [status |-> "RUNNING", version |-> run.version + 1]
      /\ job' = [state |-> "waiting", version |-> run.version + 1, attempt |-> 1]
      /\ UNCHANGED <<reopen, validation, sandbox, expired, recorded, command, preview, store, asked, answered, crashes, unheard, contested>>
  BY DEF Preview!Resume, Preview!rows, Preview!history
<1>2. /\ Preview!TypeOK /\ RunsApart /\ OneReopen
      /\ run.version \in 1 .. MaxVersion /\ job.version \in 1 .. MaxVersion /\ MaxVersion \in Nat
      /\ 1 \in 1 .. MaxAttempts
  BY OfTheRun DEF Preview!PreviewSessionAssumption
<1>3. Preview!TypeOK'
  BY <1>1, <1>2 DEF Preview!TypeOK
<1>4. \A w \in Validators : OfRun(w) => validation[w].version \in 1 .. run.version
  BY <1>2 DEF RunsApart
<1>5. RunsApart'
  <2>1. job'.version = run.version + 1 /\ run'.version = run.version + 1
    BY <1>1
  <2>2. \A w \in Validators : OfRun(w) => validation[w].version \in 1 .. job'.version /\ validation[w].version # job'.version
    BY <1>2, <1>4, <2>1
  <2>3. job'.version <= run'.version
    BY <1>2, <2>1
  <2>4. QED
    BY <1>1, <1>2, <2>2, <2>3 DEF RunsApart, OfRun, Works
<1>6. OneReopen'
  BY <1>1, <1>2 DEF OneReopen, Works, Reopening
<1>7. Numbered'
  BY <1>1 DEF PreviewInv, Numbered, Coming, Opening, Preview!Kind
<1>8. \A w \in Validators : OfRun(w) => ~ Preview!Holds(w)'
  BY <1>1, <1>2, <1>4 DEF Preview!Holds
<1>9. QED
  BY <1>1, <1>3, <1>5, <1>6, <1>7, <1>8, NobodysStepKeeps DEF Preview!rows, Preview!history

LEMMA RequestReopenKeeps ==
    ASSUME Preview!PreviewSessionAssumption, PreviewInv, Preview!RequestReopen
    PROVE  PreviewInv'
<1>1. /\ run.status = "COMPLETED" /\ asked < ReopenBound /\ asked' = asked + 1 /\ answered' = FALSE
      /\ reopen' = IF reopen = "none" THEN "waiting" ELSE reopen
      /\ UNCHANGED <<run, job, validation, sandbox, expired, recorded, command, preview, store, crashes, unheard, contested>>
  BY DEF Preview!RequestReopen, Preview!rows, Preview!history
<1>2. Preview!TypeOK /\ RunsApart /\ OneReopen /\ asked \in 0 .. ReopenBound /\ ReopenBound \in Nat
  BY OfTheRun DEF Preview!PreviewSessionAssumption
<1>3. Preview!TypeOK'
  <2>1. asked' \in 0 .. ReopenBound /\ reopen' \in {"none", "waiting", "active"} /\ answered' \in BOOLEAN
    <3>1. asked + 1 \in 0 .. ReopenBound
      BY <1>1, <1>2
    <3>2. reopen \in {"none", "waiting", "active"}
      BY OfTheRun
    <3>3. QED
      BY <1>1, <3>1, <3>2
  <2>2. QED
    BY <1>1, <1>2, <2>1 DEF Preview!TypeOK
<1>4. RunsApart'
  BY <1>1, <1>2 DEF RunsApart, OfRun, Works
<1>5. OneReopen'
  BY <1>1, <1>2 DEF OneReopen, Works, Reopening
<1>6. Numbered'
  <2>1. PICK n \in 0 .. ReopenBound :
           /\ \A s \in Preview!ReopenSessions : recorded[s].status # "none" <=> s < Preview!FirstReopen + n
           /\ n + Coming <= asked
    BY DEF PreviewInv, Numbered
  <2>2. Coming \in {0, 1} /\ Coming' \in {0, 1}
    BY DEF Coming
  <2>3. n + Coming' <= asked'
    <3>1. \A c, d \in {0, 1} : n + c <= asked => n + d <= asked + 1
      BY <1>2
    <3>2. QED
      BY <1>1, <2>1, <2>2, <3>1
  <2>4. QED
    BY <1>1, <2>1, <2>3 DEF Numbered
<1>7. QED
  BY <1>1, <1>3, <1>4, <1>5, <1>6, NobodysStepKeeps DEF Preview!rows, Preview!history, Preview!Holds

LEMMA ExpireKeeps ==
    ASSUME Preview!PreviewSessionAssumption, PreviewInv, NEW b \in Sandboxes, Preview!Expire(b)
    PROVE  PreviewInv'
<1>1. /\ sandbox[b] # "none" /\ b \notin expired
      /\ expired' = expired \union {b}
      /\ sandbox' = [sandbox EXCEPT ![b] = "dead"]
      /\ store' = [s \in Preview!Sessions |-> IF store[s] = b THEN NoSession ELSE store[s]]
      /\ UNCHANGED <<run, job, reopen, validation, recorded, command, preview, asked, answered, crashes, unheard, contested>>
  BY DEF Preview!Expire, Preview!rows, Preview!history
<1>2. /\ Preview!TypeOK /\ RunsApart /\ OneReopen /\ validation \in [Validators -> Exec]
      /\ NoSession \notin Sandboxes
  BY OfTheRun, OfWorker, SessionsAreApart
<1>3. /\ sandbox' \in [Sandboxes -> {"none", "alive", "dead"}] /\ sandbox'[b] = "dead"
      /\ \A c \in Sandboxes \ {b} : sandbox'[c] = sandbox[c]
      /\ store' \in [Preview!Sessions -> Sandboxes \union {NoSession}]
      /\ \A s \in Preview!Sessions : store[s] # b => store'[s] = store[s]
  BY <1>1, OfWorker
<1>4. Preview!TypeOK'
  <2>1. expired' \subseteq Sandboxes
    BY <1>1, <1>2 DEF Preview!TypeOK
  <2>2. QED
    BY <1>1, <1>2, <1>3, <2>1 DEF Preview!TypeOK
<1>5. RunsApart' /\ OneReopen' /\ Apart' /\ Numbered'
  <2>1. RunsApart' /\ OneReopen'
    BY <1>1, <1>2 DEF RunsApart, OneReopen, OfRun, Works, Reopening
  <2>2. Apart' /\ Numbered'
    BY <1>1 DEF PreviewInv, Apart, Numbered, Coming, Opening, Preview!Kind
  <2>3. QED
    BY <2>1, <2>2
<1>6. ASSUME NEW w \in Validators
      PROVE  Holding(w)' /\ PublishesItsOwn(w)' /\ (validation'[w].session \notin contested' => Stands(w)')
  <2>1. /\ Holding(w) /\ PublishesItsOwn(w) /\ (validation[w].session \notin contested => Stands(w))
        /\ validation[w].sandbox \in Sandboxes \union {NoSession}
        /\ validation[w].session \in Preview!Sessions \union {NoSession}
    BY ItsOwn
  <2>2. Holding(w)'
    BY <1>1, <1>2, <1>3, <2>1 DEF Holding, HoldsSandbox, HasSession
  <2>3. PublishesItsOwn(w)'
    BY <1>1, <2>1 DEF PublishesItsOwn, Preview!Holds
  <2>4. ASSUME validation[w].session \notin contested PROVE Stands(w)'
    <3>1. validation[w].pc \in {"ready"} \union Published /\ validation[w].sandbox \notin expired' => store'[validation[w].session] = validation[w].sandbox
      <4>1. SUFFICES ASSUME validation[w].pc \in {"ready"} \union Published, validation[w].sandbox \notin expired'
                     PROVE  store'[validation[w].session] = validation[w].sandbox
        OBVIOUS
      <4>2. validation[w].session \in Preview!Sessions
        BY <4>1, AboutToPublish
      <4>3. store[validation[w].session] = validation[w].sandbox /\ validation[w].sandbox # b
        BY <1>1, <2>1, <2>4, <4>1 DEF Stands
      <4>4. QED
        BY <1>3, <4>2, <4>3
    <3>2. QED
      BY <1>1, <2>1, <2>4, <3>1 DEF Stands
  <2>5. QED
    BY <1>1, <2>2, <2>3, <2>4
<1>7. ASSUME NEW s \in Preview!Sessions PROVE Shown1(s)'
  <2>1. Shown1(s) /\ preview[s].sandbox \in Sandboxes \union {NoSession}
    BY OfWorker DEF PreviewInv, Shown
  <2>2. /\ Preview!Live(s)' => Preview!Live(s) /\ preview[s].sandbox # b
        /\ Preview!Trusted(s)' <=> Preview!Trusted(s)
    BY <1>1 DEF Preview!Live, Preview!Trusted
  <2>3. Shows(s) /\ preview[s].sandbox # b => Shows(s)'
    BY <1>1, <1>3 DEF Shows
  <2>4. preview'[s].sandbox # NoSession => sandbox'[preview'[s].sandbox] # "none"
    BY <1>1, <1>3, <2>1 DEF Shown1
  <2>5. QED
    BY <1>1, <2>1, <2>2, <2>3, <2>4 DEF Shown1
<1>8. \A c \in expired' : sandbox'[c] = "dead"
  BY <1>1, <1>3, OfWorker
<1>9. ASSUME NEW c \in Sandboxes, sandbox'[c] = "alive" PROVE Paid(c)'
  <2>1. c # b /\ sandbox[c] = "alive"
    BY <1>3, <1>9
  <2>2. \A s \in Preview!Sessions : preview[s].sandbox = c /\ Preview!Live(s) => Preview!Live(s)'
    BY <1>1, <2>1 DEF Preview!Live
  <2>3. Paid(c)
    BY <2>1 DEF PreviewInv
  <2>4. QED
    BY <1>1, <2>2, <2>3 DEF Paid
<1>10. QED
  BY <1>4, <1>5, <1>6, <1>7, <1>8, <1>9 DEF PreviewInv

-----------------------------------------------------------------------------
(* The theorems *)

LEMMA PreviewInit == ASSUME Preview!PreviewSessionAssumption PROVE Preview!Init => PreviewInv
<1> SUFFICES ASSUME Preview!Init PROVE PreviewInv
  OBVIOUS
<1>1. \A w \in Validators :
         /\ validation[w] = Preview!Idle /\ validation[w] \in Exec /\ ~ Works(w) /\ ~ OfRun(w) /\ ~ Reopening(w)
         /\ validation[w].sandbox = NoSession /\ validation[w].session = NoSession
  BY IdleIs DEF Preview!Init, Works, OfRun, Reopening
<1>2. NoSession \notin Sandboxes /\ NoSession \notin Preview!Sessions
  BY SessionsAreApart
<1>3. Preview!TypeOK
  <2>1. validation \in [Validators -> Exec]
    BY <1>1 DEF Preview!Init
  <2>2. QED
    BY <2>1 DEF Preview!Init, Preview!TypeOK, Exec, Preview!PreviewSessionAssumption
<1>4. RunsApart
  BY <1>1 DEF RunsApart, Preview!Init
<1>5. OneReopen
  BY <1>1 DEF OneReopen, Preview!Init
<1>6. Apart
  BY <1>1 DEF Apart, Preview!Init
<1>7. Numbered
  <2>1. ~ Opening /\ reopen = "none"
    BY <1>1, IdleIs DEF Opening, Preview!Init, Preview!Kind
  <2>2. \A s \in Preview!ReopenSessions : recorded[s].status = "none" /\ ~ (s < Preview!FirstReopen + 0)
    BY SessionsAreApart DEF Preview!Init, Preview!FirstReopen
  <2>3. 0 + Coming <= asked /\ 0 \in 0 .. ReopenBound
    BY <2>1 DEF Coming, Preview!Init, Preview!PreviewSessionAssumption
  <2>4. QED
    BY <2>2, <2>3 DEF Numbered
<1>8. \A w \in Validators : Holding(w) /\ PublishesItsOwn(w) /\ Stands(w)
  BY <1>1, IdleIs DEF Holding, PublishesItsOwn, Stands, HoldsSandbox, HasSession, Published
<1>9. \A s \in Preview!Sessions : Shown1(s)
  BY <1>1 DEF Shown1, Preview!Init, Preview!Live
<1>10. /\ \A b \in expired : sandbox[b] = "dead"
       /\ \A b \in Sandboxes : sandbox[b] # "alive"
  BY DEF Preview!Init
<1>11. QED
  BY <1>3, <1>4, <1>5, <1>6, <1>7, <1>8, <1>9, <1>10 DEF PreviewInv

LEMMA PreviewStep ==
    ASSUME Preview!PreviewSessionAssumption, Careful, PreviewInv, [Preview!Next]_(Preview!vars)
    PROVE  PreviewInv'
<1>1. CASE Preview!Stop
  BY <1>1, StopKeeps
<1>2. CASE Preview!Resume
  BY <1>2, ResumeKeeps
<1>3. CASE Preview!RequestReopen
  BY <1>3, RequestReopenKeeps
<1>4. ASSUME NEW b \in Sandboxes, Preview!Expire(b) PROVE PreviewInv'
  BY <1>4, ExpireKeeps
<1>5. ASSUME NEW w \in Validators, Preview!Deliver(w) PROVE PreviewInv'
  BY <1>5, DeliverKeeps
<1>6. ASSUME NEW w \in Validators, Preview!DeliverReopen(w) PROVE PreviewInv'
  BY <1>6, DeliverReopenKeeps
<1>7. ASSUME NEW w \in Validators, Preview!WorkerNext(w) PROVE PreviewInv'
  <2>1. CASE Preview!CreateSandbox(w)
    BY <2>1, CreateSandboxKeeps
  <2>2. CASE Preview!CreateSandboxSession(w)
    BY <2>2, CreateSandboxSessionKeeps
  <2>3. CASE Preview!CreatePreviewReopenSession(w)
    BY <2>3, CreatePreviewReopenSessionKeeps
  <2>4. CASE Preview!RestoreFiles(w)
    BY <2>4, RestoreFilesKeeps
  <2>5. CASE Preview!RunStep(w)
    BY <2>5, RunStepKeeps
  <2>6. CASE Preview!Put(w)
    BY <2>6, PutKeeps
  <2>7. CASE Preview!RecordPreviewReady(w)
    BY <2>7, RecordPreviewReadyKeeps
  <2>8. CASE Preview!RecordPreviewReopened(w)
    BY <2>8, RecordPreviewReopenedKeeps
  <2>9. CASE Preview!CallThrows(w)
    BY <2>9, CallThrowsKeeps
  <2>10. CASE Preview!Unwind(w)
    BY <2>10, UnwindKeeps
  <2>11. CASE Preview!Repair(w)
    BY <2>11, RepairKeeps
  <2>12. CASE Preview!Conclude(w)
    BY <2>12, ConcludeKeeps
  <2>13. CASE Preview!CompleteRun(w)
    BY <2>13, CompleteRunKeeps
  <2>14. CASE Preview!Revoke(w)
    BY <2>14, RevokeKeeps
  <2>15. CASE Preview!ReopenFailed(w)
    BY <2>15, ReopenFailedKeeps
  <2>16. QED
    BY <1>7, <2>1, <2>2, <2>3, <2>4, <2>5, <2>6, <2>7, <2>8, <2>9, <2>10, <2>11, <2>12, <2>13,
       <2>14, <2>15 DEF Preview!WorkerNext
<1>8. ASSUME NEW w \in Validators, Preview!Crash(w) PROVE PreviewInv'
  <2>1. crashes \in 0 .. 0 /\ crashes < 0
    BY <1>8 DEF Preview!Crash, Careful, PreviewInv, Preview!TypeOK
  <2>2. QED
    BY <2>1
<1>9. CASE UNCHANGED Preview!vars
  <2>1. UNCHANGED <<run, job, reopen, validation, sandbox, expired, recorded, command, preview, store, asked, answered,
                    crashes, unheard, contested>>
    BY <1>9 DEF Preview!vars, Preview!rows, Preview!history
  <2>2. Preview!TypeOK' /\ RunsApart' /\ OneReopen' /\ Numbered'
    BY <2>1 DEF PreviewInv, Preview!TypeOK, RunsApart, OneReopen, OfRun, Reopening, Works, Numbered, Coming, Opening,
       Preview!Kind
  <2>3. QED
    BY <2>1, <2>2, NobodysStepKeeps DEF Preview!rows, Preview!history, Preview!Holds
<1>10. QED
  BY <1>1, <1>2, <1>3, <1>4, <1>5, <1>6, <1>7, <1>8, <1>9 DEF Preview!Next

LEMMA PreviewInvHolds ==
    ASSUME Preview!PreviewSessionAssumption, Careful
    PROVE  Preview!Spec => []PreviewInv
<1>1. Preview!Init => PreviewInv
  BY PreviewInit
<1>2. PreviewInv /\ [Preview!Next]_(Preview!vars) => PreviewInv'
  BY PreviewStep
<1>3. QED
  BY <1>1, <1>2, PTL DEF Preview!Spec

\* PreviewSession is type correct.
THEOREM PreviewTypeCorrect ==
    ASSUME Preview!PreviewSessionAssumption, Careful
    PROVE  Preview!Spec => []Preview!TypeOK
<1>1. PreviewInv => Preview!TypeOK
  BY DEF PreviewInv
<1>2. QED
  BY <1>1, PreviewInvHolds, PTL

\* NoSandboxIsForgotten, for any numbers of workers, sandboxes, attempts, repairs, resumes
\* and reopen requests, with executions of several versions at work at once: a sandbox that
\* is paid for is an execution's, or the one behind a live preview, whichever call of a
\* validation throws, before or after it took effect, and whenever the run is stopped.
\* Except the sandbox whose creation was not heard of, and the one whose session another
\* execution took over.
THEOREM NoSandboxIsForgottenHolds ==
    ASSUME Preview!PreviewSessionAssumption, Careful
    PROVE  Preview!Spec => []Preview!NoSandboxIsForgotten
<1>1. PreviewInv => Preview!NoSandboxIsForgotten
  <2>1. SUFFICES ASSUME PreviewInv, NEW b \in Sandboxes, sandbox[b] = "alive"
                 PROVE  Preview!HasOwner(b) \/ b \in unheard \/ \E s \in contested : preview[s].sandbox = b
    BY DEF Preview!NoSandboxIsForgotten
  <2>2. Paid(b)
    BY <2>1 DEF PreviewInv
  <2>3. QED
    BY <2>2 DEF Paid, Preview!HasOwner
<1>2. QED
  BY <1>1, PreviewInvHolds, PTL

\* PublishedIsValidated: every gating step passed in the session behind a live preview of a
\* run, whichever attempt, repair or redelivery published it; except where the publisher
\* did not hear of it, or shared its session with another execution.
THEOREM PublishedIsValidatedHolds ==
    ASSUME Preview!PreviewSessionAssumption, Careful
    PROVE  Preview!Spec => []Preview!PublishedIsValidated
<1>1. PreviewInv => Preview!PublishedIsValidated
  <2>1. \A s \in Preview!RunSessions : s \in Preview!Sessions
    BY DEF Preview!Sessions
  <2>2. QED
    BY <2>1 DEF PreviewInv, Preview!PublishedIsValidated, Shown1, Shows
<1>2. QED
  BY <1>1, PreviewInvHolds, PTL

\* PublishedPreviewIsServed: what the database shows as a live preview is served by the
\* sandbox it was published for, which is alive, although cleanups, reopens, timeouts and
\* executions of other versions change the rows, the targets and the sandboxes in steps of
\* their own; with the same exceptions.
THEOREM PublishedPreviewIsServedHolds ==
    ASSUME Preview!PreviewSessionAssumption, Careful PROVE Preview!Spec => []Preview!PublishedPreviewIsServed
<1>1. PreviewInv => Preview!PublishedPreviewIsServed
  <2>1. SUFFICES ASSUME PreviewInv, Preview!PreviewSessionAssumption,
                        NEW s \in Preview!Sessions, Preview!Live(s), Preview!Trusted(s)
                 PROVE  Preview!Served(s)
    BY DEF Preview!PublishedPreviewIsServed
  <2>2. Shows(s) /\ preview[s].sandbox \notin expired
    BY <2>1 DEF PreviewInv, Shown1, Preview!Live
  <2>3. preview[s].sandbox # NoSession
    BY <2>1, <2>2, SessionsAreApart DEF Shows
  <2>4. QED
    BY <2>2, <2>3 DEF Shows, Preview!Served, Preview!ResolveTarget, Preview!VerifyHost, Preview!GetTarget
<1>2. QED
  BY <1>1, PreviewInvHolds, PTL

-----------------------------------------------------------------------------
(* The attachments *)

(* The attachment scan, for any contents, any number of requests,          *)
(* executors, attempts and stalls, with duplicates, late uploads and       *)
(* requests that die: the agents of a run receive only bytes that were     *)
(* scanned and found clean.                                                *)

\* An upload is completed once, and an active job is in an attempt.
ScanTypeInv ==
    /\ Attachment!TypeOK
    /\ Attachment!Awaiting => scanVersion = 0
    /\ scanJob.state = "active" => scanJob.attempt > 0

\* What an executor copies and commits is what it read and found acceptable.
BytesInspected ==
    \A w \in Executors : scanning[w].pc \in {"copy", "commit"} => scanning[w].bytes \in Acceptable

\* The key of a CLEAN row, and of a run's snapshot of it, is the hash of
\* acceptable bytes, whatever the object under the key has become.
KeyIsScanned ==
    /\ scanStatus = "CLEAN" => cleanKey \in Acceptable
    /\ snapshot \in Acceptable \union {NoBytes}

ScannedInv == ScanTypeInv /\ BytesInspected /\ KeyIsScanned /\ Attachment!RunReadsScannedBytes

ScanExecution == [pc : Attachment!ExecPcs, version : 0 .. 1, attempt : 0 .. MaxAttempts,
              lock : 0 .. StallBound, bytes : Attachment!Object]
ScanJob == [state : {"none", "waiting", "active", "done"}, version : 0 .. 1,
        attempt : 0 .. MaxAttempts, stalls : 0 .. StallBound]
ScanRequest == [pc : Attachment!RequestPcs, expect : Attachment!Statuses \union {NoBytes}]

-----------------------------------------------------------------------------
(* Types *)

\* What the steps of an execution do to the executions and the job.
LEMMA ScanStepTypes ==
    ASSUME Attachment!AttachmentScanAssumption, Attachment!TypeOK, NEW w \in Executors
    PROVE  /\ scanning[w] \in ScanExecution /\ scanJob \in ScanJob /\ Attachment!IdleExec \in ScanExecution
           /\ \A pc \in Attachment!ExecPcs : Attachment!Goto(w, pc) => scanning' \in [Executors -> ScanExecution]
           /\ Attachment!Return(w) => scanning' \in [Executors -> ScanExecution] /\ scanJob' \in ScanJob
           /\ Attachment!Abandon(w) => scanning' \in [Executors -> ScanExecution] /\ scanJob' \in ScanJob
           /\ Attachment!Throw(w) => scanning' \in [Executors -> ScanExecution] /\ scanJob' \in ScanJob
<1>1. /\ scanning[w] \in ScanExecution /\ scanJob \in ScanJob
      /\ scanning \in [Executors -> ScanExecution]
  BY DEF Attachment!TypeOK, ScanExecution, ScanJob
<1>2. Attachment!IdleExec \in ScanExecution
  BY DEF Attachment!AttachmentScanAssumption, Attachment!IdleExec, ScanExecution,
     Attachment!ExecPcs, Attachment!Object
<1>3. ASSUME NEW pc \in Attachment!ExecPcs, Attachment!Goto(w, pc)
      PROVE  scanning' \in [Executors -> ScanExecution]
  <2>1. [scanning[w] EXCEPT !.pc = pc] \in ScanExecution
    BY <1>1 DEF ScanExecution
  <2>2. QED
    BY <1>1, <1>3, <2>1 DEF Attachment!Goto
<1>4. /\ [scanJob EXCEPT !.state = "done"] \in ScanJob
      /\ [scanJob EXCEPT !.state = "waiting"] \in ScanJob
  BY <1>1 DEF ScanJob
<1>5. ASSUME Attachment!Return(w)
      PROVE  scanning' \in [Executors -> ScanExecution] /\ scanJob' \in ScanJob
  BY <1>1, <1>2, <1>4, <1>5 DEF Attachment!Return
<1>6. ASSUME Attachment!Abandon(w)
      PROVE  scanning' \in [Executors -> ScanExecution] /\ scanJob' \in ScanJob
  BY <1>1, <1>2, <1>4, <1>6 DEF Attachment!Abandon
<1>7. ASSUME Attachment!Throw(w)
      PROVE  scanning' \in [Executors -> ScanExecution] /\ scanJob' \in ScanJob
  BY <1>1, <1>3, <1>6, <1>7 DEF Attachment!Throw, Attachment!ExecPcs
<1>8. QED
  BY <1>1, <1>2, <1>3, <1>5, <1>6, <1>7

LEMMA ScanRequestTypes ==
    ASSUME Attachment!AttachmentScanAssumption, Attachment!TypeOK, NEW r \in Completions
    PROVE  /\ completing \in [Completions -> ScanRequest] /\ completing[r] \in ScanRequest
           /\ Attachment!IdleRequest \in ScanRequest
           /\ \A pc \in Attachment!RequestPcs, expect \in Attachment!Statuses \union {NoBytes} :
                 Attachment!GotoR(r, pc, expect) => completing' \in [Completions -> ScanRequest]
           /\ completing' = [completing EXCEPT ![r] = Attachment!IdleRequest] =>
                 completing' \in [Completions -> ScanRequest]
<1>1. completing \in [Completions -> ScanRequest]
  BY DEF Attachment!TypeOK, ScanRequest
<1>2. Attachment!IdleRequest \in ScanRequest
  BY DEF Attachment!IdleRequest, ScanRequest, Attachment!RequestPcs
<1>3. ASSUME NEW pc \in Attachment!RequestPcs, NEW expect \in Attachment!Statuses \union {NoBytes}, Attachment!GotoR(r, pc, expect)
      PROVE  completing' \in [Completions -> ScanRequest]
  <2>1. [pc |-> pc, expect |-> expect] \in ScanRequest
    BY DEF ScanRequest
  <2>2. QED
    BY <1>1, <1>3, <2>1 DEF Attachment!GotoR
<1>4. QED
  BY <1>1, <1>2, <1>3

\* What a step of a request leaves of the job, the version and the attempt.
LEMMA RequestKeepsTypes ==
    ASSUME Attachment!AttachmentScanAssumption, ScanTypeInv, NEW r \in Completions,
           Attachment!BeginComplete(r) \/ Attachment!RequestNext(r) \/ Attachment!ApiDies(r)
    PROVE  ScanTypeInv'
<1> USE DEF ScanTypeInv
<1>t. /\ Attachment!TypeOK /\ scanStatus \in Attachment!Statuses /\ scanVersion \in 0 .. 1
      /\ cleanKey \in Attachment!Object
  BY DEF Attachment!TypeOK
<1>1. CASE Attachment!BeginComplete(r)
  <2>1. completing' \in [Completions -> ScanRequest]
    BY <1>1, ScanRequestTypes DEF Attachment!BeginComplete, Attachment!RequestPcs
  <2>2. QED
    BY <1>1, <2>1 DEF Attachment!BeginComplete, Attachment!TypeOK, ScanRequest,
       Attachment!Statuses, Attachment!Awaiting, Attachment!storage, Attachment!run
<1>2. CASE Attachment!HeadObject(r)
  <2>1. completing' \in [Completions -> ScanRequest]
    BY <1>2, ScanRequestTypes DEF Attachment!HeadObject, Attachment!RequestPcs,
       Attachment!Statuses
  <2>2. QED
    BY <1>2, <2>1 DEF Attachment!HeadObject, Attachment!TypeOK, ScanRequest,
       Attachment!Awaiting, Attachment!row, Attachment!storage, Attachment!run
<1>3. CASE Attachment!CompleteUpload(r)
  <2>1. completing' \in [Completions -> ScanRequest]
    BY <1>3, ScanRequestTypes DEF Attachment!CompleteUpload, Attachment!RequestPcs, ScanRequest
  <2>2. scanStatus' \in Attachment!Statuses /\ scanVersion' \in 0 .. 1 /\ (scanStatus' = "AWAITING_UPLOAD" => scanVersion' = 0)
    BY <1>3, <1>t DEF Attachment!CompleteUpload, Attachment!Statuses, Attachment!Awaiting
  <2>3. QED
    BY <1>3, <2>1, <2>2 DEF Attachment!CompleteUpload, Attachment!TypeOK, ScanRequest,
       Attachment!Awaiting, Attachment!storage, Attachment!run
<1>4. CASE Attachment!Enqueue(r)
  <2>1. completing' \in [Completions -> ScanRequest]
    BY <1>4, ScanRequestTypes DEF Attachment!Enqueue, Attachment!RequestPcs, Attachment!Statuses
  <2>2. Attachment!NewJob \in ScanJob
    BY <1>t DEF Attachment!NewJob, ScanJob, Attachment!AttachmentScanAssumption
  <2>3. scanJob' \in ScanJob /\ (scanJob'.state = "active" => scanJob'.attempt > 0)
    <3>1. scanJob' = scanJob \/ scanJob' = Attachment!NewJob
      BY <1>4 DEF Attachment!Enqueue
    <3>2. QED
      BY <2>2, <3>1 DEF Attachment!NewJob, Attachment!TypeOK, ScanJob
  <2>4. QED
    BY <1>4, <2>1, <2>3 DEF Attachment!Enqueue, Attachment!TypeOK, ScanRequest, ScanJob,
       Attachment!Awaiting, Attachment!row, Attachment!storage, Attachment!run
<1>5. CASE Attachment!FailAttachment(r)
  <2>1. completing' \in [Completions -> ScanRequest]
    BY <1>5, ScanRequestTypes DEF Attachment!FailAttachment, Attachment!RequestPcs
  <2>2. QED
    BY <1>5, <2>1 DEF Attachment!FailAttachment, Attachment!TypeOK, ScanRequest,
       Attachment!Statuses, Attachment!Awaiting, Attachment!storage, Attachment!run
<1>6. CASE Attachment!DeleteUpload(r)
  <2>1. completing' \in [Completions -> ScanRequest]
    BY <1>6, ScanRequestTypes DEF Attachment!DeleteUpload
  <2>2. QED
    BY <1>6, <2>1 DEF Attachment!DeleteUpload, Attachment!TypeOK, ScanRequest,
       Attachment!Object, Attachment!Awaiting, Attachment!row, Attachment!run
<1>7. CASE Attachment!ApiDies(r)
  <2>1. completing' \in [Completions -> ScanRequest]
    BY <1>7, ScanRequestTypes DEF Attachment!ApiDies
  <2>2. QED
    BY <1>7, <2>1 DEF Attachment!ApiDies, Attachment!TypeOK, ScanRequest, Attachment!Awaiting,
       Attachment!row, Attachment!storage, Attachment!run
<1>8. QED
  BY <1>1, <1>2, <1>3, <1>4, <1>5, <1>6, <1>7 DEF Attachment!RequestNext

LEMMA ExecutorKeepsTypes ==
    ASSUME Attachment!AttachmentScanAssumption, ScanTypeInv, NEW w \in Executors,
           Attachment!Deliver(w) \/ Attachment!ExecutorNext(w) \/ Attachment!ExecutorDies(w)
    PROVE  ScanTypeInv'
<1> USE DEF ScanTypeInv
<1>t. /\ Attachment!TypeOK /\ scanStatus \in Attachment!Statuses /\ scanVersion \in 0 .. 1
      /\ cleanKey \in Attachment!Object
      /\ scanning[w] \in ScanExecution /\ scanJob \in ScanJob
      /\ Attachment!IdleExec \in ScanExecution
      /\ scanning \in [Executors -> ScanExecution]
  BY ScanStepTypes DEF Attachment!TypeOK, ScanExecution
\* The row, the storage and the run of a step that sets only these.
<1>a. ASSUME scanning' \in [Executors -> ScanExecution], scanJob' \in ScanJob,
             scanJob'.state = "active" => scanJob'.attempt > 0,
             scanStatus' \in Attachment!Statuses \ {"AWAITING_UPLOAD"} \/ scanStatus' = scanStatus,
             UNCHANGED <<scanVersion, uploadExpired, completing, snapshot, loaded>>,
             cleanKey' \in Attachment!Object, quarantine' \in Attachment!Object, clean' \in [Contents -> Attachment!Object]
      PROVE  ScanTypeInv'
  BY <1>t, <1>a DEF Attachment!TypeOK, ScanExecution, ScanJob, Attachment!Awaiting
<1>b. /\ quarantine \in Attachment!Object /\ clean \in [Contents -> Attachment!Object]
      /\ NoBytes \in Attachment!Object
  BY DEF Attachment!TypeOK, Attachment!Object
\* Leaving process(), or throwing, leaves no attempt 0 behind.
<1>c. Attachment!Return(w) \/ Attachment!Abandon(w) \/ Attachment!Throw(w) =>
        /\ scanning' \in [Executors -> ScanExecution] /\ scanJob' \in ScanJob
        /\ scanJob'.state = "active" => scanJob'.attempt > 0
  <2>1. Attachment!Return(w) \/ Attachment!Abandon(w) => scanJob' = scanJob \/ scanJob'.state \in {"done", "waiting"}
    BY <1>t DEF Attachment!Return, Attachment!Abandon, ScanJob
  <2>2. Attachment!Throw(w) => scanJob' = scanJob \/ scanJob'.state \in {"done", "waiting"}
    BY <2>1 DEF Attachment!Throw
  <2>3. QED
    BY <1>t, <2>1, <2>2, ScanStepTypes
<1>d. \A pc \in Attachment!ExecPcs : Attachment!Goto(w, pc) => scanning' \in [Executors -> ScanExecution]
  BY <1>t, ScanStepTypes
<1>1. CASE Attachment!Deliver(w)
  <2>1. scanning' \in [Executors -> ScanExecution]
    <3>1. [pc |-> "claim", version |-> scanJob.version, attempt |-> scanJob.attempt + 1,
           lock |-> scanJob.stalls, bytes |-> NoBytes] \in ScanExecution
      BY <1>1, <1>t DEF Attachment!Deliver, ScanExecution, ScanJob, Attachment!ExecPcs,
         Attachment!Object, Attachment!AttachmentScanAssumption
    <3>2. QED
      BY <1>1, <1>t, <3>1 DEF Attachment!Deliver
  <2>2. scanJob' \in ScanJob /\ scanJob'.attempt > 0
    <3>1. scanJob.attempt + 1 \in 1 .. MaxAttempts
      BY <1>1, <1>t DEF Attachment!Deliver, ScanJob, Attachment!AttachmentScanAssumption
    <3>2. scanJob' = [scanJob EXCEPT !.state = "active", !.attempt = scanJob.attempt + 1]
      BY <1>1 DEF Attachment!Deliver
    <3>3. scanJob'.attempt = scanJob.attempt + 1
      BY <1>t, <3>2 DEF ScanJob
    <3>4. 1 .. MaxAttempts \subseteq 0 .. MaxAttempts
      BY DEF Attachment!AttachmentScanAssumption
    <3>5. scanJob' \in ScanJob
      BY <1>t, <3>1, <3>2, <3>4 DEF ScanJob
    <3>6. QED
      BY <3>1, <3>3, <3>5
  <2>3. QED
    BY <1>1, <1>a, <1>b, <1>t, <2>1, <2>2 DEF Attachment!Deliver, Attachment!row,
       Attachment!storage, Attachment!run
<1>2. CASE Attachment!Claim(w)
  <2>1. scanStatus' \in Attachment!Statuses \ {"AWAITING_UPLOAD"} \/ scanStatus' = scanStatus
    BY <1>2 DEF Attachment!Claim, Attachment!ClaimRow, Attachment!Statuses
  <2>2. /\ scanning' \in [Executors -> ScanExecution] /\ scanJob' \in ScanJob
        /\ scanJob'.state = "active" => scanJob'.attempt > 0
    BY <1>2, <1>c, <1>d, <1>t DEF Attachment!Claim, Attachment!ExecPcs
  <2>3. QED
    BY <1>2, <1>a, <1>b, <1>t, <2>1, <2>2 DEF Attachment!Claim, Attachment!storage,
       Attachment!run
<1>3. CASE Attachment!GetObject(w)
  <2>1. [scanning[w] EXCEPT !.pc = "inspect", !.bytes = quarantine] \in ScanExecution
    BY <1>t, <1>b DEF ScanExecution, Attachment!ExecPcs
  <2>2. /\ scanning' \in [Executors -> ScanExecution] /\ scanJob' \in ScanJob
        /\ scanJob'.state = "active" => scanJob'.attempt > 0
    BY <1>3, <1>c, <1>t, <2>1 DEF Attachment!GetObject
  <2>3. QED
    BY <1>3, <1>a, <1>b, <1>t, <2>2 DEF Attachment!GetObject, Attachment!row,
       Attachment!storage, Attachment!run
<1>4. CASE Attachment!Inspect(w)
  <2>1. /\ scanning' \in [Executors -> ScanExecution] /\ scanJob' \in ScanJob
        /\ scanJob'.state = "active" => scanJob'.attempt > 0
    BY <1>4, <1>c, <1>d, <1>t DEF Attachment!Inspect, Attachment!ExecPcs
  <2>2. QED
    BY <1>4, <1>a, <1>b, <1>t, <2>1 DEF Attachment!Inspect, Attachment!row,
       Attachment!storage, Attachment!run
<1>5. CASE Attachment!Reject(w)
  <2>1. scanStatus' \in Attachment!Statuses \ {"AWAITING_UPLOAD"} \/ scanStatus' = scanStatus
    BY <1>5 DEF Attachment!Reject, Attachment!Statuses
  <2>2. /\ scanning' \in [Executors -> ScanExecution] /\ scanJob' \in ScanJob
        /\ scanJob'.state = "active" => scanJob'.attempt > 0
    BY <1>5, <1>c, <1>d, <1>t DEF Attachment!Reject, Attachment!ExecPcs
  <2>3. QED
    BY <1>5, <1>a, <1>b, <1>t, <2>1, <2>2 DEF Attachment!Reject, Attachment!storage,
       Attachment!run
<1>6. CASE Attachment!CopyObject(w)
  <2>1. /\ scanning' \in [Executors -> ScanExecution] /\ scanJob' \in ScanJob
        /\ scanJob'.state = "active" => scanJob'.attempt > 0
    BY <1>6, <1>c, <1>d, <1>t DEF Attachment!CopyObject, Attachment!ExecPcs
  <2>2. clean' \in [Contents -> Attachment!Object]
    BY <1>6, <1>b DEF Attachment!CopyObject
  <2>3. QED
    BY <1>6, <1>a, <1>b, <1>t, <2>1, <2>2 DEF Attachment!CopyObject, Attachment!row,
       Attachment!run
<1>7. CASE Attachment!CompleteClean(w)
  <2>1. /\ scanning' \in [Executors -> ScanExecution] /\ scanJob' \in ScanJob
        /\ scanJob'.state = "active" => scanJob'.attempt > 0
    BY <1>7, <1>c, <1>d, <1>t DEF Attachment!CompleteClean, Attachment!ExecPcs
  <2>2. /\ cleanKey' \in Attachment!Object
        /\ scanStatus' \in Attachment!Statuses \ {"AWAITING_UPLOAD"} \/ scanStatus' = scanStatus
    BY <1>7, <1>t DEF Attachment!CompleteClean, Attachment!CommitClean, Attachment!Statuses,
       ScanExecution
  <2>3. QED
    BY <1>7, <1>a, <1>b, <1>t, <2>1, <2>2 DEF Attachment!CompleteClean, Attachment!storage,
       Attachment!run
<1>8. CASE Attachment!DeleteSource(w)
  BY <1>8, <1>a, <1>b, <1>c, <1>t DEF Attachment!DeleteSource, Attachment!row, Attachment!run
<1>9. CASE Attachment!DeleteClean(w)
  <2>1. clean' \in [Contents -> Attachment!Object]
    BY <1>9, <1>b DEF Attachment!DeleteClean
  <2>2. QED
    BY <1>9, <1>a, <1>b, <1>c, <1>t, <2>1 DEF Attachment!DeleteClean, Attachment!row,
       Attachment!run
<1>10. CASE Attachment!FailScan(w)
  BY <1>10, <1>a, <1>b, <1>c, <1>t DEF Attachment!FailScan, Attachment!Statuses,
     Attachment!storage, Attachment!run
<1>11. CASE Attachment!ExecutorDies(w)
  BY <1>11, <1>a, <1>b, <1>t DEF Attachment!ExecutorDies, Attachment!row, Attachment!storage,
     Attachment!run
<1>12. QED
  BY <1>1, <1>2, <1>3, <1>4, <1>5, <1>6, <1>7, <1>8, <1>9, <1>10, <1>11
     DEF Attachment!ExecutorNext

LEMMA ScanNextKeepsTypes ==
    ASSUME Attachment!AttachmentScanAssumption, ScanTypeInv, [Attachment!Next]_(Attachment!vars)
    PROVE  ScanTypeInv'
<1>1. CASE \E c \in Contents : Attachment!Upload(c)
  BY <1>1 DEF ScanTypeInv, Attachment!TypeOK, Attachment!Upload, Attachment!Object,
     Attachment!Awaiting, Attachment!row, Attachment!run
<1>2. CASE Attachment!UploadExpires
  BY <1>2 DEF ScanTypeInv, Attachment!TypeOK, Attachment!UploadExpires, Attachment!Awaiting,
     Attachment!row, Attachment!storage, Attachment!run
<1>3. CASE Attachment!Stall
  <2>1. scanJob \in ScanJob /\ scanJob.attempt > 0
    BY <1>3 DEF ScanTypeInv, Attachment!TypeOK, Attachment!Stall, ScanJob
  <2>2. scanJob' \in ScanJob /\ scanJob'.state = "waiting"
    <3>1. scanJob.attempt - 1 \in 0 .. MaxAttempts /\ scanJob.stalls + 1 \in 0 .. StallBound
      BY <1>3, <2>1 DEF Attachment!Stall, ScanJob, Attachment!AttachmentScanAssumption
    <3>2. scanJob' = [scanJob EXCEPT !.state = "waiting", !.stalls = scanJob.stalls + 1,
                             !.attempt = scanJob.attempt - 1]
      BY <1>3 DEF Attachment!Stall
    <3>3. QED
      BY <2>1, <3>1, <3>2 DEF ScanJob
  <2>3. QED
    BY <1>3, <2>2 DEF ScanTypeInv, Attachment!TypeOK, Attachment!Stall, ScanJob,
       Attachment!Awaiting, Attachment!row, Attachment!storage, Attachment!run
<1>4. CASE Attachment!CreateRun \/ Attachment!LoadAttachment
  BY <1>4 DEF ScanTypeInv, Attachment!TypeOK, Attachment!CreateRun, Attachment!LoadAttachment,
     Attachment!Accepts, Attachment!Awaiting, Attachment!row, Attachment!storage
<1>5. CASE \E r \in Completions : Attachment!BeginComplete(r) \/ Attachment!RequestNext(r) \/ Attachment!ApiDies(r)
  BY <1>5, RequestKeepsTypes
<1>6. CASE \E w \in Executors : Attachment!Deliver(w) \/ Attachment!ExecutorNext(w) \/ Attachment!ExecutorDies(w)
  BY <1>6, ExecutorKeepsTypes
<1>7. CASE UNCHANGED Attachment!vars
  BY <1>7 DEF ScanTypeInv, Attachment!TypeOK, Attachment!Awaiting, Attachment!vars,
     Attachment!row, Attachment!storage, Attachment!run
<1>8. QED
  BY <1>1, <1>2, <1>3, <1>4, <1>5, <1>6, <1>7 DEF Attachment!Next

LEMMA ScanInitTypes ==
    ASSUME Attachment!AttachmentScanAssumption, Attachment!Init
    PROVE  ScanTypeInv
<1>1. /\ Attachment!IdleRequest \in ScanRequest /\ Attachment!IdleExec \in ScanExecution
      /\ Attachment!NoJob \in ScanJob
  BY DEF Attachment!AttachmentScanAssumption, Attachment!IdleRequest, ScanRequest,
     Attachment!RequestPcs, Attachment!IdleExec, ScanExecution,
         Attachment!ExecPcs, Attachment!Object, Attachment!NoJob, ScanJob
<1>2. /\ completing \in [Completions -> ScanRequest]
      /\ scanning \in [Executors -> ScanExecution] /\ scanJob \in ScanJob
      /\ scanJob.state # "active"
  BY <1>1 DEF Attachment!Init, Attachment!NoJob
<1>3. /\ scanStatus \in Attachment!Statuses /\ scanVersion \in 0 .. 1
      /\ cleanKey \in Attachment!Object
      /\ quarantine \in Attachment!Object /\ snapshot \in Attachment!Object
      /\ loaded \in Attachment!Object /\ scanVersion = 0
  BY DEF Attachment!Init, Attachment!Statuses, Attachment!Object
<1>4. clean \in [Contents -> Attachment!Object]
  BY DEF Attachment!Init, Attachment!Object
<1>5. uploadExpired \in BOOLEAN
  BY DEF Attachment!Init
<1>6. QED
  BY <1>2, <1>3, <1>4, <1>5 DEF ScanTypeInv, Attachment!TypeOK, ScanRequest, ScanExecution,
     ScanJob

\* Every variable of the attachment scan keeps its type: no request or delivery
\* takes the scan version, the attempts or the stalls out of their bounds.
THEOREM ScanTypeCorrect ==
    ASSUME Attachment!AttachmentScanAssumption
    PROVE  Attachment!Spec => []Attachment!TypeOK
<1>1. ScanTypeInv => Attachment!TypeOK
  BY DEF ScanTypeInv
<1>2. QED
  BY <1>1, ScanInitTypes, ScanNextKeepsTypes, PTL DEF Attachment!Spec

-----------------------------------------------------------------------------
(* A run reads scanned bytes *)

\* What a step of a request does to the row never makes it CLEAN.
LEMMA RequestKeepsScanned ==
    ASSUME ScannedInv, NEW r \in Completions,
           Attachment!BeginComplete(r) \/ Attachment!RequestNext(r) \/ Attachment!ApiDies(r)
    PROVE  BytesInspected' /\ KeyIsScanned' /\ Attachment!RunReadsScannedBytes'
<1>1. UNCHANGED <<cleanKey, scanning, snapshot, loaded>>
  BY DEF Attachment!BeginComplete, Attachment!RequestNext, Attachment!ApiDies,
     Attachment!HeadObject, Attachment!CompleteUpload, Attachment!Enqueue,
         Attachment!FailAttachment, Attachment!DeleteUpload, Attachment!row, Attachment!storage, Attachment!run
<1>2. scanStatus' = scanStatus \/ scanStatus' # "CLEAN"
  BY DEF Attachment!BeginComplete, Attachment!RequestNext, Attachment!ApiDies,
     Attachment!HeadObject, Attachment!CompleteUpload, Attachment!Enqueue,
         Attachment!FailAttachment, Attachment!DeleteUpload, Attachment!row, Attachment!storage, Attachment!run
<1>3. QED
  BY <1>1, <1>2 DEF ScannedInv, BytesInspected, KeyIsScanned, Attachment!RunReadsScannedBytes

\* An execution changes no other execution; what it has read stays with it.
LEMMA ExecutorKeepsScanned ==
    ASSUME Attachment!AttachmentScanAssumption, ScannedInv, NEW w \in Executors,
           Attachment!Deliver(w) \/ Attachment!ExecutorNext(w) \/ Attachment!ExecutorDies(w)
    PROVE  BytesInspected' /\ KeyIsScanned' /\ Attachment!RunReadsScannedBytes'
<1>t. scanning \in [Executors -> ScanExecution] /\ scanning[w] \in ScanExecution
  BY DEF ScannedInv, ScanTypeInv, Attachment!TypeOK, ScanExecution
<1>r. UNCHANGED <<snapshot, loaded>>
  BY DEF Attachment!Deliver, Attachment!ExecutorNext, Attachment!ExecutorDies, Attachment!Claim,
     Attachment!GetObject, Attachment!Inspect, Attachment!Reject, Attachment!CopyObject,
         Attachment!CompleteClean, Attachment!DeleteSource, Attachment!DeleteClean, Attachment!FailScan, Attachment!row, Attachment!storage, Attachment!run
\* An execution that ends where it neither copies nor commits.
<1>a. ASSUME NEW e, scanning' = [scanning EXCEPT ![w] = e],
             e.pc \in {"copy", "commit"} => e.bytes \in Acceptable
      PROVE  BytesInspected'
  BY <1>t, <1>a DEF ScannedInv, BytesInspected
<1>b. ASSUME NEW pc, Attachment!Goto(w, pc),
             pc \in {"copy", "commit"} => scanning[w].bytes \in Acceptable
      PROVE  BytesInspected'
  <2>1. scanning' = [scanning EXCEPT ![w] = [scanning[w] EXCEPT !.pc = pc]]
    BY <1>b DEF Attachment!Goto
  <2>2. /\ [scanning[w] EXCEPT !.pc = pc].pc = pc
        /\ [scanning[w] EXCEPT !.pc = pc].bytes = scanning[w].bytes
    BY <1>t DEF ScanExecution
  <2>3. QED
    BY <1>a, <1>b, <2>1, <2>2
<1>c. Attachment!IdleExec.pc \notin {"copy", "commit"}
  BY DEF Attachment!IdleExec
<1>d. Attachment!Return(w) \/ Attachment!Abandon(w) \/ Attachment!Throw(w) => BytesInspected'
  <2>1. Attachment!Return(w) => BytesInspected'
    BY <1>a, <1>c DEF Attachment!Return
  <2>2. Attachment!Abandon(w) => BytesInspected'
    BY <1>a, <1>c DEF Attachment!Abandon
  <2>3. Attachment!Throw(w) => BytesInspected'
    BY <1>b, <2>2 DEF Attachment!Throw
  <2>4. QED
    BY <2>1, <2>2, <2>3
<1>k. ASSUME UNCHANGED cleanKey, scanStatus' = scanStatus \/ scanStatus' # "CLEAN"
      PROVE  KeyIsScanned' /\ Attachment!RunReadsScannedBytes'
  BY <1>r, <1>k DEF ScannedInv, KeyIsScanned, Attachment!RunReadsScannedBytes
<1>1. CASE Attachment!Deliver(w)
  <2>1. [pc |-> "claim", version |-> scanJob.version, attempt |-> scanJob.attempt + 1,
         lock |-> scanJob.stalls, bytes |-> NoBytes].pc = "claim"
    OBVIOUS
  <2>2. QED
    BY <1>1, <1>a, <1>k, <2>1 DEF Attachment!Deliver, Attachment!row
<1>2. CASE Attachment!Claim(w)
  <2>1. BytesInspected'
    BY <1>2, <1>b, <1>d DEF Attachment!Claim
  <2>2. UNCHANGED cleanKey /\ (scanStatus' = scanStatus \/ scanStatus' # "CLEAN")
    BY <1>2 DEF Attachment!Claim, Attachment!ClaimRow
  <2>3. QED
    BY <1>k, <2>1, <2>2
<1>3. CASE Attachment!GetObject(w)
  <2>1. CASE Attachment!Throw(w)
    BY <1>3, <1>d, <1>k, <2>1 DEF Attachment!GetObject, Attachment!row
  <2>2. CASE ~ Attachment!Throw(w)
    <3>1. scanning' = [scanning EXCEPT ![w] = [scanning[w] EXCEPT !.pc = "inspect", !.bytes = quarantine]]
      BY <1>3, <2>2 DEF Attachment!GetObject
    <3>2. [scanning[w] EXCEPT !.pc = "inspect", !.bytes = quarantine].pc = "inspect"
      BY <1>t DEF ScanExecution
    <3>3. QED
      BY <1>3, <1>a, <1>k, <3>1, <3>2 DEF Attachment!GetObject, Attachment!row
  <2>3. QED
    BY <2>1, <2>2
<1>4. CASE Attachment!Inspect(w)
  BY <1>4, <1>b, <1>d, <1>k DEF Attachment!Inspect, Attachment!row
<1>5. CASE Attachment!Reject(w)
  <2>1. BytesInspected'
    BY <1>5, <1>b, <1>d DEF Attachment!Reject
  <2>2. UNCHANGED cleanKey /\ (scanStatus' = scanStatus \/ scanStatus' # "CLEAN")
    BY <1>5 DEF Attachment!Reject
  <2>3. QED
    BY <1>k, <2>1, <2>2
<1>6. CASE Attachment!CopyObject(w)
  <2>1. scanning[w].bytes \in Acceptable
    BY <1>6 DEF Attachment!CopyObject, ScannedInv, BytesInspected
  <2>2. QED
    BY <1>6, <1>b, <1>d, <1>k, <2>1 DEF Attachment!CopyObject, Attachment!row
<1>7. CASE Attachment!CompleteClean(w)
  <2>1. scanning[w].bytes \in Acceptable
    BY <1>7 DEF Attachment!CompleteClean, ScannedInv, BytesInspected
  <2>2. BytesInspected'
    BY <1>7, <1>b, <1>d DEF Attachment!CompleteClean
  <2>3. cleanKey' \in Acceptable \/ (UNCHANGED cleanKey /\ (scanStatus' = scanStatus \/ scanStatus' # "CLEAN"))
    BY <1>7, <2>1 DEF Attachment!CompleteClean, Attachment!CommitClean
  <2>4. QED
    BY <1>k, <1>r, <2>2, <2>3
       DEF ScannedInv, KeyIsScanned, Attachment!RunReadsScannedBytes
<1>8. CASE Attachment!DeleteSource(w) \/ Attachment!DeleteClean(w)
  BY <1>8, <1>d, <1>k DEF Attachment!DeleteSource, Attachment!DeleteClean, Attachment!row
<1>9. CASE Attachment!FailScan(w)
  BY <1>9, <1>d, <1>k DEF Attachment!FailScan
<1>10. CASE Attachment!ExecutorDies(w)
  BY <1>10, <1>a, <1>c, <1>k DEF Attachment!ExecutorDies, Attachment!row
<1>11. QED
  BY <1>1, <1>2, <1>3, <1>4, <1>5, <1>6, <1>7, <1>8, <1>9, <1>10
     DEF Attachment!ExecutorNext

LEMMA NextKeepsScanned ==
    ASSUME Attachment!AttachmentScanAssumption, ScannedInv, [Attachment!Next]_(Attachment!vars)
    PROVE  ScannedInv'
<1>t. ScanTypeInv'
  BY ScanNextKeepsTypes DEF ScannedInv
<1>1. CASE (\E c \in Contents : Attachment!Upload(c)) \/ Attachment!UploadExpires \/ Attachment!Stall \/ UNCHANGED Attachment!vars
  <2>1. UNCHANGED <<Attachment!row, scanning, Attachment!run>>
    BY <1>1 DEF Attachment!Upload, Attachment!UploadExpires, Attachment!Stall, Attachment!vars
  <2>2. QED
    BY <1>t, <2>1 DEF ScannedInv, BytesInspected, KeyIsScanned, Attachment!RunReadsScannedBytes,
       Attachment!row, Attachment!run
<1>2. CASE Attachment!CreateRun
  BY <1>2, <1>t DEF Attachment!CreateRun, ScannedInv, BytesInspected, KeyIsScanned,
     Attachment!RunReadsScannedBytes, Attachment!row
\* The object under the key may be anything by now; what is not the snapshot's
\* hash is refused.
<1>3. CASE Attachment!LoadAttachment
  <2>1. loaded' = snapshot /\ snapshot # NoBytes
    BY <1>3 DEF Attachment!LoadAttachment, Attachment!Accepts
  <2>2. QED
    BY <1>3, <1>t, <2>1
       DEF Attachment!LoadAttachment, ScannedInv, BytesInspected, KeyIsScanned, Attachment!RunReadsScannedBytes, Attachment!row
<1>4. CASE \E r \in Completions : Attachment!BeginComplete(r) \/ Attachment!RequestNext(r) \/ Attachment!ApiDies(r)
  BY <1>4, <1>t, RequestKeepsScanned DEF ScannedInv
<1>5. CASE \E w \in Executors : Attachment!Deliver(w) \/ Attachment!ExecutorNext(w) \/ Attachment!ExecutorDies(w)
  BY <1>5, <1>t, ExecutorKeepsScanned DEF ScannedInv
<1>6. QED
  BY <1>1, <1>2, <1>3, <1>4, <1>5 DEF Attachment!Next

\* "The worker reloads and re-hashes each snapshot" (secure-attachments.md):
\* whatever is uploaded, copied or deleted, the agents of a run receive only
\* bytes the scanner accepted.
THEOREM RunReadsScannedBytesHolds ==
    ASSUME Attachment!AttachmentScanAssumption
    PROVE  Attachment!Spec => []Attachment!RunReadsScannedBytes
<1>1. Attachment!Init => ScannedInv
  <2>1. ASSUME Attachment!Init
        PROVE  BytesInspected /\ KeyIsScanned /\ Attachment!RunReadsScannedBytes
    BY <2>1 DEF Attachment!Init, Attachment!IdleExec, BytesInspected, KeyIsScanned,
       Attachment!RunReadsScannedBytes
  <2>2. QED
    BY <2>1, ScanInitTypes DEF ScannedInv
<1>2. ScannedInv => Attachment!RunReadsScannedBytes
  BY DEF ScannedInv
<1>3. QED
  BY <1>1, <1>2, NextKeepsScanned, PTL DEF Attachment!Spec

-----------------------------------------------------------------------------
(* A verdict is final *)

\* A request marks a failure only where it found an upload without a verdict.
FailsUnsettled ==
    \A r \in Completions : completing[r].pc = "fail" => completing[r].expect \in {"AWAITING_UPLOAD", "QUARANTINED"}

LEMMA FailsUnsettledKept ==
    ASSUME Attachment!AttachmentScanAssumption, ScanTypeInv, FailsUnsettled, [Attachment!Next]_(Attachment!vars)
    PROVE  FailsUnsettled'
<1>t. completing \in [Completions -> ScanRequest]
  BY DEF ScanTypeInv, Attachment!TypeOK, ScanRequest
<1>1. CASE UNCHANGED completing
  BY <1>1 DEF FailsUnsettled
<1>2. ASSUME NEW r \in Completions, Attachment!BeginComplete(r) \/ Attachment!RequestNext(r) \/ Attachment!ApiDies(r)
      PROVE  FailsUnsettled'
  <2>1. PICK e : /\ completing' = [completing EXCEPT ![r] = e]
                 /\ e.pc = "fail" => e.expect \in {"AWAITING_UPLOAD", "QUARANTINED"}
    <3>1. /\ Attachment!IdleRequest.pc # "fail"
          /\ \A pc, expect : [pc |-> pc, expect |-> expect].pc = pc /\ [pc |-> pc, expect |-> expect].expect = expect
      BY DEF Attachment!IdleRequest
    <3>2. CASE Attachment!BeginComplete(r) \/ Attachment!CompleteUpload(r) \/ Attachment!FailAttachment(r)
      BY <3>1, <3>2 DEF Attachment!BeginComplete, Attachment!CompleteUpload,
         Attachment!FailAttachment, Attachment!GotoR
    <3>3. CASE Attachment!HeadObject(r) \/ Attachment!Enqueue(r) \/ Attachment!DeleteUpload(r) \/ Attachment!ApiDies(r)
      BY <3>1, <3>3 DEF Attachment!HeadObject, Attachment!Enqueue, Attachment!DeleteUpload,
         Attachment!ApiDies, Attachment!GotoR
    <3>4. QED
      BY <1>2, <3>2, <3>3 DEF Attachment!RequestNext
  <2>2. QED
    BY <1>t, <2>1 DEF FailsUnsettled
<1>3. CASE \E w \in Executors : Attachment!Deliver(w) \/ Attachment!ExecutorNext(w) \/ Attachment!ExecutorDies(w)
  BY <1>1, <1>3 DEF Attachment!Deliver, Attachment!ExecutorNext, Attachment!ExecutorDies,
     Attachment!Claim, Attachment!GetObject, Attachment!Inspect, Attachment!Reject,
         Attachment!CopyObject, Attachment!CompleteClean, Attachment!DeleteSource, Attachment!DeleteClean, Attachment!FailScan
<1>4. QED
  BY <1>1, <1>2, <1>3 DEF Attachment!Next, Attachment!Upload, Attachment!UploadExpires, Attachment!Stall,
     Attachment!CreateRun, Attachment!LoadAttachment, Attachment!vars

\* Every write of the row asks for the status it replaces, so that of the executions that scan
\* an attachment and of the requests that fail it only one commits, whichever call throws.
THEOREM VerdictIsFinalHolds ==
    ASSUME Attachment!AttachmentScanAssumption
    PROVE  Attachment!Spec => [][Attachment!VerdictIsFinal]_(Attachment!vars)
<1>1. ASSUME ScanTypeInv, FailsUnsettled, [Attachment!Next]_(Attachment!vars),
             scanStatus \in {"CLEAN", "REJECTED", "FAILED"}
      PROVE  UNCHANGED <<scanStatus, cleanKey>>
  <2>1. CASE (\E c \in Contents : Attachment!Upload(c)) \/ Attachment!UploadExpires \/ Attachment!Stall
              \/ Attachment!CreateRun \/ Attachment!LoadAttachment \/ UNCHANGED Attachment!vars
    BY <2>1 DEF Attachment!Upload, Attachment!UploadExpires, Attachment!Stall, Attachment!CreateRun,
       Attachment!LoadAttachment, Attachment!vars, Attachment!row
  <2>2. ASSUME NEW r \in Completions, Attachment!BeginComplete(r) \/ Attachment!RequestNext(r) \/ Attachment!ApiDies(r)
        PROVE  UNCHANGED <<scanStatus, cleanKey>>
    <3>1. CASE Attachment!FailAttachment(r)
      BY <1>1, <3>1 DEF Attachment!FailAttachment, FailsUnsettled
    <3>2. CASE ~ Attachment!FailAttachment(r)
      BY <1>1, <2>2, <3>2 DEF Attachment!BeginComplete, Attachment!RequestNext, Attachment!ApiDies,
         Attachment!HeadObject, Attachment!CompleteUpload, Attachment!Enqueue, Attachment!DeleteUpload,
             Attachment!Awaiting, Attachment!row
    <3>3. QED
      BY <3>1, <3>2
  <2>3. ASSUME NEW w \in Executors, Attachment!Deliver(w) \/ Attachment!ExecutorNext(w) \/ Attachment!ExecutorDies(w)
        PROVE  UNCHANGED <<scanStatus, cleanKey>>
    <3>1. ~ Attachment!Owns(w) /\ ~ Attachment!Claims(w)
      BY <1>1 DEF Attachment!Owns, Attachment!Claims, Attachment!Claimable
    <3>2. QED
      BY <2>3, <3>1 DEF Attachment!Deliver, Attachment!ExecutorNext, Attachment!ExecutorDies,
         Attachment!Claim, Attachment!ClaimRow, Attachment!GetObject, Attachment!Inspect,
             Attachment!Reject, Attachment!CopyObject, Attachment!CompleteClean, Attachment!CommitClean,
                 Attachment!DeleteSource, Attachment!DeleteClean, Attachment!FailScan, Attachment!row
  <2>4. QED
    BY <1>1, <2>1, <2>2, <2>3 DEF Attachment!Next
<1>2. ASSUME Attachment!Init PROVE FailsUnsettled
  BY <1>2 DEF Attachment!Init, Attachment!IdleRequest, FailsUnsettled
<1>3. ScanTypeInv /\ FailsUnsettled /\ [Attachment!Next]_(Attachment!vars) =>
        [Attachment!VerdictIsFinal]_(Attachment!vars)
  BY <1>1 DEF Attachment!VerdictIsFinal
<1>4. QED
  BY <1>2, <1>3, ScanInitTypes, ScanNextKeepsTypes, FailsUnsettledKept, PTL DEF Attachment!Spec

-----------------------------------------------------------------------------
(* The process of the worker *)

\* A consumer that takes or works on jobs has its stores.
StoresAreOpen == \A c \in working \union taking : Process!Uses(c) \subseteq openStores

\* main() constructs the stores before the consumers, and the handlers come last.
StartInv ==
    /\ mainStep \in {"environment", "setup", "consumers"} => taking = {} /\ working = {}
    /\ mainStep \in {"consumers", "handoff", "databases", "reconciliation", "services"} =>
         {"repository", "checkpointer"} \subseteq openStores
    /\ mainStep \in {"databases", "reconciliation"} => Phase3
    /\ mainStep \in {"handoff", "databases", "reconciliation", "services"} => "previewStore" \in openStores
    /\ mainStep = "serving" => handlers = Process!Signals
    /\ mainStep \in {"serving", "closing"} => \A s \in Process!Signals \ handlers : signals[s] > 0
    /\ mainStep \in {"environment", "setup", "consumers", "handoff", "databases", "reconciliation", "services", "failed"}
         => handlers = {}

\* Shutdown has come to a place in its order; the consumers before it are at rest.
CloseInv ==
    mainStep = "closing" =>
        \E k \in 0 .. Len(Process!CloseOrder) :
            /\ toClose = SubSeq(Process!CloseOrder, k + 1, Len(Process!CloseOrder))
            /\ \A i \in 1 .. k : Process!CloseOrder[i] \notin taking \union working

ProcessInv == Process!TypeOK /\ StoresAreOpen /\ StartInv /\ CloseInv

\* The order of the closes: a consumer comes before every store it uses.
LEMMA TheOrder ==
    ASSUME Process!WorkerAssumption
    PROVE  /\ Process!CloseOrder = IF Phase3
             THEN <<"reconciliation", "recoveryQueue", "database", "handoff", "attachment", "reopen",
                    "run", "previewStore", "checkpointer", "repository">>
             ELSE <<"handoff", "attachment", "reopen", "run", "previewStore", "checkpointer",
                    "repository">>
           /\ Process!CloseOrder \in Seq(Process!Consumers \union Process!Stores)
<1> DEFINE tail == <<"handoff", "attachment", "reopen", "run", "previewStore", "checkpointer",
                     "repository">>
           head == <<"reconciliation", "recoveryQueue", "database">>
           names == {"reconciliation", "recoveryQueue", "database", "handoff", "attachment", "reopen",
                     "run", "previewStore", "checkpointer", "repository"}
           all == <<"reconciliation", "recoveryQueue", "database", "handoff", "attachment", "reopen",
                    "run", "previewStore", "checkpointer", "repository">>
<1>1. tail \in Seq(Process!Consumers \union Process!Stores)
  BY DEF Process!Consumers, Process!Stores
<1>2. CASE Phase3
  <2>1. head \o tail = all
    <3>1. head \in Seq(names) /\ tail \in Seq(names) /\ Len(head) = 3 /\ Len(tail) = 7
      OBVIOUS
    <3>2. head \o tail = [i \in 1 .. 10 |-> IF i <= 3 THEN head[i] ELSE tail[i - 3]]
      <4>1. head \o tail \in Seq(names) /\ Len(head \o tail) = 10
        BY <3>1, ConcatProperties
      <4>2. \A i \in 1 .. 10 : (head \o tail)[i] = IF i <= 3 THEN head[i] ELSE tail[i - 3]
        BY <3>1, ConcatProperties
      <4>3. QED
        BY <4>1, <4>2
    <3>3. \A i \in 1 .. 10 : all[i] = IF i <= 3 THEN head[i] ELSE tail[i - 3]
      OBVIOUS
    <3>4. all = [i \in 1 .. 10 |-> all[i]]
      OBVIOUS
    <3>5. QED
      BY <3>2, <3>3, <3>4, Zenon
  <2>2. all \in Seq(Process!Consumers \union Process!Stores)
    BY <1>2 DEF Process!Consumers, Process!Stores
  <2>3. QED
    BY <1>2, <2>1, <2>2 DEF Process!CloseOrder
<1>3. CASE ~ Phase3
  <2>1. <<>> \o tail = tail
    BY <1>1
  <2>2. QED
    BY <1>1, <1>3, <2>1 DEF Process!CloseOrder
<1>4. QED
  BY <1>2, <1>3

LEMMA ConsumersComeFirst ==
    ASSUME Process!WorkerAssumption, NEW i \in 1 .. Len(Process!CloseOrder), NEW c \in Process!Consumers,
           Process!CloseOrder[i] \in Process!Uses(c)
    PROVE  \E j \in 1 .. i - 1 : Process!CloseOrder[j] = c
<1>1. CASE Phase3
  BY <1>1, TheOrder DEF Process!Consumers, Process!Uses
<1>2. CASE ~ Phase3
  BY <1>2, TheOrder DEF Process!Consumers, Process!Uses
<1>3. QED
  BY <1>1, <1>2

\* What is left after the first of a remainder.
LEMMA SubSeqAhead ==
    ASSUME NEW S, NEW q \in Seq(S), NEW k \in 0 .. Len(q), SubSeq(q, k + 1, Len(q)) # <<>>
    PROVE  /\ k < Len(q) /\ Head(SubSeq(q, k + 1, Len(q))) = q[k + 1]
           /\ Tail(SubSeq(q, k + 1, Len(q))) = SubSeq(q, (k + 1) + 1, Len(q))
<1> DEFINE n == Len(q)
           r == SubSeq(q, k + 1, n)
<1>1. n \in Nat
  OBVIOUS
<1>2. r = [i \in 1 .. n - k |-> q[k + i]]
  BY <1>1
<1>3. r \in Seq(S) /\ Len(r) = n - k
  BY <1>1, <1>2
<1>4. k < n
  BY <1>1, <1>3
<1>5. Head(r) = q[k + 1]
  BY <1>1, <1>2, <1>3, <1>4
<1>6. Tail(r) = [i \in 1 .. n - k - 1 |-> q[k + 1 + i]]
  BY <1>1, <1>2, <1>3, <1>4
<1>7. SubSeq(q, (k + 1) + 1, n) = [i \in 1 .. n - k - 1 |-> q[k + 1 + i]]
  BY <1>1, <1>4
<1>8. QED
  BY <1>4, <1>5, <1>6, <1>7

LEMMA ProcessInit == Process!WorkerAssumption /\ Process!Init => ProcessInv
<1> SUFFICES ASSUME Process!WorkerAssumption, Process!Init PROVE ProcessInv
  OBVIOUS
<1>1. Process!TypeOK
  BY DEF Process!WorkerAssumption, Process!Init, Process!TypeOK, Process!Signals
<1>2. StoresAreOpen /\ StartInv /\ CloseInv
  BY DEF Process!Init, StoresAreOpen, StartInv, CloseInv
<1>3. QED
  BY <1>1, <1>2 DEF ProcessInv

\* main(): what it constructs is there when it comes to what uses it.
LEMMA MainKeeps == ASSUME Process!WorkerAssumption, ProcessInv, Process!Main PROVE ProcessInv'
<1> USE DEF ProcessInv
<1>1. Process!TypeOK'
  <2>1. CASE Process!ConstructDatabaseConsumers
    <3>1. Phase3
      BY <2>1 DEF Process!ConstructDatabaseConsumers, StartInv
    <3>2. QED
      BY <2>1, <3>1 DEF Process!ConstructDatabaseConsumers, Process!Continues, Process!TypeOK,
         Process!Consumers, Process!Stores
  <2>2. CASE Process!SetupCheckpointer \/ Process!ConstructConsumers
    BY <2>2 DEF Process!SetupCheckpointer, Process!ConstructConsumers, Process!Continues,
       Process!Fails, Process!TypeOK, Process!Consumers, Process!Stores
  <2>3. CASE Process!ParseEnvironment \/ Process!StartReconciliation
    BY <2>3 DEF Process!ParseEnvironment, Process!StartReconciliation, Process!Continues,
       Process!Fails, Process!work, Process!TypeOK
  <2>4. CASE Process!StartHandoff
    <3>1. mainStep' \in {"databases", "services", "failed"}
      BY <2>4 DEF Process!StartHandoff, Process!Continues, Process!Fails
    <3>2. QED
      BY <2>4, <3>1 DEF Process!StartHandoff, Process!Continues, Process!Fails, Process!work,
         Process!TypeOK
  <2>5. ASSUME NEW configured \in SUBSET (Process!Services \ {"readiness"}), Process!StartServices(configured)
        PROVE  Process!TypeOK'
    BY <2>5 DEF Process!StartServices, Process!work, Process!TypeOK, Process!Services
  <2>6. QED
    BY <2>1, <2>2, <2>3, <2>4, <2>5 DEF Process!Main
<1>2. mainStep' # "closing"
  BY DEF Process!Main, Process!ParseEnvironment, Process!SetupCheckpointer,
     Process!ConstructConsumers, Process!StartHandoff,
         Process!ConstructDatabaseConsumers, Process!StartReconciliation, Process!StartServices, Process!Continues, Process!Fails
<1>3. StoresAreOpen' /\ StartInv'
  <2>1. CASE Process!ParseEnvironment
    BY <2>1 DEF Process!ParseEnvironment, Process!Continues, Process!Fails, Process!work,
       StoresAreOpen, StartInv
  <2>2. CASE Process!SetupCheckpointer
    BY <2>2 DEF Process!SetupCheckpointer, Process!Continues, Process!Fails, StoresAreOpen,
       StartInv
  <2>3. CASE Process!ConstructConsumers
    <3>1. working' = {}
      BY <2>3 DEF Process!ConstructConsumers, StartInv
    <3>2. QED
      BY <2>3, <3>1 DEF Process!ConstructConsumers, Process!Continues, StoresAreOpen, StartInv,
         Process!Uses
  <2>4. CASE Process!StartHandoff
    BY <2>4 DEF Process!StartHandoff, Process!Continues, Process!Fails, Process!work,
       StoresAreOpen, StartInv
  <2>5. CASE Process!ConstructDatabaseConsumers
    BY <2>5 DEF Process!ConstructDatabaseConsumers, Process!Continues, StoresAreOpen, StartInv,
       Process!Uses
  <2>6. CASE Process!StartReconciliation
    BY <2>6 DEF Process!StartReconciliation, Process!Continues, Process!Fails, Process!work,
       StoresAreOpen, StartInv
  <2>7. ASSUME NEW configured \in SUBSET (Process!Services \ {"readiness"}), Process!StartServices(configured)
        PROVE  StoresAreOpen' /\ StartInv'
    BY <2>7 DEF Process!StartServices, Process!work, StoresAreOpen, StartInv
  <2>8. QED
    BY <2>1, <2>2, <2>3, <2>4, <2>5, <2>6, <2>7 DEF Process!Main
<1>4. QED
  BY <1>1, <1>2, <1>3 DEF CloseInv

\* The queues: a job is taken by a consumer that takes jobs.
LEMMA QueuesKeep ==
    ASSUME Process!WorkerAssumption, ProcessInv, NEW c \in Process!Consumers, Process!Take(c) \/ Process!EndJob(c)
    PROVE  ProcessInv'
<1> USE DEF ProcessInv
<1>1. Process!TypeOK'
  BY DEF Process!TypeOK, Process!Take, Process!EndJob
<1>2. /\ taking' \union working' \subseteq taking \union working
      /\ UNCHANGED <<mainStep, toClose, openStores, timers, handlers, signals, taking>>
      /\ working' = {} \/ working' # {}
  BY DEF Process!Take, Process!EndJob
<1>3. StoresAreOpen' /\ CloseInv'
  BY <1>2 DEF StoresAreOpen, CloseInv
<1>4. StartInv'
  <2>1. mainStep \in {"environment", "setup", "consumers"} => working' = {}
    BY <1>2 DEF StartInv
  <2>2. QED
    BY <1>2, <2>1 DEF StartInv
<1>5. QED
  BY <1>1, <1>3, <1>4

\* A signal ends the process or begins its shutdown.
LEMMA SignalKeeps ==
    ASSUME Process!WorkerAssumption, ProcessInv, NEW s \in Process!Signals, Process!Signal(s)
    PROVE  ProcessInv'
<1> USE DEF ProcessInv
<1>1. Process!TypeOK'
  <2>1. signals' \in [Process!Signals -> 0 .. SignalBound]
    <3>1. signals[s] + 1 \in 0 .. SignalBound
      BY DEF Process!TypeOK, Process!WorkerAssumption, Process!Signal
    <3>2. QED
      BY <3>1 DEF Process!TypeOK, Process!Signal
  <2>2. toClose' \in Seq(Process!Consumers \union Process!Stores)
    BY TheOrder DEF Process!TypeOK, Process!Signal
  <2>3. QED
    BY <2>1, <2>2 DEF Process!TypeOK, Process!Signal
<1>2. CASE s \notin handlers
  BY <1>1, <1>2 DEF Process!Signal, StoresAreOpen, StartInv, CloseInv
<1>3. CASE s \in handlers
  <2>1. /\ UNCHANGED Process!work /\ handlers' = handlers \ {s}
        /\ signals' = [signals EXCEPT ![s] = @ + 1]
        /\ mainStep' = "closing" /\ IF mainStep = "closing" THEN toClose' = toClose ELSE toClose' = Process!CloseOrder
    BY <1>3 DEF Process!Signal, Process!work
  <2>2. StoresAreOpen'
    BY <2>1 DEF StoresAreOpen, Process!work
  <2>3. \A q \in Process!Signals \ handlers' : signals'[q] > 0
    <3>1. mainStep \in {"serving", "closing"}
      BY <1>3 DEF Process!Signal, StartInv, Process!TypeOK, Process!Ended
    <3>2. signals \in [Process!Signals -> Nat]
      BY DEF Process!TypeOK, Process!WorkerAssumption
    <3>3. QED
      BY <2>1, <3>1, <3>2 DEF StartInv
  <2>4. CloseInv'
    <3>1. CASE mainStep = "closing"
      BY <2>1, <3>1 DEF CloseInv, Process!work
    <3>2. CASE mainStep # "closing"
      <4>1. /\ Len(Process!CloseOrder) \in Nat
            /\ Process!CloseOrder = SubSeq(Process!CloseOrder, 0 + 1, Len(Process!CloseOrder))
        BY TheOrder
      <4>2. QED
        BY <2>1, <3>2, <4>1 DEF CloseInv
    <3>3. QED
      BY <3>1, <3>2
  <2>5. QED
    BY <1>1, <2>1, <2>2, <2>3, <2>4 DEF StartInv
<1>4. QED
  BY <1>2, <1>3

\* shutdown(): a store is closed when every consumer that uses it is at rest.
LEMMA ShutdownKeeps ==
    ASSUME Process!WorkerAssumption, ProcessInv, Process!Shutdown
    PROVE  ProcessInv'
<1> USE DEF ProcessInv
<1> DEFINE n == Len(Process!CloseOrder)
<1>1. PICK k \in 0 .. n : /\ toClose = SubSeq(Process!CloseOrder, k + 1, n)
                          /\ \A i \in 1 .. k : Process!CloseOrder[i] \notin taking \union working
  BY DEF CloseInv, Process!Shutdown, Process!CloseConsumer, Process!CloseStore
<1>2. /\ Process!CloseOrder \in Seq(Process!Consumers \union Process!Stores) /\ n \in Nat
      /\ toClose # <<>> /\ mainStep = "closing"
      /\ UNCHANGED <<mainStep, timers, handlers, signals, working>>
  BY TheOrder DEF Process!Shutdown, Process!CloseConsumer, Process!CloseStore
<1>3. /\ k < n /\ Head(toClose) = Process!CloseOrder[k + 1] /\ k + 1 \in 0 .. n
      /\ Tail(toClose) = SubSeq(Process!CloseOrder, (k + 1) + 1, n)
  BY <1>1, <1>2, SubSeqAhead
<1>4. Process!TypeOK'
  <2>1. toClose' \in Seq(Process!Consumers \union Process!Stores)
    <3>1. /\ toClose' \in {toClose, Tail(toClose)}
          /\ toClose \in Seq(Process!Consumers \union Process!Stores)
      BY DEF Process!TypeOK, Process!Shutdown, Process!CloseConsumer, Process!CloseStore
    <3>2. Tail(toClose) \in Seq(Process!Consumers \union Process!Stores)
      BY <1>2, <3>1, HeadTailProperties
    <3>3. QED
      BY <3>1, <3>2
  <2>2. QED
    BY <1>2, <2>1 DEF Process!TypeOK, Process!Shutdown, Process!CloseConsumer,
       Process!CloseStore, Process!StopsTaking
<1>5. StartInv'
  BY <1>2 DEF StartInv
<1>6. CASE Process!CloseConsumer
  <2>1. taking' \subseteq taking /\ UNCHANGED <<working, openStores>>
    BY <1>6 DEF Process!CloseConsumer, Process!StopsTaking
  <2>2. \/ toClose' = toClose
        \/ toClose' = Tail(toClose) /\ Head(toClose) \notin taking' \union working'
    BY <1>6 DEF Process!CloseConsumer
  <2>3. StoresAreOpen'
    BY <2>1 DEF StoresAreOpen
  <2>4. CloseInv'
    <3>1. CASE toClose' = toClose
      BY <1>1, <2>1, <3>1 DEF CloseInv
    <3>2. CASE toClose' = Tail(toClose) /\ Head(toClose) \notin taking' \union working'
      <4>1. \A i \in 1 .. k + 1 : Process!CloseOrder[i] \notin taking' \union working'
        BY <1>1, <1>3, <2>1, <3>2
      <4>2. QED
        BY <1>3, <3>2, <4>1 DEF CloseInv
    <3>3. QED
      BY <2>2, <3>1, <3>2
  <2>5. QED
    BY <1>4, <1>5, <2>3, <2>4
<1>7. CASE Process!CloseStore
  <2>1. /\ openStores' = openStores \ {Process!CloseOrder[k + 1]} /\ toClose' = Tail(toClose)
        /\ UNCHANGED <<taking, working>>
        /\ Process!CloseOrder[k + 1] \in Process!Stores
    BY <1>3, <1>7 DEF Process!CloseStore
  <2>2. Process!CloseOrder[k + 1] \notin taking \union working
    <3>1. Process!Stores \intersect Process!Consumers = {}
      BY DEF Process!Stores, Process!Consumers
    <3>2. QED
      BY <2>1, <3>1 DEF Process!TypeOK
  <2>3. StoresAreOpen'
    <3> SUFFICES ASSUME NEW c \in taking \union working
                 PROVE  Process!CloseOrder[k + 1] \notin Process!Uses(c)
      BY <2>1 DEF StoresAreOpen
    <3>1. c \in Process!Consumers
      BY DEF Process!TypeOK
    <3>2. k + 1 \in 1 .. n
      BY <1>2, <1>3
    <3>3. \A j \in 1 .. (k + 1) - 1 : Process!CloseOrder[j] # c
      BY <1>1
    <3>4. QED
      BY <3>1, <3>2, <3>3, ConsumersComeFirst
  <2>4. CloseInv'
    <3>1. \A i \in 1 .. k + 1 : Process!CloseOrder[i] \notin taking' \union working'
      BY <1>1, <1>3, <2>1, <2>2
    <3>2. QED
      BY <1>3, <2>1, <3>1 DEF CloseInv
  <2>5. QED
    BY <1>4, <1>5, <2>3, <2>4
<1>8. QED
  BY <1>6, <1>7 DEF Process!Shutdown

\* A close() that rejects leaves no consumer behind.
LEMMA RejectKeeps == ASSUME Process!WorkerAssumption, ProcessInv, Process!CloseRejects PROVE ProcessInv'
BY DEF Process!CloseRejects, ProcessInv, Process!TypeOK, StoresAreOpen, StartInv, CloseInv

LEMMA ExitKeeps == ASSUME Process!WorkerAssumption, ProcessInv, Process!Exit PROVE ProcessInv'
BY DEF Process!Exit, ProcessInv, Process!TypeOK, StoresAreOpen, StartInv, CloseInv, Process!work

LEMMA ProcessHolds == ASSUME Process!WorkerAssumption PROVE Process!Spec => []ProcessInv
<1>1. ProcessInv /\ Process!Next => ProcessInv'
  BY MainKeeps, QueuesKeep, SignalKeeps, ShutdownKeeps, RejectKeeps, ExitKeeps DEF Process!Next
<1>2. ProcessInv /\ UNCHANGED Process!vars => ProcessInv'
  BY DEF Process!vars, ProcessInv, Process!TypeOK, StoresAreOpen, StartInv, CloseInv
<1>3. QED
  BY <1>1, <1>2, ProcessInit, PTL DEF Process!Spec

\* No job works on a store that is closed or not yet open, whatever signals come at whatever
\* step of the start or the shutdown.
THEOREM NoUseAfterCloseHolds ==
    ASSUME Process!WorkerAssumption
    PROVE  Process!Spec => []Process!NoUseAfterClose
<1>1. ProcessInv => Process!NoUseAfterClose
  BY DEF ProcessInv, StoresAreOpen, Process!NoUseAfterClose
<1>2. QED
  BY <1>1, ProcessHolds, PTL

\* One signal of a kind cuts no job off that a process at work has taken (process.once): what
\* ends it at once came before the handlers, after a start that failed, or for the second time.
THEOREM OneSignalIsGracefulHolds ==
    ASSUME Process!WorkerAssumption
    PROVE  Process!Spec => [][Process!OneSignalIsGraceful]_(Process!vars)
<1>1. ProcessInv /\ [Process!Next]_(Process!vars) => [Process!OneSignalIsGraceful]_(Process!vars)
  <2> SUFFICES ASSUME ProcessInv, Process!Next, mainStep' = "killed"
               PROVE  /\ mainStep \notin {"serving"}
                      /\ mainStep = "closing" => \E s \in Process!Signals : signals'[s] > 1
    BY DEF Process!OneSignalIsGraceful
  <2>1. PICK s \in Process!Signals : Process!Signal(s)
    BY DEF Process!Next, Process!Main, Process!ParseEnvironment, Process!SetupCheckpointer,
       Process!ConstructConsumers, Process!StartHandoff,
           Process!ConstructDatabaseConsumers, Process!StartReconciliation, Process!StartServices, Process!Continues, Process!Fails,
           Process!Shutdown, Process!CloseConsumer, Process!CloseStore, Process!CloseRejects, Process!Exit, Process!Take, Process!EndJob, Process!Ended
  <2>2. /\ s \notin handlers /\ signals' = [signals EXCEPT ![s] = @ + 1]
        /\ signals \in [Process!Signals -> Nat]
    BY <2>1 DEF Process!Signal, ProcessInv, Process!TypeOK, Process!WorkerAssumption
  <2>3. QED
    BY <2>2 DEF ProcessInv, StartInv
<1>2. QED
  BY <1>1, ProcessHolds, PTL DEF Process!Spec
=============================================================================
