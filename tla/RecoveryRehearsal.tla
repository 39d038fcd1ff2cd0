-------------------------- MODULE RecoveryRehearsal --------------------------
(***************************************************************************)
(* The staging recovery rehearsal: it backs the stack up with the writers  *)
(* stopped, restores the backups into isolated resources, restarts the     *)
(* persistent services, rolls the applications back and forward, and       *)
(* writes evidence.  Every docker command may fail, with part of its       *)
(* effect; `finally' paths bring the current stack back and remove the     *)
(* isolated resources.  While the applications run, agent runs start, end  *)
(* and write to the stores.                                                *)
(***************************************************************************)
EXTENDS Naturals, Sequences

CONSTANTS
    Applications,  \* APPLICATION_SERVICES
    Worker,        \* the application that runs agents
    StoreSeq,      \* the stores in the order in which they are backed up
    DataBound      \* bound: versions of the data of a store

Stores == {StoreSeq[i] : i \in 1 .. Len(StoreSeq)}
Proxy == "reverse-proxy"
Labeled == Applications \union {Proxy}
Services == Labeled \union Stores

(* What the constants satisfy; the modules that instantiate this one assume it. *)
RehearsalAssumption ==
    /\ Worker \in Applications /\ DataBound \in Nat /\ Len(StoreSeq) \in Nat \ {0}
    /\ Proxy \notin Applications \union Stores /\ Applications \intersect Stores = {}

VARIABLES
    pc,          \* the step of the script
    store,       \* how many stores the loop of this step has done
    failed,      \* operationError is set
    outcome,     \* how the script ended
    verified,    \* ensureCurrentStack passed
    svc,         \* the revision each service runs, or "stopped"
    active,      \* an agent run is active
    data,        \* the version of the live data of each store
    witness,     \* the durability witness of the backup
    before,      \* the durability witness before the restart
    backup,      \* the version in each backup file
    isolated,    \* isolated docker resources that exist
    created,     \* the resources the script recorded as created
    previous,    \* previousHealthy
    interrupted  \* history: a stop hit an active run

script == <<pc, store, failed, outcome, verified, witness, before, backup, created, previous>>
stack == <<svc, active, data, isolated, interrupted>>
vars == <<script, stack>>

(* A damaged store, backup or restore: its aggregates match no witness. *)
Damaged == DataBound + 1
Versions == 0 .. Damaged
Revisions == {"current", "previous", "stopped"}
Steps == {"preflight", "ensure", "stop", "witness", "dump", "compare", "recover_backup",
          "network", "volume", "start", "restore", "cleanup",
          "stop_again", "witness_before", "restart", "witness_after", "forward", "recover_restart",
          "images", "rollback", "check_previous", "recover_rollback", "evidence", "ended"}
Network == <<"network", Proxy>>
Volume(s) == <<"volume", s>>
Container(s) == <<"container", s>>
Resources == {Network} \union ({"volume", "container"} \X Stores)

TypeOK ==
    /\ pc \in Steps /\ store \in 0 .. Len(StoreSeq) /\ failed \in BOOLEAN
    /\ outcome \in {"none", "passed", "failed", "not_recovered", "not_removed"}
    /\ verified \in BOOLEAN /\ previous \in BOOLEAN /\ active \in BOOLEAN /\ interrupted \in BOOLEAN
    /\ svc \in [Services -> Revisions]
    /\ data \in [Stores -> Versions] /\ witness \in [Stores -> Versions]
    /\ before \in [Stores -> Versions] /\ backup \in [Stores -> Versions]
    /\ isolated \subseteq Resources /\ created \subseteq Resources

Init ==
    /\ pc = "preflight" /\ store = 0 /\ failed = FALSE /\ outcome = "none" /\ verified = FALSE
    /\ svc \in {[s \in Services |-> "current"], [s \in Services |-> IF s = Proxy THEN "stopped" ELSE "current"]}
    /\ active = FALSE /\ data = [s \in Stores |-> 0]
    /\ witness = [s \in Stores |-> Damaged] /\ before = [s \in Stores |-> Damaged]
    /\ backup = [s \in Stores |-> Damaged]
    /\ isolated = {} /\ created = {} /\ previous = FALSE /\ interrupted = FALSE

-----------------------------------------------------------------------------
(* The platform, while its applications run *)

StartRun ==
    /\ \A a \in Applications : svc[a] # "stopped"
    /\ ~active
    /\ active' = TRUE
    /\ UNCHANGED <<script, svc, data, isolated, interrupted>>

EndRun ==
    /\ active /\ svc[Worker] # "stopped"
    /\ active' = FALSE
    /\ UNCHANGED <<script, svc, data, isolated, interrupted>>

Write(s) ==
    /\ active /\ svc[Worker] # "stopped" /\ svc[s] # "stopped" /\ data[s] < DataBound
    /\ data' = [data EXCEPT ![s] = @ + 1]
    /\ UNCHANGED <<script, svc, active, isolated, interrupted>>

Platform == StartRun \/ EndRun \/ \E s \in Stores : Write(s)

-----------------------------------------------------------------------------
(* The script's control *)

(* The next step after this one succeeded, and the one after it threw. *)
Goto(step) == pc' = step /\ store' = 0 /\ UNCHANGED <<failed, outcome>>
Throw(step) == pc' = step /\ store' = 0 /\ failed' = TRUE /\ UNCHANGED outcome
End(how) == pc' = "ended" /\ outcome' = how /\ UNCHANGED <<store, failed>>

Skip == UNCHANGED <<verified, witness, before, backup, created, previous>>

(* Containers that answer: ps -q finds them, their label is this revision. *)
Runs(services, revision, now) == \A s \in services : now[s] = revision

(* The web origin and /readyz are answered through the proxy. *)
MayBeHealthy(now) == \A s \in Services : now[s] # "stopped"

(* verifyApplicationRevision and verifyExternalHealth of the current revision. *)
Verified(now) == Runs(Labeled, "current", now) /\ MayBeHealthy(now)

(* Options, preflight, revision pin, paths and prerequisite evidence pass and the *)
(* backup directory is created, or the rehearsal ends before it touches anything. *)
CheckPrerequisites ==
    /\ pc = "preflight"
    /\ Goto("ensure") \/ End("failed")
    /\ Skip /\ UNCHANGED stack

EnsureCurrentStack ==
    /\ pc = "ensure"
    /\ \/ Verified(svc) /\ verified' = TRUE /\ Goto("stop")
       \/ UNCHANGED verified /\ End("failed")
    /\ UNCHANGED <<stack, witness, before, backup, created, previous>>

(* compose stop: all, or some and an error. *)
StopServices(step, next, recover) ==
    /\ pc = step
    /\ \E S \in SUBSET Labeled :
          /\ svc' = [s \in Services |-> IF s \in S THEN "stopped" ELSE svc[s]]
          /\ interrupted' = (interrupted \/ (active /\ Worker \in S))
          /\ \/ S = Labeled /\ Goto(next)
             \/ Throw(recover)
    /\ Skip /\ UNCHANGED <<active, data, isolated>>

(* captureDurabilityState and assertRecoveryWitness: no run is active. *)
CaptureWitness(step, next, recover, state) ==
    /\ pc = step
    /\ \/ ~active /\ state' = data /\ Goto(next)
       \/ UNCHANGED state /\ Throw(recover)
    /\ UNCHANGED <<stack, verified, backup, created, previous>>

(* rollForwardCurrentStack: compose up of everything on the current revision, *)
(* then the checks.  Services outside S died or were not replaced.            *)
RollForward(step, Succeeds, Fails) ==
    /\ pc = step
    /\ \E S \in SUBSET Services :
          LET now == [s \in Services |-> IF s \in S THEN "current" ELSE svc[s]] IN
          /\ svc' = now
          /\ \/ Verified(now) /\ Succeeds
             \/ Fails
    /\ Skip /\ UNCHANGED <<active, data, isolated, interrupted>>

-----------------------------------------------------------------------------
(* createBackups *)

Stop == StopServices("stop", "witness", "recover_backup")
Capture == CaptureWitness("witness", "dump", "recover_backup", witness) /\ UNCHANGED before

(* pg_dump, the Redis snapshot, the object mirror. *)
Dump ==
    LET s == StoreSeq[store + 1] IN
    /\ pc = "dump"
    /\ \/ /\ \E v \in {data[s], Damaged} : backup' = [backup EXCEPT ![s] = v]
          /\ IF store + 1 = Len(StoreSeq) THEN Goto("compare")
             ELSE store' = store + 1 /\ UNCHANGED <<pc, failed, outcome>>
       \/ UNCHANGED backup /\ Throw("recover_backup")
    /\ UNCHANGED <<stack, verified, witness, before, created, previous>>

AssertEqualState_Never(expected, actual) == TRUE

(* assertEqualState compares aggregates of the two states. *)
AssertEqualState(expected, actual) == expected = actual

(* Only the object mirror is compared with the witness at this point. *)
Compare ==
    LET last == StoreSeq[Len(StoreSeq)] IN
    /\ pc = "compare"
    /\ \/ backup[last] = witness[last] /\ Goto("recover_backup")
       \/ Throw("recover_backup")
    /\ Skip /\ UNCHANGED stack

(* After the finally path: the error is thrown on, or the next phase starts. *)
AfterBackup == IF failed THEN End("failed") ELSE Goto("network")
RecoverBackup == RollForward("recover_backup", AfterBackup, End("not_recovered"))

-----------------------------------------------------------------------------
(* restoreBackupsInIsolation *)

Create(r) == isolated' = isolated \union {r} /\ created' = created \union {r}

(* A docker command that failed or timed out: it may have taken effect, and the *)
(* script records nothing.                                                      *)
CreateFails(r) ==
    /\ isolated' \in {isolated, isolated \union {r}} /\ UNCHANGED created
    /\ Throw("cleanup")

CreateNetwork ==
    /\ pc = "network"
    /\ \/ Create(Network) /\ Goto("volume")
       \/ CreateFails(Network)
    /\ UNCHANGED <<svc, active, data, interrupted, verified, witness, before, backup, previous>>

CreateVolume ==
    LET s == StoreSeq[store + 1] IN
    /\ pc = "volume"
    /\ \/ /\ Create(Volume(s))
          /\ IF store + 1 = Len(StoreSeq) THEN Goto("start")
             ELSE store' = store + 1 /\ UNCHANGED <<pc, failed, outcome>>
       \/ CreateFails(Volume(s))
    /\ UNCHANGED <<svc, active, data, interrupted, verified, witness, before, backup, previous>>

(* Start the target of a store and wait for it. *)
StartTarget ==
    LET s == StoreSeq[store + 1] IN
    /\ pc = "start"
    /\ \/ /\ Create(Container(s))
          /\ \/ pc' = "restore" /\ UNCHANGED <<store, failed, outcome>>
             \/ Throw("cleanup")
       \/ CreateFails(Container(s))
    /\ UNCHANGED <<svc, active, data, interrupted, verified, witness, before, backup, previous>>

(* Restore the backup of the store and compare the result with the witness. *)
Restore ==
    LET s == StoreSeq[store + 1] IN
    /\ pc = "restore"
    /\ \/ /\ \E v \in {backup[s], Damaged} : AssertEqualState(witness[s], v)
          /\ IF store + 1 = Len(StoreSeq) THEN Goto("cleanup")
             ELSE pc' = "start" /\ store' = store + 1 /\ UNCHANGED <<failed, outcome>>
       \/ Throw("cleanup")
    /\ Skip /\ UNCHANGED stack

(* A volume stays while a container holds it. *)
Held(kept) == {Volume(s) : s \in {s \in Stores : Container(s) \in kept}}

Clean_ContainersOnly(kept) == kept \intersect created \subseteq {Volume(s) : s \in Stores}

(* cleanupIsolatedResources: every rm of a recorded resource succeeded. *)
Clean(kept) == kept \intersect created = {}

(* Every recorded resource is removed or its rm fails. *)
Cleanup ==
    /\ pc = "cleanup"
    /\ \E kept \in SUBSET isolated :
          /\ isolated \ created \subseteq kept /\ Held(kept) \intersect isolated \subseteq kept
          /\ isolated' = kept
          /\ IF ~Clean(kept) THEN End("not_removed")
             ELSE IF failed THEN End("failed") ELSE Goto("stop_again")
    /\ Skip /\ UNCHANGED <<svc, active, data, interrupted>>

-----------------------------------------------------------------------------
(* rehearseRestart *)

StopAgain == StopServices("stop_again", "witness_before", "recover_restart")
CaptureBefore == CaptureWitness("witness_before", "restart", "recover_restart", before) /\ UNCHANGED witness

(* compose restart and up of the persistent services; data may be lost. *)
Restart ==
    /\ pc = "restart"
    /\ \E lost \in SUBSET Stores : data' = [s \in Stores |-> IF s \in lost THEN Damaged ELSE data[s]]
    /\ \/ UNCHANGED svc /\ Goto("witness_after")
       \/ /\ \E S \in SUBSET Stores : svc' = [s \in Services |-> IF s \in S THEN "stopped" ELSE svc[s]]
          /\ Throw("recover_restart")
    /\ Skip /\ UNCHANGED <<active, isolated, interrupted>>

CaptureAfter ==
    /\ pc = "witness_after"
    /\ \/ AssertEqualState(before, data) /\ Goto("forward")
       \/ Throw("recover_restart")
    /\ Skip /\ UNCHANGED stack

(* The roll forward of the try block; when it throws, the finally path tries again. *)
Forward == RollForward("forward", Goto("images"), Throw("recover_restart"))
RecoverRestart == RollForward("recover_restart", End("failed"), End("not_recovered"))

-----------------------------------------------------------------------------
(* rehearseRollbackAndReturn *)

(* The previous images are there; nothing was touched yet. *)
InspectImages ==
    /\ pc = "images"
    /\ Goto("rollback") \/ End("failed")
    /\ Skip /\ UNCHANGED stack

(* compose up of the applications on the previous revision. *)
Rollback ==
    /\ pc = "rollback"
    /\ \E S \in SUBSET Applications :
          /\ svc' = [s \in Services |-> IF s \in S THEN "previous" ELSE svc[s]]
          /\ Goto("check_previous") \/ Throw("recover_rollback")
    /\ Skip /\ UNCHANGED <<active, data, isolated, interrupted>>

CheckPrevious ==
    /\ pc = "check_previous"
    /\ \/ Runs(Applications, "previous", svc) /\ MayBeHealthy(svc) /\ previous' = TRUE /\ Goto("recover_rollback")
       \/ UNCHANGED previous /\ Throw("recover_rollback")
    /\ UNCHANGED <<stack, verified, witness, before, backup, created>>

AfterRollback == IF failed THEN End("failed") ELSE Goto("evidence")
RecoverRollback == RollForward("recover_rollback", AfterRollback, End("not_recovered"))

(* assertRedactedRecoveryEvidence and the exclusive create of the file. *)
WriteEvidence ==
    /\ pc = "evidence"
    /\ End("passed") \/ End("failed")
    /\ Skip /\ UNCHANGED stack

-----------------------------------------------------------------------------

Script ==
    \/ CheckPrerequisites \/ EnsureCurrentStack
    \/ Stop \/ Capture \/ Dump \/ Compare \/ RecoverBackup
    \/ CreateNetwork \/ CreateVolume \/ StartTarget \/ Restore \/ Cleanup
    \/ StopAgain \/ CaptureBefore \/ Restart \/ CaptureAfter \/ Forward \/ RecoverRestart
    \/ InspectImages \/ Rollback \/ CheckPrevious \/ RecoverRollback
    \/ WriteEvidence

Next == Script \/ Platform

Spec == Init /\ [][Next]_vars

(* The script is a running process and every docker command returns. *)
FairSpec == Spec /\ WF_vars(Script)

-----------------------------------------------------------------------------
(* Properties *)

(* A rehearsal that touched the stack ends with every labeled service on the    *)
(* current revision, or says that the current stack could not be recovered.     *)
RecoveredOrSaid ==
    verified /\ outcome \in {"passed", "failed", "not_removed"} => Runs(Services, "current", svc)

(* Passing evidence is earned: every backup restores the data of the one        *)
(* quiescent instant of its witness, the restart lost nothing, the previous     *)
(* revision ran, and no isolated resource is left.                              *)
EvidenceIsEarned ==
    outcome = "passed" =>
        /\ backup = witness /\ \A s \in Stores : witness[s] # Damaged /\ data[s] # Damaged
        /\ previous /\ isolated = {}

(* What a rehearsal leaves behind without saying that its cleanup was           *)
(* incomplete is at most the one network or volume whose failed creation had    *)
(* taken effect: never what the script has recorded, and never a container,     *)
(* whose recorded volume cannot be removed under it.                            *)
LeakIsOneCreation ==
    outcome \in {"passed", "failed", "not_recovered"} =>
        /\ isolated \subseteq {Network} \union {Volume(s) : s \in Stores}
        /\ isolated \intersect created = {}
        /\ \A r, t \in isolated : r = t
        /\ isolated # {} => outcome = "failed"

(* "The temporary containers, network, and volumes are removed after            *)
(* validation.  Cleanup failure makes the entire rehearsal fail"                *)
(* (docs/staging-recovery-rehearsal.md:55-56), with a message of its own.  A    *)
(* creation that failed after it had taken effect is not removed.               *)
IsRemovedOrSaid == outcome \in {"passed", "failed", "not_recovered"} => isolated = {}

(* Whatever fails, the stopped or rolled-back services come back or the script  *)
(* reports that they did not.                                                   *)
ServiceIsAway == verified /\ ~Runs(Services, "current", svc)
ServiceIsBack == Runs(Services, "current", svc) \/ outcome = "not_recovered"
ServiceReturns == ServiceIsAway ~> ServiceIsBack

(* The rehearsal interrupts no active agent run. *)
NoRunInterrupted == ~interrupted

=============================================================================
