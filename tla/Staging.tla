-------------------------------- MODULE Staging --------------------------------
(***************************************************************************)
(* The scripts an operator runs against a staging deployment.  Each is a   *)
(* process of its own that shares no state with the others while it runs,  *)
(* so `part' picks the script and the variables of the others rest.        *)
(***************************************************************************)
EXTENDS Naturals, Sequences, FiniteSets

CONSTANTS
    Own, Others, Costs, Target,                                       \* the provider scenario
    Commits, Tickets, RoleSeq, AttemptBound,                          \* the persistence bootstrap
    Agents, Route, MaxEvents, MemberBound, PollBound,                 \* the authenticated smoke
    Applications, Worker, StoreSeq, DataBound,                        \* the recovery rehearsal
    Operators, AppIds, AccessRoles, SecretSeq, ClientId, FailBound,   \* the identity bootstrap
    None, Unused

VARIABLES
    part, \* the script that runs
    pc, inventory, lease, before, ext, owned, deleted, leased, step, gates, budget,
    failed, result, cost,
    tag, images, volume, bucket, up, migrated, boot, smoke, bootFiles, smokeFiles,
    recovery, attempts,
    run, log, attachment, artifacts, conn, obs, seen, acts,
    phase, store, broken, outcome, verified, svc, active, data, witness, restarting,
    backup, isolated, created, previous, interrupted,
    group, apps, principals, credential, roles, template, immutable, secrets, keys, op, failures

Scenario == INSTANCE StagingScenario
Bootstrap == INSTANCE StagingEvidence WITH Revisions <- Commits
Smoke == INSTANCE SmokeRun
Recovery == INSTANCE RecoveryRehearsal WITH pc <- phase, failed <- broken, before <- restarting
Oidc == INSTANCE OidcBootstrap WITH Roles <- AccessRoles

ASSUME StagingAssumption ==
    /\ Scenario!StagingScenarioAssumption
    /\ Bootstrap!StagingEvidenceAssumption
    /\ Smoke!SmokeRunAssumption
    /\ Recovery!RehearsalAssumption
    /\ Oidc!OidcAssumption

scenario == <<pc, inventory, lease, before, ext, owned, deleted, leased, step, gates, budget,
              failed, result, cost>>
bootstrap == <<tag, images, volume, bucket, up, migrated, boot, smoke, bootFiles, smokeFiles,
               recovery, attempts>>
smokeRun == <<run, log, attachment, artifacts, conn, obs, seen, acts>>
rehearsal == <<phase, store, broken, outcome, verified, svc, active, data, witness, restarting,
               backup, isolated, created, previous, interrupted>>
oidc == <<group, apps, principals, credential, roles, template, immutable, secrets, keys, op,
          failures>>
vars == <<part, scenario, bootstrap, smokeRun, rehearsal, oidc>>

-----------------------------------------------------------------------------
(* A script that does not run has no state. *)

NoScenario ==
    /\ pc = Unused /\ inventory = Unused /\ lease = Unused /\ before = Unused /\ ext = Unused
    /\ owned = Unused /\ deleted = Unused /\ leased = Unused /\ step = Unused /\ gates = Unused
    /\ budget = Unused /\ failed = Unused /\ result = Unused /\ cost = Unused

NoBootstrap ==
    /\ tag = Unused /\ images = Unused /\ volume = Unused /\ bucket = Unused /\ up = Unused
    /\ migrated = Unused /\ boot = Unused /\ smoke = Unused /\ bootFiles = Unused
    /\ smokeFiles = Unused /\ recovery = Unused /\ attempts = Unused

NoSmoke ==
    /\ run = Unused /\ log = Unused /\ attachment = Unused /\ artifacts = Unused
    /\ conn = Unused /\ obs = Unused /\ seen = Unused /\ acts = Unused

NoRecovery ==
    /\ phase = Unused /\ store = Unused /\ broken = Unused /\ outcome = Unused
    /\ verified = Unused /\ svc = Unused /\ active = Unused /\ data = Unused /\ witness = Unused
    /\ restarting = Unused /\ backup = Unused /\ isolated = Unused /\ created = Unused
    /\ previous = Unused /\ interrupted = Unused

NoOidc ==
    /\ group = Unused /\ apps = Unused /\ principals = Unused /\ credential = Unused
    /\ roles = Unused /\ template = Unused /\ immutable = Unused /\ secrets = Unused
    /\ keys = Unused /\ op = Unused /\ failures = Unused

Init ==
    \/ part = "scenario" /\ Scenario!Init /\ NoBootstrap /\ NoSmoke /\ NoRecovery /\ NoOidc
    \/ part = "bootstrap" /\ Bootstrap!Init /\ NoScenario /\ NoSmoke /\ NoRecovery /\ NoOidc
    \/ part = "smoke" /\ Smoke!Init /\ NoScenario /\ NoBootstrap /\ NoRecovery /\ NoOidc
    \/ part = "recovery" /\ Recovery!Init /\ NoScenario /\ NoBootstrap /\ NoSmoke /\ NoOidc
    \/ part = "oidc" /\ Oidc!Init /\ NoScenario /\ NoBootstrap /\ NoSmoke /\ NoRecovery

Next ==
    \/ /\ part = "scenario" /\ Scenario!Next
       /\ UNCHANGED <<part, bootstrap, smokeRun, rehearsal, oidc>>
    \/ /\ part = "bootstrap" /\ Bootstrap!Next
       /\ UNCHANGED <<part, scenario, smokeRun, rehearsal, oidc>>
    \/ /\ part = "smoke" /\ Smoke!Next
       /\ UNCHANGED <<part, scenario, bootstrap, rehearsal, oidc>>
    \/ /\ part = "recovery" /\ Recovery!Next
       /\ UNCHANGED <<part, scenario, bootstrap, smokeRun, oidc>>
    \/ /\ part = "oidc" /\ Oidc!Next
       /\ UNCHANGED <<part, scenario, bootstrap, smokeRun, rehearsal>>

Spec == Init /\ [][Next]_vars

-----------------------------------------------------------------------------
(* Invariants *)

(* No script writes evidence of a success it has not had: the provider proof      *)
(* names a cost and an inventory that are true, the bootstrap ran on the revision *)
(* it names, the smoke followed the log of a run that completed without a gap up  *)
(* to where it stopped, and the rehearsal restored what it says it restored.      *)
EvidenceIsEarned ==
    /\ part = "scenario" => Scenario!TypeOK /\ Scenario!EvidenceIsTrue
    /\ part = "bootstrap" => Bootstrap!TypeOK /\ Bootstrap!BootstrapIsEarned
    /\ part = "smoke" => Smoke!TypeOK /\ Smoke!PassIsEarned /\ Smoke!ReplayHasNoGap
    /\ part = "recovery" => Recovery!TypeOK /\ Recovery!EvidenceIsEarned

(* However a script fails, it leaves behind what can be used or says what it left: *)
(* services run again or the outcome says they do not, isolated resources are      *)
(* removed or the outcome says they are not, except one whose creation failed      *)
(* after it had taken effect, services run on the volumes of this deployment, and  *)
(* a client id that is published belongs to an identity that can sign in.          *)
FailureIsSaid ==
    /\ part = "recovery" => Recovery!RecoveredOrSaid /\ Recovery!LeakIsOneCreation
    /\ part = "bootstrap" => Bootstrap!StartsOnOwnVolumes
    /\ part = "oidc" => Oidc!TypeOK /\ Oidc!ClientIsUsable

(* Action property *)

(* No script destroys, replaces or takes over what is not its own, and an identity *)
(* bootstrap that is repeated when everything is in place changes nothing.         *)
ForeignIsSafe ==
    [][ /\ part = "scenario" => Scenario!ForeignIsSafe
        /\ part = "bootstrap" => Bootstrap!VolumesAreKept
        /\ part = "oidc" => Oidc!NoTakeover /\ Oidc!RepeatChangesNothing ]_vars
=============================================================================
