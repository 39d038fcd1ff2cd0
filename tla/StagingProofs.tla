----------------------------- MODULE StagingProofs -----------------------------
(***************************************************************************)
(* The scripts of a staging deployment, for any projects, revisions,       *)
(* stores, operators, applications, roles and secrets: evidence is earned, *)
(* a failure says what it leaves behind, and what is foreign is safe,      *)
(* whichever commands fail and whoever else is at work.                    *)
(***************************************************************************)
EXTENDS Staging, FiniteSetTheorems, SequenceTheorems, TLAPS

-----------------------------------------------------------------------------
(* The provider scenario *)

\* What the scenario owns is the project it has created, which was not there before.
OwnsOnlyItsOwn ==
    /\ pc \in {"budget", "before", "provision"} => ~ owned
    /\ owned => ext = Own /\ ext \notin before
    /\ pc = "fallback" => owned

\* A gate that has passed is still true of the provider ...
GatesAreTrue ==
    /\ gates["provision"] = "PASSED" => ext = Own
    /\ gates["inventory_after"] = "PASSED" => 
         pc \in {"report", "over"} /\ (ext = Own => Own \notin inventory)

\* ... and a lease that is still there is revoked, or the scenario has failed.
LeaseIsRevoked == lease => failed \/ (leased /\ pc \in {"migrate", "revoke"})

StepsAreLeft ==
    /\ pc \in {"budget", "before", "provision", "health", "lease"} => step = 0
    /\ pc = "migrate" => step < 4

ResultIsTrue ==
    /\ pc # "over" => result = "none"
    /\ result \in {"AWAITING_COST", "PASSED"} =>
         /\ ~ failed /\ \A g \in Scenario!LifecycleGates : gates[g] = "PASSED"
    /\ result = "PASSED" => cost <= budget /\ cost <= Target

ScenarioInv ==
    /\ Scenario!TypeOK /\ OwnsOnlyItsOwn /\ GatesAreTrue /\ LeaseIsRevoked /\ StepsAreLeft
    /\ ResultIsTrue

LEMMA ScenarioInit == Scenario!StagingScenarioAssumption /\ Scenario!Init => ScenarioInv
<1> SUFFICES ASSUME Scenario!StagingScenarioAssumption, Scenario!Init PROVE ScenarioInv
  OBVIOUS
<1>1. Scenario!TypeOK
  <2>1. gates \in [Scenario!Gates -> Scenario!GateStatuses]
    BY DEF Scenario!Init, Scenario!GateStatuses
  <2>2. {lease, owned, deleted, leased, failed} \subseteq BOOLEAN
    BY DEF Scenario!Init
  <2>3. QED
    BY <2>1, <2>2 DEF Scenario!Init, Scenario!TypeOK, Scenario!Projects
<1>2. OwnsOnlyItsOwn /\ LeaseIsRevoked /\ StepsAreLeft /\ ResultIsTrue
  BY DEF Scenario!Init, OwnsOnlyItsOwn, LeaseIsRevoked, StepsAreLeft, ResultIsTrue
<1>3. GatesAreTrue
  BY DEF Scenario!Init, GatesAreTrue, Scenario!Gates
<1>4. QED
  BY <1>1, <1>2, <1>3 DEF ScenarioInv

\* A gate that is set is set, and the others stay.
LEMMA SetGateSets ==
    ASSUME Scenario!TypeOK, NEW g \in Scenario!Gates, NEW s \in Scenario!GateStatuses, Scenario!SetGate(g, s)
    PROVE  /\ gates' \in [Scenario!Gates -> Scenario!GateStatuses]
           /\ gates'[g] = s
           /\ \A h \in Scenario!Gates : h # g => gates'[h] = gates[h]
BY DEF Scenario!TypeOK, Scenario!SetGate

LEMMA ScenarioStep ==
    ASSUME Scenario!StagingScenarioAssumption, ScenarioInv, [Scenario!Next]_(Scenario!vars)
    PROVE  ScenarioInv'
<1> USE SetGateSets DEF Scenario!StagingScenarioAssumption, ScenarioInv, Scenario!TypeOK, OwnsOnlyItsOwn, GatesAreTrue,
        LeaseIsRevoked, StepsAreLeft, ResultIsTrue, Scenario!Projects, Scenario!LifecycleGates, Scenario!Gates,
        Scenario!GateStatuses, Scenario!Throw
<1>1. CASE Scenario!CheckBudget
  BY <1>1 DEF Scenario!CheckBudget
<1>2. CASE Scenario!InventoryBefore
  BY <1>2 DEF Scenario!InventoryBefore
<1>3. CASE Scenario!Provision
  BY <1>3 DEF Scenario!Provision, Scenario!IsOwned
<1>4. CASE Scenario!ProvisionFails
  BY <1>4 DEF Scenario!ProvisionFails
<1>5. CASE Scenario!PollHealth
  BY <1>5 DEF Scenario!PollHealth
<1>6. CASE Scenario!TakeLease
  <2>1. CASE leased' = TRUE /\ pc' = "migrate"
    BY <1>6, <2>1 DEF Scenario!TakeLease
  <2>2. CASE failed' = TRUE /\ pc' = "revoke" /\ leased' = leased
    <3>1. lease' \in BOOLEAN /\ {lease, owned, deleted, leased, failed}' \subseteq BOOLEAN
      BY <1>6, <2>2 DEF Scenario!TakeLease
    <3>2. QED
      BY <1>6, <2>2, <3>1 DEF Scenario!TakeLease
  <2>3. QED
    BY <1>6, <2>1, <2>2 DEF Scenario!TakeLease
<1>7. CASE Scenario!MigrationStep
  <2>1. /\ Scenario!Steps[step + 1] \in {"install", "migrate", "seed", "connectivity"}
        /\ step' = step + 1 /\ step \in 0 .. 3 /\ pc = "migrate"
    BY <1>7 DEF Scenario!MigrationStep, Scenario!Steps
  <2>2. PICK g \in {"install", "migrate", "seed", "connectivity"} : g = Scenario!Steps[step + 1]
    BY <2>1
  <2>3. \/ /\ Scenario!SetGate(g, "PASSED") /\ pc' = IF step + 1 = 4 THEN "revoke" ELSE "migrate"
           /\ UNCHANGED failed
        \/ Scenario!SetGate(g, "FAILED") /\ failed' = TRUE /\ pc' = "revoke"
    BY <1>7, <2>2 DEF Scenario!MigrationStep
  <2>4. /\ gates' \in [Scenario!Gates -> Scenario!GateStatuses]
        /\ gates'["provision"] = gates["provision"]
        /\ gates'["inventory_after"] = gates["inventory_after"]
    BY <2>3
  <2>5. Scenario!TypeOK'
    <3>1. /\ UNCHANGED <<inventory, lease, before, ext, owned, deleted, leased, budget, result, cost>>
          /\ step' \in 0 .. 4 /\ pc' \in {"revoke", "migrate"} /\ (failed' = TRUE \/ failed' = failed)
      BY <1>7, <2>1, <2>3 DEF Scenario!MigrationStep
    <3>2. {lease, owned, deleted, leased, failed}' \subseteq BOOLEAN
      BY <3>1
    <3>3. QED
      BY <2>4, <3>1, <3>2
  <2>6. (OwnsOnlyItsOwn /\ GatesAreTrue /\ LeaseIsRevoked /\ StepsAreLeft /\ ResultIsTrue)'
    BY <1>7, <2>1, <2>3, <2>4 DEF Scenario!MigrationStep
  <2>7. QED
    BY <2>5, <2>6
<1>8. CASE Scenario!RevokeLease
  BY <1>8, ZenonT(60) DEF Scenario!RevokeLease
<1>9. CASE Scenario!Cleanup
  BY <1>9 DEF Scenario!Cleanup
<1>10. CASE Scenario!CleanupFails
  BY <1>10 DEF Scenario!CleanupFails
<1>11. CASE Scenario!Fallback
  BY <1>11 DEF Scenario!Fallback, Scenario!evidence
<1>12. CASE Scenario!InventoryAfter
  BY <1>12 DEF Scenario!InventoryAfter, Scenario!Restored
<1>13. CASE Scenario!Report
  BY <1>13 DEF Scenario!Report
<1>14. CASE Scenario!FinalizeCost
  BY <1>14 DEF Scenario!FinalizeCost, Scenario!WithinBudget, Scenario!flow
<1>15. CASE Scenario!OthersChange
  BY <1>15 DEF Scenario!OthersChange, Scenario!flow, Scenario!evidence
<1>16. CASE UNCHANGED Scenario!vars
  BY <1>16 DEF Scenario!vars, Scenario!flow, Scenario!evidence
<1>17. QED
  BY <1>1, <1>2, <1>3, <1>4, <1>5, <1>6, <1>7, <1>8, <1>9, <1>10, <1>11, <1>12, <1>13, <1>14,
     <1>15, <1>16 DEF Scenario!Next

LEMMA ScenarioHolds ==
    ASSUME Scenario!StagingScenarioAssumption
    PROVE  Scenario!Spec => []ScenarioInv
<1>1. Scenario!Init => ScenarioInv
  BY ScenarioInit
<1>2. ScenarioInv /\ [Scenario!Next]_(Scenario!vars) => ScenarioInv'
  BY ScenarioStep
<1>3. QED
  BY <1>1, <1>2, PTL DEF Scenario!Spec

LEMMA ScenarioImplies ==
    ASSUME ScenarioInv
    PROVE  Scenario!TypeOK /\ Scenario!EvidenceIsTrue
<1>1. ASSUME result \in {"AWAITING_COST", "PASSED"}
      PROVE  Own \notin inventory /\ ~ lease
  <2>1. {"provision", "inventory_after"} \subseteq Scenario!LifecycleGates
    BY DEF Scenario!LifecycleGates, Scenario!Gates
  <2>2. /\ pc = "over" /\ ~ failed /\ gates["provision"] = "PASSED"
        /\ gates["inventory_after"] = "PASSED"
    BY <1>1, <2>1 DEF ScenarioInv, ResultIsTrue
  <2>3. QED
    BY <2>2 DEF ScenarioInv, GatesAreTrue, LeaseIsRevoked
<1>2. QED
  BY <1>1 DEF ScenarioInv, ResultIsTrue, Scenario!EvidenceIsTrue

\* What a step takes from the provider is the project the scenario has created.
LEMMA ScenarioTakesItsOwn ==
    ASSUME ScenarioInv
    PROVE  Scenario!ForeignIsSafe
<1>1. ASSUME Scenario!Cleanup \/ Scenario!CleanupFails \/ Scenario!Fallback
      PROVE  inventory \ inventory' \subseteq Scenario!Projects \ before
  <2>1. inventory' = inventory \/ (owned /\ inventory' = inventory \ {ext})
    BY <1>1 DEF Scenario!Cleanup, Scenario!CleanupFails, Scenario!Fallback, ScenarioInv,
       OwnsOnlyItsOwn
  <2>2. QED
    BY <2>1 DEF ScenarioInv, OwnsOnlyItsOwn, Scenario!TypeOK
<1>2. QED
  BY <1>1 DEF Scenario!ForeignIsSafe

\* Evidence that is not FAILED is of a lifecycle that left nothing behind, whichever calls of
\* the scenario failed and whatever other projects came and went, and passed evidence of one
\* that cost no more than was approved.
THEOREM EvidenceIsTrueHolds ==
    ASSUME Scenario!StagingScenarioAssumption
    PROVE  Scenario!Spec => []Scenario!EvidenceIsTrue
<1>1. ScenarioInv => Scenario!EvidenceIsTrue
  BY ScenarioImplies
<1>2. QED
  BY <1>1, ScenarioHolds, PTL

\* The cleanups of the scenario, the emergency one too, destroy no project that was there
\* before it.
THEOREM ScenarioForeignIsSafeHolds ==
    ASSUME Scenario!StagingScenarioAssumption
    PROVE  Scenario!Spec => [][Scenario!ForeignIsSafe]_(Scenario!vars)
<1>1. ScenarioInv /\ [Scenario!Next]_(Scenario!vars) => [Scenario!ForeignIsSafe]_(Scenario!vars)
  BY ScenarioTakesItsOwn
<1>2. QED
  BY <1>1, ScenarioHolds, PTL DEF Scenario!Spec

-----------------------------------------------------------------------------
(* The persistence bootstrap *)

\* The volumes the loop has been over are the project's own, and with the last one it ends.
VolumesEnsured ==
    /\ boot.pc = "volume" =>
         boot.done < Len(RoleSeq) /\ \A i \in 1 .. boot.done : volume[RoleSeq[i]] = "owned"
    /\ boot.pc \notin {"idle", "volume"} => \A role \in Bootstrap!Roles : volume[role] = "owned"

\* What an attempt has behind it when it comes to a step.
StepsAreEarned ==
    /\ boot.pc \in {"migrate", "status", "services", "evidence"} => bucket
    /\ boot.pc \in {"services", "evidence"} => boot.revision \in migrated
    /\ boot.pc # "idle" => boot.revision \in Commits
    /\ smoke.pc = "run" => smoke.revision \in Commits

BootstrapInv ==
    /\ Bootstrap!TypeOK /\ VolumesEnsured /\ StepsAreEarned
    /\ Bootstrap!BootstrapIsEarned /\ Bootstrap!StartsOnOwnVolumes

BootState == [pc : Bootstrap!BootSteps, ticket : Tickets, revision : Commits \union {None},
              done : 0 .. Len(RoleSeq)]
SmokeState == [pc : {"idle", "run"}, ticket : Tickets, revision : Commits \union {None},
               tested : SUBSET Commits]

LEMMA IdleBootstrap ==
    ASSUME Bootstrap!StagingEvidenceAssumption
    PROVE  Bootstrap!Idle \in BootState /\ Bootstrap!Idle.pc = "idle"
<1>1. (CHOOSE t \in Tickets : TRUE) \in Tickets
  BY DEF Bootstrap!StagingEvidenceAssumption
<1>2. QED
  BY <1>1 DEF Bootstrap!StagingEvidenceAssumption, Bootstrap!Idle, BootState,
     Bootstrap!BootSteps

LEMMA BootstrapInit == Bootstrap!StagingEvidenceAssumption /\ Bootstrap!Init => BootstrapInv
<1> SUFFICES ASSUME Bootstrap!StagingEvidenceAssumption, Bootstrap!Init PROVE BootstrapInv
  OBVIOUS
<1>1. (CHOOSE t \in Tickets : TRUE) \in Tickets
  BY DEF Bootstrap!StagingEvidenceAssumption
<1>2. boot \in BootState /\ boot.pc = "idle"
  BY IdleBootstrap DEF Bootstrap!Init
<1>3. smoke \in SmokeState
  BY <1>1 DEF Bootstrap!Init, SmokeState
<1>4. volume \in [Bootstrap!Roles -> {"absent", "owned", "foreign"}]
  BY DEF Bootstrap!Init
<1>5. Bootstrap!TypeOK
  <2>1. /\ boot \in BootState /\ smoke \in SmokeState
        /\ bootFiles \subseteq Bootstrap!BootEvidence
        /\ smokeFiles \subseteq Bootstrap!SmokeEvidence /\ attempts \in 0 .. AttemptBound
    BY <1>2, <1>3 DEF Bootstrap!Init, Bootstrap!StagingEvidenceAssumption
  <2>2. QED
    BY <1>4, <2>1 DEF Bootstrap!Init, Bootstrap!TypeOK, BootState, SmokeState
<1>6. QED
  BY <1>2, <1>3, <1>5 DEF BootstrapInv, VolumesEnsured, StepsAreEarned,
     Bootstrap!BootstrapIsEarned,
     Bootstrap!StartsOnOwnVolumes, Bootstrap!Init

LEMMA RolesAreNumbered ==
    ASSUME NEW i \in 1 .. Len(RoleSeq)
    PROVE  RoleSeq[i] \in Bootstrap!Roles
BY DEF Bootstrap!Roles

LEMMA EnsureVolumeStep ==
    ASSUME Bootstrap!StagingEvidenceAssumption, BootstrapInv, Bootstrap!EnsureVolume
    PROVE  BootstrapInv'
<1> DEFINE r == RoleSeq[boot.done + 1]
           st == Bootstrap!Ensured(volume[r])
<1>1. /\ boot \in BootState /\ boot.pc = "volume" /\ boot.done \in 0 .. Len(RoleSeq) - 1
      /\ Len(RoleSeq) \in Nat \ {0}
  BY DEF BootstrapInv, Bootstrap!TypeOK, VolumesEnsured, Bootstrap!EnsureVolume, BootState,
     Bootstrap!StagingEvidenceAssumption
<1>2. r \in Bootstrap!Roles
  BY <1>1, RolesAreNumbered
<1>3. /\ volume \in [Bootstrap!Roles -> {"absent", "owned", "foreign"}]
      /\ st \in {"owned", "foreign"} /\ (volume[r] = "owned" => st = "owned")
  BY <1>2 DEF BootstrapInv, Bootstrap!TypeOK, Bootstrap!Ensured
<1>4. volume' = [volume EXCEPT ![r] = st]
  BY DEF Bootstrap!EnsureVolume
<1>5. /\ volume' \in [Bootstrap!Roles -> {"absent", "owned", "foreign"}]
      /\ \A q \in Bootstrap!Roles : volume[q] = "owned" => volume'[q] = "owned"
      /\ volume'[r] = st
  BY <1>2, <1>3, <1>4
<1>6. boot' = IF st # "owned" THEN Bootstrap!Idle
              ELSE IF boot.done + 1 = Len(RoleSeq) THEN [boot EXCEPT !.pc = "up"]
              ELSE [boot EXCEPT !.done = boot.done + 1]
  BY DEF Bootstrap!EnsureVolume, Bootstrap!MismatchFree
<1>7. boot' \in BootState
  BY <1>1, <1>6, IdleBootstrap DEF BootState, Bootstrap!BootSteps
<1>8. UNCHANGED <<tag, images, bucket, up, migrated, smoke, bootFiles, smokeFiles, recovery, attempts>>
  BY DEF Bootstrap!EnsureVolume
<1>9. Bootstrap!TypeOK'
  BY <1>5, <1>7, <1>8 DEF BootstrapInv, Bootstrap!TypeOK, BootState
<1>10. VolumesEnsured'
  <2>1. \A i \in 1 .. boot.done : volume'[RoleSeq[i]] = "owned"
    <3>1. \A i \in 1 .. boot.done : volume[RoleSeq[i]] = "owned"
      BY <1>1 DEF BootstrapInv, VolumesEnsured
    <3>2. \A i \in 1 .. boot.done : i \in 1 .. Len(RoleSeq)
      BY <1>1
    <3> HIDE DEF r, st
    <3>3. QED
      BY <1>5, <3>1, <3>2, RolesAreNumbered
  <2>2. CASE st # "owned"
    BY <1>6, <2>2, IdleBootstrap DEF VolumesEnsured
  <2>3. CASE st = "owned" /\ boot.done + 1 = Len(RoleSeq)
    <3>1. \A i \in 1 .. Len(RoleSeq) : volume'[RoleSeq[i]] = "owned"
      BY <1>1, <1>5, <2>1, <2>3
    <3>2. boot'.pc = "up"
      BY <1>1, <1>6, <2>3 DEF BootState
    <3>3. QED
      BY <3>1, <3>2 DEF VolumesEnsured, Bootstrap!Roles
  <2>4. CASE st = "owned" /\ boot.done + 1 # Len(RoleSeq)
    <3>1. boot'.pc = "volume" /\ boot'.done = boot.done + 1
      BY <1>1, <1>6, <2>4 DEF BootState
    <3>2. \A i \in 1 .. boot.done + 1 : volume'[RoleSeq[i]] = "owned"
      BY <1>1, <1>5, <2>1, <2>4
    <3>3. QED
      BY <1>1, <2>4, <3>1, <3>2 DEF VolumesEnsured
  <2>5. QED
    BY <2>2, <2>3, <2>4
<1>11. StepsAreEarned'
  <2>1. boot'.pc \in {"idle", "up", "volume"} /\ (boot'.pc = "idle" \/ boot'.revision = boot.revision)
    BY <1>1, <1>6, IdleBootstrap DEF BootState
  <2>2. QED
    BY <1>1, <1>8, <2>1 DEF StepsAreEarned, BootstrapInv
<1>12. (Bootstrap!BootstrapIsEarned /\ Bootstrap!StartsOnOwnVolumes)'
  BY <1>5, <1>8 DEF BootstrapInv, Bootstrap!BootstrapIsEarned, Bootstrap!StartsOnOwnVolumes
<1>13. QED
  BY <1>9, <1>10, <1>11, <1>12 DEF BootstrapInv

\* The other steps of the script: the volumes stay.
LEMMA BootstrapScriptStep ==
    ASSUME Bootstrap!StagingEvidenceAssumption, BootstrapInv,
           \/ Bootstrap!StartServices \/ Bootstrap!InitializeBucket \/ Bootstrap!Migrate
           \/ Bootstrap!ConfirmMigrations \/ Bootstrap!ConfirmServices
           \/ Bootstrap!WriteBootstrapEvidence \/ Bootstrap!BootstrapFails
    PROVE  BootstrapInv'
<1>1. boot \in BootState /\ boot.pc # "idle" /\ (boot.pc = "volume" => Bootstrap!BootstrapFails)
  BY DEF BootstrapInv, Bootstrap!TypeOK, BootState, Bootstrap!StartServices,
     Bootstrap!InitializeBucket,
     Bootstrap!Migrate, Bootstrap!ConfirmMigrations, Bootstrap!ConfirmServices,
     Bootstrap!WriteBootstrapEvidence, Bootstrap!BootstrapFails
<1>2. \A next \in Bootstrap!BootSteps :
         /\ [boot EXCEPT !.pc = next] \in BootState /\ [boot EXCEPT !.pc = next].pc = next
         /\ [boot EXCEPT !.pc = next].revision = boot.revision
  BY <1>1 DEF BootState
<1> USE IdleBootstrap, <1>1, <1>2 DEF BootstrapInv, Bootstrap!TypeOK, VolumesEnsured, StepsAreEarned,
        Bootstrap!BootstrapIsEarned, Bootstrap!StartsOnOwnVolumes, BootState, Bootstrap!BootSteps, Bootstrap!host
<1>3. CASE Bootstrap!StartServices
  BY <1>3 DEF Bootstrap!StartServices
<1>4. CASE Bootstrap!InitializeBucket
  BY <1>4 DEF Bootstrap!InitializeBucket
<1>5. CASE Bootstrap!Migrate
  BY <1>5 DEF Bootstrap!Migrate, Bootstrap!Exit
<1>6. CASE Bootstrap!ConfirmMigrations
  BY <1>6 DEF Bootstrap!ConfirmMigrations, Bootstrap!Exit, Bootstrap!Complete
<1>7. CASE Bootstrap!ConfirmServices
  BY <1>7 DEF Bootstrap!ConfirmServices, Bootstrap!Exit
<1>8. CASE Bootstrap!WriteBootstrapEvidence
  BY <1>8 DEF Bootstrap!WriteBootstrapEvidence, Bootstrap!BootEvidence
<1>9. CASE Bootstrap!BootstrapFails
  BY <1>9 DEF Bootstrap!BootstrapFails
<1>10. QED
  BY <1>3, <1>4, <1>5, <1>6, <1>7, <1>8, <1>9

\* The operator, the smoke and the start of the recovery rehearsal.
LEMMA BesideTheBootstrapStep ==
    ASSUME Bootstrap!StagingEvidenceAssumption, BootstrapInv,
           \/ \E r \in Commits : Bootstrap!Checkout(r)
           \/ Bootstrap!Rollout \/ Bootstrap!ServiceGoesDown
           \/ \E role \in Bootstrap!Roles : Bootstrap!RemoveForeignVolume(role)
           \/ \E t \in Tickets :
                 \/ Bootstrap!StartBootstrap(t) \/ Bootstrap!StartSmoke(t)
                 \/ \E b \in bootFiles, s \in smokeFiles : Bootstrap!StartRecovery(b, s, t)
           \/ Bootstrap!SmokePasses \/ Bootstrap!SmokeFails
    PROVE  BootstrapInv'
<1>1. boot \in BootState /\ smoke \in SmokeState
  BY DEF BootstrapInv, Bootstrap!TypeOK, BootState, SmokeState
<1> USE <1>1 DEF BootstrapInv, VolumesEnsured, StepsAreEarned, Bootstrap!BootstrapIsEarned,
        Bootstrap!StartsOnOwnVolumes, Bootstrap!host
<1>2. ASSUME NEW r \in Commits, Bootstrap!Checkout(r) PROVE BootstrapInv'
  BY <1>2 DEF Bootstrap!Checkout, Bootstrap!TypeOK
<1>3. CASE Bootstrap!Rollout
  <2>1. smoke' \in SmokeState
    BY <1>3 DEF Bootstrap!Rollout, SmokeState, Bootstrap!TypeOK
  <2>2. QED
    BY <1>3, <2>1 DEF Bootstrap!Rollout, Bootstrap!TypeOK, SmokeState
<1>4. CASE Bootstrap!ServiceGoesDown
  BY <1>4 DEF Bootstrap!ServiceGoesDown, Bootstrap!TypeOK
<1>5. ASSUME NEW role \in Bootstrap!Roles, Bootstrap!RemoveForeignVolume(role)
      PROVE  BootstrapInv'
  <2>1. /\ volume' \in [Bootstrap!Roles -> {"absent", "owned", "foreign"}]
        /\ \A q \in Bootstrap!Roles : volume[q] = "owned" => volume'[q] = "owned"
    BY <1>5 DEF Bootstrap!RemoveForeignVolume, Bootstrap!TypeOK
  <2>2. QED
    BY <1>5, <2>1 DEF Bootstrap!RemoveForeignVolume, Bootstrap!TypeOK
<1>6. ASSUME NEW t \in Tickets, Bootstrap!StartBootstrap(t) PROVE BootstrapInv'
  <2>1. /\ boot' \in BootState /\ boot'.pc = "volume" /\ boot'.done = 0
        /\ boot'.revision \in Commits
    BY <1>6 DEF Bootstrap!StartBootstrap, BootState, Bootstrap!BootSteps, Bootstrap!TypeOK,
       Bootstrap!StagingEvidenceAssumption
  <2>2. QED
    BY <1>6, <2>1 DEF Bootstrap!StartBootstrap, Bootstrap!Attempt, Bootstrap!TypeOK, BootState,
       Bootstrap!StagingEvidenceAssumption
<1>7. ASSUME NEW t \in Tickets, Bootstrap!StartSmoke(t) PROVE BootstrapInv'
  <2>1. smoke' \in SmokeState
    BY <1>7 DEF Bootstrap!StartSmoke, SmokeState, Bootstrap!TypeOK
  <2>2. QED
    BY <1>7, <2>1 DEF Bootstrap!StartSmoke, Bootstrap!Attempt, Bootstrap!TypeOK, SmokeState,
       Bootstrap!StagingEvidenceAssumption
<1>8. ASSUME NEW t \in Tickets, NEW b \in bootFiles, NEW s \in smokeFiles, Bootstrap!StartRecovery(b, s, t)
      PROVE  BootstrapInv'
  BY <1>8 DEF Bootstrap!StartRecovery, Bootstrap!Attempt, Bootstrap!TypeOK,
     Bootstrap!StagingEvidenceAssumption
<1>9. CASE Bootstrap!SmokePasses
  <2>1. smoke' \in SmokeState /\ smoke'.pc = "idle"
    BY <1>9 DEF Bootstrap!SmokePasses, SmokeState
  <2>2. smokeFiles' \subseteq Bootstrap!SmokeEvidence
    BY <1>9 DEF Bootstrap!SmokePasses, Bootstrap!SmokeEvidence, Bootstrap!TypeOK, SmokeState
  <2>3. QED
    BY <1>9, <2>1, <2>2 DEF Bootstrap!SmokePasses, Bootstrap!TypeOK, SmokeState
<1>10. CASE Bootstrap!SmokeFails
  <2>1. smoke' \in SmokeState
    BY <1>10 DEF Bootstrap!SmokeFails, SmokeState
  <2>2. QED
    BY <1>10, <2>1 DEF Bootstrap!SmokeFails, Bootstrap!TypeOK, SmokeState
<1>11. QED
  BY <1>2, <1>3, <1>4, <1>5, <1>6, <1>7, <1>8, <1>9, <1>10

LEMMA BootstrapStep ==
    ASSUME Bootstrap!StagingEvidenceAssumption, BootstrapInv, [Bootstrap!Next]_(Bootstrap!vars)
    PROVE  BootstrapInv'
<1>1. CASE UNCHANGED Bootstrap!vars
  BY <1>1 DEF Bootstrap!vars, Bootstrap!host, BootstrapInv, Bootstrap!TypeOK, VolumesEnsured,
     StepsAreEarned,
     Bootstrap!BootstrapIsEarned, Bootstrap!StartsOnOwnVolumes
<1>2. CASE Bootstrap!Next
  BY <1>2, EnsureVolumeStep, BootstrapScriptStep, BesideTheBootstrapStep DEF Bootstrap!Next,
     Bootstrap!BootstrapStep
<1>3. QED
  BY <1>1, <1>2

LEMMA BootstrapHolds ==
    ASSUME Bootstrap!StagingEvidenceAssumption
    PROVE  Bootstrap!Spec => []BootstrapInv
<1>1. Bootstrap!Init => BootstrapInv
  BY BootstrapInit
<1>2. BootstrapInv /\ [Bootstrap!Next]_(Bootstrap!vars) => BootstrapInv'
  BY BootstrapStep
<1>3. QED
  BY <1>1, <1>2, PTL DEF Bootstrap!Spec

\* A volume that exists stays what it is while the script runs.
LEMMA BootstrapKeepsVolumes ==
    ASSUME Bootstrap!StagingEvidenceAssumption, BootstrapInv, [Bootstrap!Next]_(Bootstrap!vars)
    PROVE  Bootstrap!VolumesAreKept
<1>1. CASE Bootstrap!EnsureVolume
  <2>1. boot.done \in 0 .. Len(RoleSeq) - 1 /\ Len(RoleSeq) \in Nat
    BY <1>1 DEF BootstrapInv, Bootstrap!TypeOK, VolumesEnsured, Bootstrap!EnsureVolume,
       Bootstrap!StagingEvidenceAssumption
  <2>2. RoleSeq[boot.done + 1] \in Bootstrap!Roles
    BY <2>1, RolesAreNumbered
  <2>3. QED
    BY <1>1, <2>2 DEF BootstrapInv, Bootstrap!TypeOK, Bootstrap!EnsureVolume, Bootstrap!Ensured,
       Bootstrap!VolumesAreKept
<1>2. CASE ~ Bootstrap!EnsureVolume
  <2>1. boot.pc # "idle" => volume' = volume
    BY <1>2 DEF Bootstrap!Next, Bootstrap!BootstrapStep, Bootstrap!vars, Bootstrap!host,
       Bootstrap!Checkout,
       Bootstrap!Rollout, Bootstrap!ServiceGoesDown, Bootstrap!RemoveForeignVolume, Bootstrap!StartBootstrap,
       Bootstrap!StartSmoke, Bootstrap!StartRecovery, Bootstrap!StartServices, Bootstrap!InitializeBucket,
       Bootstrap!Migrate, Bootstrap!ConfirmMigrations, Bootstrap!ConfirmServices,
       Bootstrap!WriteBootstrapEvidence, Bootstrap!BootstrapFails, Bootstrap!SmokePasses, Bootstrap!SmokeFails
  <2>2. QED
    BY <2>1 DEF Bootstrap!VolumesAreKept
<1>3. QED
  BY <1>1, <1>2

\* Bootstrap evidence is earned across attempts that failed halfway and operators who move
\* the checkout: the volumes are the project's, the bucket exists, and the database has the
\* migrations of the revision the evidence names.
THEOREM BootstrapIsEarnedHolds ==
    ASSUME Bootstrap!StagingEvidenceAssumption
    PROVE  Bootstrap!Spec => []Bootstrap!BootstrapIsEarned
<1>1. BootstrapInv => Bootstrap!BootstrapIsEarned
  BY DEF BootstrapInv
<1>2. QED
  BY <1>1, BootstrapHolds, PTL

\* The persistent services run on volumes of this project alone.
THEOREM StartsOnOwnVolumesHolds ==
    ASSUME Bootstrap!StagingEvidenceAssumption
    PROVE  Bootstrap!Spec => []Bootstrap!StartsOnOwnVolumes
<1>1. BootstrapInv => Bootstrap!StartsOnOwnVolumes
  BY DEF BootstrapInv
<1>2. QED
  BY <1>1, BootstrapHolds, PTL

\* The script takes over or replaces no volume that exists.
THEOREM VolumesAreKeptHolds ==
    ASSUME Bootstrap!StagingEvidenceAssumption
    PROVE  Bootstrap!Spec => [][Bootstrap!VolumesAreKept]_(Bootstrap!vars)
<1>1. BootstrapInv /\ [Bootstrap!Next]_(Bootstrap!vars) => [Bootstrap!VolumesAreKept]_(Bootstrap!vars)
  BY BootstrapKeepsVolumes
<1>2. QED
  BY <1>1, BootstrapHolds, PTL DEF Bootstrap!Spec

-----------------------------------------------------------------------------
(* The recovery rehearsal *)

BackupSteps == {"stop", "witness", "dump", "compare", "recover_backup"}
RestoreSteps == {"network", "volume", "start", "restore", "cleanup"}
RestartSteps == {"stop_again", "witness_before", "restart", "witness_after", "forward", "recover_restart"}
RollbackSteps == {"images", "rollback", "check_previous", "recover_rollback", "evidence"}

\* Where the script is says how it has gone so far: it has an outcome once it has ended, the
\* loops over the stores are inside their bounds, and a step after a failure is a recovery.
PhaseInv ==
    /\ phase # "ended" => outcome = "none"
    /\ phase \in {"preflight", "ensure"} => ~ verified
    /\ phase \in {"dump", "volume", "start", "restore"} => store < Len(StoreSeq)
    /\ broken => phase \in {"recover_backup", "cleanup", "recover_restart", "recover_rollback", "ended"}
    /\ phase = "recover_restart" => broken
    /\ outcome = "passed" => ~ broken

\* The stack is whole wherever the script may end without a recovery.
StackInv ==
    /\ \A s \in Recovery!Stores : svc[s] \in {"current", "stopped"}
    /\ phase \in {"stop", "images", "rollback", "evidence", "stop_again"} \union RestoreSteps =>
         Recovery!Runs(Recovery!Services, "current", svc)
    /\ Recovery!RecoveredOrSaid

\* At most one resource is isolated and not recorded, the one whose creation failed, and a
\* container is isolated only with its volume, which is recorded; outside the restore nothing is.
IsolationInv ==
    /\ phase \in {"preflight", "ensure", "network"} \union BackupSteps => created = {} /\ isolated = {}
    /\ phase \in RestartSteps \union RollbackSteps => isolated = {}
    /\ phase \in RestoreSteps =>
         /\ created \subseteq isolated
         /\ \A r, t \in isolated \ created : r = t
         /\ ~ broken => isolated = created
         /\ \A s \in Recovery!Stores : Recovery!Container(s) \in isolated => Recovery!Volume(s) \in created
    /\ phase = "volume" => \A i \in 1 .. store : Recovery!Volume(StoreSeq[i]) \in created
    /\ phase \in {"start", "restore"} => \A s \in Recovery!Stores : Recovery!Volume(s) \in created
    /\ Recovery!LeakIsOneCreation

\* The data the rehearsal speaks of, while it has not failed.
Sound(d) == \A s \in Recovery!Stores : d[s] # Recovery!Damaged
DataInv ==
    /\ phase \in {"preflight", "ensure", "stop_again", "witness_before", "restart"}
                   \union BackupSteps \union RestoreSteps
         => Sound(data)
    /\ phase \in {"restart", "witness_after"} => Sound(restarting)
    /\ phase \in {"forward"} \union RollbackSteps => Sound(data)

WitnessInv ==
    /\ ~ broken /\ phase \in {"dump", "compare", "recover_backup"}
                      \union RestoreSteps \union RestartSteps \union RollbackSteps
         => Sound(witness)
    /\ ~ broken /\ phase \in {"start", "restore"} =>
         \A i \in 1 .. store : backup[StoreSeq[i]] = witness[StoreSeq[i]]
    /\ ~ broken /\ phase \in {"cleanup"} \union RestartSteps \union RollbackSteps => backup = witness
    /\ ~ broken /\ phase \in {"recover_rollback", "evidence"} => previous
    /\ Recovery!EvidenceIsEarned

RecoveryInv == Recovery!TypeOK /\ PhaseInv /\ StackInv /\ IsolationInv /\ DataInv /\ WitnessInv

LEMMA RecoveryInit == Recovery!RehearsalAssumption /\ Recovery!Init => RecoveryInv
<1> SUFFICES ASSUME Recovery!RehearsalAssumption, Recovery!Init PROVE RecoveryInv
  OBVIOUS
<1>1. /\ svc \in [Recovery!Services -> {"current", "stopped"}]
      /\ \A s \in Recovery!Stores : svc[s] = "current"
  BY DEF Recovery!Init, Recovery!Services, Recovery!RehearsalAssumption
<1>2. /\ 0 \in Recovery!Versions /\ Recovery!Damaged \in Recovery!Versions
      /\ 0 # Recovery!Damaged
      /\ 0 \in 0 .. Len(StoreSeq)
  BY DEF Recovery!Versions, Recovery!Damaged, Recovery!RehearsalAssumption
<1>3. Recovery!TypeOK
  BY <1>1, <1>2 DEF Recovery!Init, Recovery!TypeOK, Recovery!Steps, Recovery!Revisions
<1>4. QED
  BY <1>1, <1>2, <1>3 DEF Recovery!Init, RecoveryInv, PhaseInv, StackInv, IsolationInv, DataInv,
     WitnessInv, Sound,
     BackupSteps, RestoreSteps, RestartSteps, RollbackSteps, Recovery!RecoveredOrSaid,
     Recovery!LeakIsOneCreation,
     Recovery!EvidenceIsEarned

\* The types in three parts: the script's control, the flags, and what is kept of each store.
ControlTypes ==
    /\ phase \in Recovery!Steps /\ store \in 0 .. Len(StoreSeq)
    /\ outcome \in {"none", "passed", "failed", "not_recovered", "not_removed"}
FlagTypes == {broken, verified, previous, active, interrupted} \subseteq BOOLEAN
StoreTypes ==
    /\ svc \in [Recovery!Services -> Recovery!Revisions]
    /\ data \in [Recovery!Stores -> Recovery!Versions]
    /\ witness \in [Recovery!Stores -> Recovery!Versions]
    /\ restarting \in [Recovery!Stores -> Recovery!Versions]
    /\ backup \in [Recovery!Stores -> Recovery!Versions]
    /\ isolated \subseteq Recovery!Resources /\ created \subseteq Recovery!Resources

LEMMA TypesInParts == Recovery!TypeOK <=> ControlTypes /\ FlagTypes /\ StoreTypes
BY DEF Recovery!TypeOK, ControlTypes, FlagTypes, StoreTypes

LEMMA RecoveryControl ==
    ASSUME Recovery!RehearsalAssumption, RecoveryInv, [Recovery!Next]_(Recovery!vars)
    PROVE  ControlTypes'
<1> USE TypesInParts DEF RecoveryInv, ControlTypes, PhaseInv, Recovery!RehearsalAssumption,
        Recovery!Steps, Recovery!Goto, Recovery!Throw, Recovery!End, Recovery!Skip, Recovery!stack
<1>1. CASE Recovery!CheckPrerequisites
  BY <1>1 DEF Recovery!CheckPrerequisites
<1>2. CASE Recovery!EnsureCurrentStack
  BY <1>2 DEF Recovery!EnsureCurrentStack
<1>3. CASE Recovery!Stop
  BY <1>3 DEF Recovery!Stop, Recovery!StopServices
<1>4. CASE Recovery!Capture
  BY <1>4 DEF Recovery!Capture, Recovery!CaptureWitness
<1>5. CASE Recovery!Dump
  BY <1>5 DEF Recovery!Dump
<1>6. CASE Recovery!Compare
  BY <1>6 DEF Recovery!Compare
<1>7. CASE Recovery!RecoverBackup
  BY <1>7 DEF Recovery!RecoverBackup, Recovery!RollForward, Recovery!AfterBackup
<1>8. CASE Recovery!CreateNetwork
  BY <1>8 DEF Recovery!CreateNetwork, Recovery!Create, Recovery!CreateFails
<1>9. CASE Recovery!CreateVolume
  BY <1>9 DEF Recovery!CreateVolume, Recovery!Create, Recovery!CreateFails
<1>10. CASE Recovery!StartTarget
  BY <1>10 DEF Recovery!StartTarget, Recovery!Create, Recovery!CreateFails
<1>11. CASE Recovery!Restore
  BY <1>11 DEF Recovery!Restore
<1>12. CASE Recovery!Cleanup
  BY <1>12 DEF Recovery!Cleanup
<1>13. CASE Recovery!StopAgain
  BY <1>13 DEF Recovery!StopAgain, Recovery!StopServices
<1>14. CASE Recovery!CaptureBefore
  BY <1>14 DEF Recovery!CaptureBefore, Recovery!CaptureWitness
<1>15. CASE Recovery!Restart
  BY <1>15 DEF Recovery!Restart
<1>16. CASE Recovery!CaptureAfter
  BY <1>16 DEF Recovery!CaptureAfter
<1>17. CASE Recovery!Forward
  BY <1>17 DEF Recovery!Forward, Recovery!RollForward
<1>18. CASE Recovery!RecoverRestart
  BY <1>18 DEF Recovery!RecoverRestart, Recovery!RollForward
<1>19. CASE Recovery!InspectImages
  BY <1>19 DEF Recovery!InspectImages
<1>20. CASE Recovery!Rollback
  BY <1>20 DEF Recovery!Rollback
<1>21. CASE Recovery!CheckPrevious
  BY <1>21 DEF Recovery!CheckPrevious
<1>22. CASE Recovery!RecoverRollback
  BY <1>22 DEF Recovery!RecoverRollback, Recovery!RollForward, Recovery!AfterRollback
<1>23. CASE Recovery!WriteEvidence
  BY <1>23 DEF Recovery!WriteEvidence
<1>24. CASE Recovery!Platform
  BY <1>24 DEF Recovery!Platform, Recovery!StartRun, Recovery!EndRun, Recovery!Write,
     Recovery!script
<1>25. CASE UNCHANGED Recovery!vars
  BY <1>25 DEF Recovery!vars, Recovery!script, Recovery!stack
<1>26. QED
  BY <1>1, <1>2, <1>3, <1>4, <1>5, <1>6, <1>7, <1>8, <1>9, <1>10, <1>11, <1>12, <1>13, <1>14,
     <1>15,
     <1>16, <1>17, <1>18, <1>19, <1>20, <1>21, <1>22, <1>23, <1>24, <1>25 DEF Recovery!Next,
     Recovery!Script

LEMMA RecoveryFlags ==
    ASSUME Recovery!RehearsalAssumption, RecoveryInv, [Recovery!Next]_(Recovery!vars)
    PROVE  FlagTypes'
<1> USE TypesInParts DEF RecoveryInv, FlagTypes, Recovery!Goto, Recovery!Throw, Recovery!End,
        Recovery!Skip, Recovery!stack
<1>1. CASE Recovery!CheckPrerequisites
  BY <1>1 DEF Recovery!CheckPrerequisites
<1>2. CASE Recovery!EnsureCurrentStack
  BY <1>2 DEF Recovery!EnsureCurrentStack
<1>3. CASE Recovery!Stop
  BY <1>3 DEF Recovery!Stop, Recovery!StopServices
<1>4. CASE Recovery!Capture
  BY <1>4 DEF Recovery!Capture, Recovery!CaptureWitness
<1>5. CASE Recovery!Dump
  BY <1>5 DEF Recovery!Dump
<1>6. CASE Recovery!Compare
  BY <1>6 DEF Recovery!Compare
<1>7. CASE Recovery!RecoverBackup
  BY <1>7 DEF Recovery!RecoverBackup, Recovery!RollForward, Recovery!AfterBackup
<1>8. CASE Recovery!CreateNetwork
  BY <1>8 DEF Recovery!CreateNetwork, Recovery!Create, Recovery!CreateFails
<1>9. CASE Recovery!CreateVolume
  BY <1>9 DEF Recovery!CreateVolume, Recovery!Create, Recovery!CreateFails
<1>10. CASE Recovery!StartTarget
  BY <1>10 DEF Recovery!StartTarget, Recovery!Create, Recovery!CreateFails
<1>11. CASE Recovery!Restore
  BY <1>11 DEF Recovery!Restore
<1>12. CASE Recovery!Cleanup
  BY <1>12 DEF Recovery!Cleanup
<1>13. CASE Recovery!StopAgain
  BY <1>13 DEF Recovery!StopAgain, Recovery!StopServices
<1>14. CASE Recovery!CaptureBefore
  BY <1>14 DEF Recovery!CaptureBefore, Recovery!CaptureWitness
<1>15. CASE Recovery!Restart
  BY <1>15 DEF Recovery!Restart
<1>16. CASE Recovery!CaptureAfter
  BY <1>16 DEF Recovery!CaptureAfter
<1>17. CASE Recovery!Forward
  BY <1>17 DEF Recovery!Forward, Recovery!RollForward
<1>18. CASE Recovery!RecoverRestart
  BY <1>18 DEF Recovery!RecoverRestart, Recovery!RollForward
<1>19. CASE Recovery!InspectImages
  BY <1>19 DEF Recovery!InspectImages
<1>20. CASE Recovery!Rollback
  BY <1>20 DEF Recovery!Rollback
<1>21. CASE Recovery!CheckPrevious
  BY <1>21 DEF Recovery!CheckPrevious
<1>22. CASE Recovery!RecoverRollback
  BY <1>22 DEF Recovery!RecoverRollback, Recovery!RollForward, Recovery!AfterRollback
<1>23. CASE Recovery!WriteEvidence
  BY <1>23 DEF Recovery!WriteEvidence
<1>24. CASE Recovery!Platform
  BY <1>24 DEF Recovery!Platform, Recovery!StartRun, Recovery!EndRun, Recovery!Write,
     Recovery!script
<1>25. CASE UNCHANGED Recovery!vars
  BY <1>25 DEF Recovery!vars, Recovery!script, Recovery!stack
<1>26. QED
  BY <1>1, <1>2, <1>3, <1>4, <1>5, <1>6, <1>7, <1>8, <1>9, <1>10, <1>11, <1>12, <1>13, <1>14,
     <1>15,
     <1>16, <1>17, <1>18, <1>19, <1>20, <1>21, <1>22, <1>23, <1>24, <1>25 DEF Recovery!Next,
     Recovery!Script

\* The store a loop is at, and the resources it names.
LEMMA CurrentStore ==
    ASSUME Recovery!RehearsalAssumption, RecoveryInv, phase \in {"dump", "volume", "start", "restore"}
    PROVE  /\ store \in Nat /\ store + 1 \in 1 .. Len(StoreSeq) /\ Len(StoreSeq) \in Nat
           /\ StoreSeq[store + 1] \in Recovery!Stores
<1>1. store \in 0 .. Len(StoreSeq) /\ store < Len(StoreSeq) /\ Len(StoreSeq) \in Nat
  BY TypesInParts DEF RecoveryInv, ControlTypes, PhaseInv, Recovery!RehearsalAssumption
<1>2. store + 1 \in 1 .. Len(StoreSeq)
  BY <1>1
<1>3. QED
  BY <1>1, <1>2 DEF Recovery!Stores

LEMMA ResourcesDiffer ==
    /\ Recovery!Network \in Recovery!Resources
    /\ \A s \in Recovery!Stores :
          /\ Recovery!Volume(s) \in Recovery!Resources
          /\ Recovery!Container(s) \in Recovery!Resources
          /\ Recovery!Container(s) # Recovery!Network
          /\ \A t \in Recovery!Stores :
                /\ Recovery!Container(s) # Recovery!Volume(t)
                /\ Recovery!Container(s) = Recovery!Container(t) => s = t
BY DEF Recovery!Network, Recovery!Volume, Recovery!Container, Recovery!Resources

LEMMA RecoveryStores ==
    ASSUME Recovery!RehearsalAssumption, RecoveryInv, [Recovery!Next]_(Recovery!vars)
    PROVE  StoreTypes'
<1> USE TypesInParts DEF RecoveryInv, StoreTypes, Recovery!Revisions, Recovery!Goto, Recovery!Throw,
        Recovery!End, Recovery!Skip, Recovery!stack
<1>1. CASE Recovery!CheckPrerequisites
  BY <1>1 DEF Recovery!CheckPrerequisites
<1>2. CASE Recovery!EnsureCurrentStack
  BY <1>2 DEF Recovery!EnsureCurrentStack
<1>3. CASE Recovery!Stop
  BY <1>3 DEF Recovery!Stop, Recovery!StopServices
<1>4. CASE Recovery!Capture
  BY <1>4 DEF Recovery!Capture, Recovery!CaptureWitness
<1>5. CASE Recovery!Dump
  <2>1. StoreSeq[store + 1] \in Recovery!Stores
    BY <1>5, CurrentStore DEF Recovery!Dump
  <2>2. \A s \in Recovery!Stores : data[s] \in Recovery!Versions
    OBVIOUS
  <2>3. Recovery!Damaged \in Recovery!Versions
    BY DEF Recovery!Damaged, Recovery!Versions, Recovery!RehearsalAssumption
  <2>4. QED
    BY <1>5, <2>1, <2>2, <2>3 DEF Recovery!Dump
<1>6. CASE Recovery!Compare
  BY <1>6 DEF Recovery!Compare
<1>7. CASE Recovery!RecoverBackup
  BY <1>7 DEF Recovery!RecoverBackup, Recovery!RollForward, Recovery!AfterBackup
<1>8. CASE Recovery!CreateNetwork
  BY <1>8, ResourcesDiffer DEF Recovery!CreateNetwork, Recovery!Create, Recovery!CreateFails
<1>9. CASE Recovery!CreateVolume
  <2>1. StoreSeq[store + 1] \in Recovery!Stores
    BY <1>9, CurrentStore DEF Recovery!CreateVolume
  <2>2. QED
    BY <1>9, <2>1, ResourcesDiffer DEF Recovery!CreateVolume, Recovery!Create, Recovery!CreateFails
<1>10. CASE Recovery!StartTarget
  <2>1. StoreSeq[store + 1] \in Recovery!Stores
    BY <1>10, CurrentStore DEF Recovery!StartTarget
  <2>2. QED
    BY <1>10, <2>1, ResourcesDiffer DEF Recovery!StartTarget, Recovery!Create, Recovery!CreateFails
<1>11. CASE Recovery!Restore
  BY <1>11 DEF Recovery!Restore
<1>12. CASE Recovery!Cleanup
  BY <1>12 DEF Recovery!Cleanup
<1>13. CASE Recovery!StopAgain
  BY <1>13 DEF Recovery!StopAgain, Recovery!StopServices
<1>14. CASE Recovery!CaptureBefore
  BY <1>14 DEF Recovery!CaptureBefore, Recovery!CaptureWitness
<1>15. CASE Recovery!Restart
  <2>1. data' \in [Recovery!Stores -> Recovery!Versions]
    <3>1. Recovery!Damaged \in Recovery!Versions
      BY DEF Recovery!Damaged, Recovery!Versions, Recovery!RehearsalAssumption
    <3>2. PICK lost \in SUBSET Recovery!Stores :
             data' = [s \in Recovery!Stores |-> IF s \in lost THEN Recovery!Damaged ELSE data[s]]
      BY <1>15 DEF Recovery!Restart
    <3>3. QED
      BY <3>1, <3>2
  <2>2. svc' \in [Recovery!Services -> Recovery!Revisions]
    BY <1>15 DEF Recovery!Restart
  <2>3. QED
    BY <1>15, <2>1, <2>2 DEF Recovery!Restart
<1>16. CASE Recovery!CaptureAfter
  BY <1>16 DEF Recovery!CaptureAfter
<1>17. CASE Recovery!Forward
  BY <1>17 DEF Recovery!Forward, Recovery!RollForward
<1>18. CASE Recovery!RecoverRestart
  BY <1>18 DEF Recovery!RecoverRestart, Recovery!RollForward
<1>19. CASE Recovery!InspectImages
  BY <1>19 DEF Recovery!InspectImages
<1>20. CASE Recovery!Rollback
  BY <1>20 DEF Recovery!Rollback
<1>21. CASE Recovery!CheckPrevious
  BY <1>21 DEF Recovery!CheckPrevious
<1>22. CASE Recovery!RecoverRollback
  BY <1>22 DEF Recovery!RecoverRollback, Recovery!RollForward, Recovery!AfterRollback
<1>23. CASE Recovery!WriteEvidence
  BY <1>23 DEF Recovery!WriteEvidence
<1>24. CASE Recovery!Platform
  <2>1. data' \in [Recovery!Stores -> Recovery!Versions]
    <3>1. ASSUME NEW s \in Recovery!Stores, Recovery!Write(s)
          PROVE  data' \in [Recovery!Stores -> Recovery!Versions]
      <4>1. data[s] + 1 \in Recovery!Versions
        BY <3>1 DEF Recovery!Write, Recovery!Versions, Recovery!Damaged,
           Recovery!RehearsalAssumption
      <4>2. QED
        BY <3>1, <4>1 DEF Recovery!Write
    <3>2. QED
      BY <1>24, <3>1 DEF Recovery!Platform, Recovery!StartRun, Recovery!EndRun
  <2>2. QED
    BY <1>24, <2>1 DEF Recovery!Platform, Recovery!StartRun, Recovery!EndRun, Recovery!Write,
       Recovery!script
<1>25. CASE UNCHANGED Recovery!vars
  BY <1>25 DEF Recovery!vars, Recovery!script, Recovery!stack
<1>26. QED
  BY <1>1, <1>2, <1>3, <1>4, <1>5, <1>6, <1>7, <1>8, <1>9, <1>10, <1>11, <1>12, <1>13, <1>14,
     <1>15,
     <1>16, <1>17, <1>18, <1>19, <1>20, <1>21, <1>22, <1>23, <1>24, <1>25 DEF Recovery!Next,
     Recovery!Script

LEMMA RecoveryPhase ==
    ASSUME Recovery!RehearsalAssumption, RecoveryInv, [Recovery!Next]_(Recovery!vars)
    PROVE  PhaseInv'
<1> USE DEF RecoveryInv, PhaseInv, Recovery!RehearsalAssumption, Recovery!Goto, Recovery!Throw,
        Recovery!End, Recovery!Skip, Recovery!stack
<1>1. CASE Recovery!CheckPrerequisites
  BY <1>1 DEF Recovery!CheckPrerequisites
<1>2. CASE Recovery!EnsureCurrentStack
  BY <1>2 DEF Recovery!EnsureCurrentStack
<1>3. CASE Recovery!Stop
  BY <1>3 DEF Recovery!Stop, Recovery!StopServices
<1>4. CASE Recovery!Capture
  BY <1>4 DEF Recovery!Capture, Recovery!CaptureWitness
<1>5. CASE Recovery!Dump
  BY <1>5, CurrentStore DEF Recovery!Dump
<1>6. CASE Recovery!Compare
  BY <1>6 DEF Recovery!Compare
<1>7. CASE Recovery!RecoverBackup
  BY <1>7 DEF Recovery!RecoverBackup, Recovery!RollForward, Recovery!AfterBackup
<1>8. CASE Recovery!CreateNetwork
  BY <1>8 DEF Recovery!CreateNetwork, Recovery!Create, Recovery!CreateFails
<1>9. CASE Recovery!CreateVolume
  BY <1>9, CurrentStore DEF Recovery!CreateVolume, Recovery!CreateFails
<1>10. CASE Recovery!StartTarget
  BY <1>10 DEF Recovery!StartTarget, Recovery!Create, Recovery!CreateFails
<1>11. CASE Recovery!Restore
  BY <1>11, CurrentStore DEF Recovery!Restore
<1>12. CASE Recovery!Cleanup
  BY <1>12 DEF Recovery!Cleanup
<1>13. CASE Recovery!StopAgain
  BY <1>13 DEF Recovery!StopAgain, Recovery!StopServices
<1>14. CASE Recovery!CaptureBefore
  BY <1>14 DEF Recovery!CaptureBefore, Recovery!CaptureWitness
<1>15. CASE Recovery!Restart
  BY <1>15 DEF Recovery!Restart
<1>16. CASE Recovery!CaptureAfter
  BY <1>16 DEF Recovery!CaptureAfter
<1>17. CASE Recovery!Forward
  BY <1>17 DEF Recovery!Forward, Recovery!RollForward
<1>18. CASE Recovery!RecoverRestart
  BY <1>18 DEF Recovery!RecoverRestart, Recovery!RollForward
<1>19. CASE Recovery!InspectImages
  BY <1>19 DEF Recovery!InspectImages
<1>20. CASE Recovery!Rollback
  BY <1>20 DEF Recovery!Rollback
<1>21. CASE Recovery!CheckPrevious
  BY <1>21 DEF Recovery!CheckPrevious
<1>22. CASE Recovery!RecoverRollback
  BY <1>22 DEF Recovery!RecoverRollback, Recovery!RollForward, Recovery!AfterRollback
<1>23. CASE Recovery!WriteEvidence
  BY <1>23 DEF Recovery!WriteEvidence
<1>24. CASE Recovery!Platform
  BY <1>24 DEF Recovery!Platform, Recovery!StartRun, Recovery!EndRun, Recovery!Write,
     Recovery!script
<1>25. CASE UNCHANGED Recovery!vars
  BY <1>25 DEF Recovery!vars, Recovery!script, Recovery!stack
<1>26. QED
  BY <1>1, <1>2, <1>3, <1>4, <1>5, <1>6, <1>7, <1>8, <1>9, <1>10, <1>11, <1>12, <1>13, <1>14,
     <1>15,
     <1>16, <1>17, <1>18, <1>19, <1>20, <1>21, <1>22, <1>23, <1>24, <1>25 DEF Recovery!Next,
     Recovery!Script

LEMMA RecoveryStack ==
    ASSUME Recovery!RehearsalAssumption, RecoveryInv, [Recovery!Next]_(Recovery!vars)
    PROVE  StackInv'
<1> USE DEF RecoveryInv, Recovery!TypeOK, PhaseInv, StackInv, Recovery!Runs, Recovery!Verified,
        Recovery!MayBeHealthy, Recovery!RecoveredOrSaid, Recovery!Services, Recovery!Labeled,
        Recovery!RehearsalAssumption, RestoreSteps, Recovery!Goto, Recovery!Throw, Recovery!End,
        Recovery!Skip, Recovery!stack
<1>1. CASE Recovery!CheckPrerequisites
  BY <1>1 DEF Recovery!CheckPrerequisites
<1>2. CASE Recovery!EnsureCurrentStack
  BY <1>2 DEF Recovery!EnsureCurrentStack
<1>3. CASE Recovery!Stop
  BY <1>3 DEF Recovery!Stop, Recovery!StopServices
<1>4. CASE Recovery!Capture
  BY <1>4 DEF Recovery!Capture, Recovery!CaptureWitness
<1>5. CASE Recovery!Dump
  BY <1>5 DEF Recovery!Dump
<1>6. CASE Recovery!Compare
  BY <1>6 DEF Recovery!Compare
<1>7. CASE Recovery!RecoverBackup
  BY <1>7 DEF Recovery!RecoverBackup, Recovery!RollForward, Recovery!AfterBackup
<1>8. CASE Recovery!CreateNetwork
  BY <1>8 DEF Recovery!CreateNetwork, Recovery!Create, Recovery!CreateFails
<1>9. CASE Recovery!CreateVolume
  BY <1>9 DEF Recovery!CreateVolume, Recovery!Create, Recovery!CreateFails
<1>10. CASE Recovery!StartTarget
  BY <1>10 DEF Recovery!StartTarget, Recovery!Create, Recovery!CreateFails
<1>11. CASE Recovery!Restore
  BY <1>11 DEF Recovery!Restore
<1>12. CASE Recovery!Cleanup
  BY <1>12 DEF Recovery!Cleanup
<1>13. CASE Recovery!StopAgain
  BY <1>13 DEF Recovery!StopAgain, Recovery!StopServices
<1>14. CASE Recovery!CaptureBefore
  BY <1>14 DEF Recovery!CaptureBefore, Recovery!CaptureWitness
<1>15. CASE Recovery!Restart
  BY <1>15 DEF Recovery!Restart
<1>16. CASE Recovery!CaptureAfter
  BY <1>16 DEF Recovery!CaptureAfter
<1>17. CASE Recovery!Forward
  BY <1>17 DEF Recovery!Forward, Recovery!RollForward
<1>18. CASE Recovery!RecoverRestart
  BY <1>18 DEF Recovery!RecoverRestart, Recovery!RollForward
<1>19. CASE Recovery!InspectImages
  BY <1>19 DEF Recovery!InspectImages
<1>20. CASE Recovery!Rollback
  BY <1>20 DEF Recovery!Rollback
<1>21. CASE Recovery!CheckPrevious
  BY <1>21 DEF Recovery!CheckPrevious
<1>22. CASE Recovery!RecoverRollback
  BY <1>22 DEF Recovery!RecoverRollback, Recovery!RollForward, Recovery!AfterRollback
<1>23. CASE Recovery!WriteEvidence
  BY <1>23 DEF Recovery!WriteEvidence
<1>24. CASE Recovery!Platform
  BY <1>24 DEF Recovery!Platform, Recovery!StartRun, Recovery!EndRun, Recovery!Write,
     Recovery!script
<1>25. CASE UNCHANGED Recovery!vars
  BY <1>25 DEF Recovery!vars, Recovery!script, Recovery!stack
<1>26. QED
  BY <1>1, <1>2, <1>3, <1>4, <1>5, <1>6, <1>7, <1>8, <1>9, <1>10, <1>11, <1>12, <1>13, <1>14,
     <1>15,
     <1>16, <1>17, <1>18, <1>19, <1>20, <1>21, <1>22, <1>23, <1>24, <1>25 DEF Recovery!Next,
     Recovery!Script

LEMMA RecoveryIsolation ==
    ASSUME Recovery!RehearsalAssumption, RecoveryInv, [Recovery!Next]_(Recovery!vars)
    PROVE  IsolationInv'
<1> USE DEF RecoveryInv, PhaseInv, IsolationInv, Recovery!LeakIsOneCreation, BackupSteps, RestoreSteps,
        RestartSteps, RollbackSteps, Recovery!Goto, Recovery!Throw, Recovery!End, Recovery!Skip,
        Recovery!stack
<1>1. CASE Recovery!CheckPrerequisites
  BY <1>1 DEF Recovery!CheckPrerequisites
<1>2. CASE Recovery!EnsureCurrentStack
  BY <1>2 DEF Recovery!EnsureCurrentStack
<1>3. CASE Recovery!Stop
  BY <1>3 DEF Recovery!Stop, Recovery!StopServices
<1>4. CASE Recovery!Capture
  BY <1>4 DEF Recovery!Capture, Recovery!CaptureWitness
<1>5. CASE Recovery!Dump
  BY <1>5 DEF Recovery!Dump
<1>6. CASE Recovery!Compare
  BY <1>6 DEF Recovery!Compare
<1>7. CASE Recovery!RecoverBackup
  BY <1>7 DEF Recovery!RecoverBackup, Recovery!RollForward, Recovery!AfterBackup
<1>8. CASE Recovery!CreateNetwork
  <2>1. /\ created = {} /\ isolated = {} /\ phase = "network" /\ outcome = "none"
        /\ created' \subseteq isolated' /\ isolated' \subseteq {Recovery!Network}
    BY <1>8 DEF Recovery!CreateNetwork, Recovery!Create, Recovery!CreateFails
  <2>2. \A s \in Recovery!Stores : Recovery!Container(s) \notin isolated'
    BY <2>1, ResourcesDiffer
  <2>3. /\ (phase' = "volume" /\ store' = 0) \/ phase' = "cleanup"
        /\ ~ broken' => isolated' = created'
        /\ outcome' = outcome
    BY <1>8, <2>1 DEF Recovery!CreateNetwork, Recovery!Create, Recovery!CreateFails
  <2>4. QED
    BY <2>1, <2>2, <2>3
<1>9. CASE Recovery!CreateVolume
  <2> DEFINE v == StoreSeq[store + 1]
  <2>1. /\ v \in Recovery!Stores /\ store \in Nat /\ Len(StoreSeq) \in Nat /\ phase = "volume"
        /\ outcome = "none" /\ isolated = created
    BY <1>9, CurrentStore DEF Recovery!CreateVolume
  <2>2. CASE /\ Recovery!Create(Recovery!Volume(v))
             /\ IF store + 1 = Len(StoreSeq) THEN Recovery!Goto("start")
                ELSE store' = store + 1 /\ UNCHANGED <<phase, broken, outcome>>
    <3>1. /\ created' = created \union {Recovery!Volume(v)} /\ isolated' = created'
          /\ \A s \in Recovery!Stores : Recovery!Container(s) \in isolated' => Recovery!Container(s) \in isolated
      BY <2>1, <2>2, ResourcesDiffer DEF Recovery!Create
    <3>2. \A i \in 1 .. store + 1 : Recovery!Volume(StoreSeq[i]) \in created'
      BY <2>1, <3>1
    <3>3. CASE store + 1 = Len(StoreSeq)
      <4>1. \A s \in Recovery!Stores : Recovery!Volume(s) \in created'
        BY <2>1, <3>2, <3>3 DEF Recovery!Stores
      <4>2. phase' = "start" /\ outcome' = outcome
        BY <2>2, <3>3
      <4>3. QED
        BY <2>1, <3>1, <4>1, <4>2
    <3>4. CASE store + 1 # Len(StoreSeq)
      <4>1. phase' = "volume" /\ store' = store + 1 /\ outcome' = outcome
        BY <2>1, <2>2, <3>4
      <4>2. QED
        BY <2>1, <3>1, <3>2, <4>1
    <3>5. QED
      BY <3>3, <3>4
  <2>3. CASE Recovery!CreateFails(Recovery!Volume(v))
    <3>1. /\ created' = created /\ created \subseteq isolated'
          /\ isolated' \subseteq created \union {Recovery!Volume(v)}
          /\ phase' = "cleanup" /\ broken' /\ outcome' = outcome
      BY <2>1, <2>3 DEF Recovery!CreateFails
    <3>2. \A s \in Recovery!Stores : Recovery!Container(s) \in isolated' => Recovery!Container(s) \in isolated
      BY <2>1, <3>1, ResourcesDiffer
    <3>3. QED
      BY <2>1, <3>1, <3>2
  <2>4. QED
    BY <1>9, <2>2, <2>3 DEF Recovery!CreateVolume
<1>10. CASE Recovery!StartTarget
  <2> DEFINE c == Recovery!Container(StoreSeq[store + 1])
  <2>1. /\ StoreSeq[store + 1] \in Recovery!Stores /\ phase = "start" /\ outcome = "none"
        /\ isolated = created
    BY <1>10, CurrentStore DEF Recovery!StartTarget
  <2>2. /\ created \subseteq created' /\ created' \subseteq isolated'
        /\ isolated' \subseteq created \union {c}
        /\ isolated' = created' \/ (broken' /\ phase' = "cleanup")
        /\ phase' \in {"restore", "cleanup"} /\ outcome' = outcome
    BY <1>10, <2>1 DEF Recovery!StartTarget, Recovery!Create, Recovery!CreateFails
  <2>3. \A s \in Recovery!Stores : Recovery!Volume(s) \in created'
    BY <2>1, <2>2
  <2>4. QED
    BY <2>1, <2>2, <2>3
<1>11. CASE Recovery!Restore
  BY <1>11 DEF Recovery!Restore
<1>12. CASE Recovery!Cleanup
  <2>1. PICK kept \in SUBSET isolated :
           /\ isolated \ created \subseteq kept
           /\ Recovery!Held(kept) \intersect isolated \subseteq kept
           /\ isolated' = kept
           /\ IF ~ Recovery!Clean(kept) THEN Recovery!End("not_removed")
              ELSE IF broken THEN Recovery!End("failed") ELSE Recovery!Goto("stop_again")
    BY <1>12 DEF Recovery!Cleanup
  <2>2. phase = "cleanup" /\ outcome = "none"
    BY <1>12 DEF Recovery!Cleanup
  \* What is kept and not recorded is no container: that would keep its recorded volume.
  <2>3. ASSUME Recovery!Clean(kept)
        PROVE  kept \subseteq {Recovery!Network} \union {Recovery!Volume(s) : s \in Recovery!Stores}
    <3>1. ASSUME NEW s \in Recovery!Stores, Recovery!Container(s) \in kept PROVE FALSE
      <4>1. Recovery!Volume(s) \in created /\ Recovery!Volume(s) \in isolated
        BY <2>2, <3>1
      <4>2. Recovery!Volume(s) \in Recovery!Held(kept)
        BY <3>1 DEF Recovery!Held
      <4>3. QED
        BY <2>1, <2>3, <4>1, <4>2 DEF Recovery!Clean
    <3>2. kept \subseteq Recovery!Resources
      BY <2>1, TypesInParts DEF StoreTypes
    <3>3. QED
      BY <3>1, <3>2 DEF Recovery!Resources, Recovery!Volume, Recovery!Container
  <2>4. ASSUME Recovery!Clean(kept)
        PROVE  /\ kept \intersect created = {} /\ \A r, t \in kept : r = t
               /\ ~ broken => kept = {}
    BY <2>1, <2>2, <2>4 DEF Recovery!Clean
  <2>5. UNCHANGED created
    BY <1>12 DEF Recovery!Cleanup
  <2>6. QED
    BY <2>1, <2>2, <2>3, <2>4, <2>5
<1>13. CASE Recovery!StopAgain
  BY <1>13 DEF Recovery!StopAgain, Recovery!StopServices
<1>14. CASE Recovery!CaptureBefore
  BY <1>14 DEF Recovery!CaptureBefore, Recovery!CaptureWitness
<1>15. CASE Recovery!Restart
  BY <1>15 DEF Recovery!Restart
<1>16. CASE Recovery!CaptureAfter
  BY <1>16 DEF Recovery!CaptureAfter
<1>17. CASE Recovery!Forward
  BY <1>17 DEF Recovery!Forward, Recovery!RollForward
<1>18. CASE Recovery!RecoverRestart
  BY <1>18 DEF Recovery!RecoverRestart, Recovery!RollForward
<1>19. CASE Recovery!InspectImages
  BY <1>19 DEF Recovery!InspectImages
<1>20. CASE Recovery!Rollback
  BY <1>20 DEF Recovery!Rollback
<1>21. CASE Recovery!CheckPrevious
  BY <1>21 DEF Recovery!CheckPrevious
<1>22. CASE Recovery!RecoverRollback
  BY <1>22 DEF Recovery!RecoverRollback, Recovery!RollForward, Recovery!AfterRollback
<1>23. CASE Recovery!WriteEvidence
  BY <1>23 DEF Recovery!WriteEvidence
<1>24. CASE Recovery!Platform
  BY <1>24 DEF Recovery!Platform, Recovery!StartRun, Recovery!EndRun, Recovery!Write,
     Recovery!script
<1>25. CASE UNCHANGED Recovery!vars
  BY <1>25 DEF Recovery!vars, Recovery!script, Recovery!stack
<1>26. QED
  BY <1>1, <1>2, <1>3, <1>4, <1>5, <1>6, <1>7, <1>8, <1>9, <1>10, <1>11, <1>12, <1>13, <1>14,
     <1>15,
     <1>16, <1>17, <1>18, <1>19, <1>20, <1>21, <1>22, <1>23, <1>24, <1>25 DEF Recovery!Next,
     Recovery!Script

LEMMA RecoveryData ==
    ASSUME Recovery!RehearsalAssumption, RecoveryInv, [Recovery!Next]_(Recovery!vars)
    PROVE  DataInv'
<1> USE DEF RecoveryInv, Recovery!TypeOK, DataInv, Sound, BackupSteps, RestoreSteps, RestartSteps,
        RollbackSteps, Recovery!Goto, Recovery!Throw, Recovery!End, Recovery!Skip, Recovery!stack
<1>1. CASE Recovery!CheckPrerequisites
  BY <1>1 DEF Recovery!CheckPrerequisites
<1>2. CASE Recovery!EnsureCurrentStack
  BY <1>2 DEF Recovery!EnsureCurrentStack
<1>3. CASE Recovery!Stop
  BY <1>3 DEF Recovery!Stop, Recovery!StopServices
<1>4. CASE Recovery!Capture
  BY <1>4 DEF Recovery!Capture, Recovery!CaptureWitness
<1>5. CASE Recovery!Dump
  BY <1>5 DEF Recovery!Dump
<1>6. CASE Recovery!Compare
  BY <1>6 DEF Recovery!Compare
<1>7. CASE Recovery!RecoverBackup
  BY <1>7 DEF Recovery!RecoverBackup, Recovery!RollForward, Recovery!AfterBackup
<1>8. CASE Recovery!CreateNetwork
  BY <1>8 DEF Recovery!CreateNetwork, Recovery!Create, Recovery!CreateFails
<1>9. CASE Recovery!CreateVolume
  BY <1>9 DEF Recovery!CreateVolume, Recovery!Create, Recovery!CreateFails
<1>10. CASE Recovery!StartTarget
  BY <1>10 DEF Recovery!StartTarget, Recovery!Create, Recovery!CreateFails
<1>11. CASE Recovery!Restore
  BY <1>11 DEF Recovery!Restore
<1>12. CASE Recovery!Cleanup
  BY <1>12 DEF Recovery!Cleanup
<1>13. CASE Recovery!StopAgain
  BY <1>13 DEF Recovery!StopAgain, Recovery!StopServices
<1>14. CASE Recovery!CaptureBefore
  BY <1>14 DEF Recovery!CaptureBefore, Recovery!CaptureWitness
<1>15. CASE Recovery!Restart
  <2>1. /\ phase' \in {"witness_after", "recover_restart"} /\ restarting' = restarting
        /\ phase = "restart"
    BY <1>15 DEF Recovery!Restart
  <2>2. QED
    BY <2>1
<1>16. CASE Recovery!CaptureAfter
  BY <1>16 DEF Recovery!CaptureAfter, Recovery!AssertEqualState
<1>17. CASE Recovery!Forward
  BY <1>17 DEF Recovery!Forward, Recovery!RollForward
<1>18. CASE Recovery!RecoverRestart
  BY <1>18 DEF Recovery!RecoverRestart, Recovery!RollForward
<1>19. CASE Recovery!InspectImages
  BY <1>19 DEF Recovery!InspectImages
<1>20. CASE Recovery!Rollback
  BY <1>20 DEF Recovery!Rollback
<1>21. CASE Recovery!CheckPrevious
  BY <1>21 DEF Recovery!CheckPrevious
<1>22. CASE Recovery!RecoverRollback
  BY <1>22 DEF Recovery!RecoverRollback, Recovery!RollForward, Recovery!AfterRollback
<1>23. CASE Recovery!WriteEvidence
  BY <1>23 DEF Recovery!WriteEvidence
<1>24. CASE Recovery!Platform
  <2>1. ASSUME Sound(data), Recovery!Platform PROVE Sound(data')
    BY TypesInParts, <2>1 DEF RecoveryInv, StoreTypes, Recovery!Platform, Recovery!StartRun,
       Recovery!EndRun, Recovery!Write, Recovery!Damaged, Recovery!Versions, Recovery!RehearsalAssumption
  <2>2. UNCHANGED <<phase, broken, outcome, restarting, witness, backup, previous>>
    BY <1>24 DEF Recovery!Platform, Recovery!StartRun, Recovery!EndRun, Recovery!Write,
       Recovery!script
  <2>3. QED
    BY <1>24, <2>1, <2>2
<1>25. CASE UNCHANGED Recovery!vars
  BY <1>25 DEF Recovery!vars, Recovery!script, Recovery!stack
<1>26. QED
  BY <1>1, <1>2, <1>3, <1>4, <1>5, <1>6, <1>7, <1>8, <1>9, <1>10, <1>11, <1>12, <1>13, <1>14,
     <1>15,
     <1>16, <1>17, <1>18, <1>19, <1>20, <1>21, <1>22, <1>23, <1>24, <1>25 DEF Recovery!Next,
     Recovery!Script

LEMMA RecoveryWitness ==
    ASSUME Recovery!RehearsalAssumption, RecoveryInv, [Recovery!Next]_(Recovery!vars)
    PROVE  WitnessInv'
<1> USE DEF RecoveryInv, PhaseInv, DataInv, WitnessInv, Sound, Recovery!EvidenceIsEarned,
        BackupSteps, RestoreSteps, RestartSteps, RollbackSteps, Recovery!Goto, Recovery!Throw,
        Recovery!End, Recovery!Skip, Recovery!stack
<1>1. CASE Recovery!CheckPrerequisites
  BY <1>1 DEF Recovery!CheckPrerequisites
<1>2. CASE Recovery!EnsureCurrentStack
  BY <1>2 DEF Recovery!EnsureCurrentStack
<1>3. CASE Recovery!Stop
  BY <1>3 DEF Recovery!Stop, Recovery!StopServices
<1>4. CASE Recovery!Capture
  BY <1>4 DEF Recovery!Capture, Recovery!CaptureWitness
<1>5. CASE Recovery!Dump
  BY <1>5 DEF Recovery!Dump
<1>6. CASE Recovery!Compare
  BY <1>6 DEF Recovery!Compare
<1>7. CASE Recovery!RecoverBackup
  BY <1>7 DEF Recovery!RecoverBackup, Recovery!RollForward, Recovery!AfterBackup
<1>8. CASE Recovery!CreateNetwork
  BY <1>8 DEF Recovery!CreateNetwork, Recovery!Create, Recovery!CreateFails
<1>9. CASE Recovery!CreateVolume
  BY <1>9 DEF Recovery!CreateVolume, Recovery!Create, Recovery!CreateFails
<1>10. CASE Recovery!StartTarget
  BY <1>10 DEF Recovery!StartTarget, Recovery!Create, Recovery!CreateFails
<1>11. CASE Recovery!Restore
  <2> DEFINE v == StoreSeq[store + 1]
  <2>1. /\ v \in Recovery!Stores /\ store \in Nat /\ Len(StoreSeq) \in Nat /\ phase = "restore"
        /\ outcome = "none"
    BY <1>11, CurrentStore DEF Recovery!Restore
  <2>2. CASE phase' = "cleanup" /\ broken' = TRUE /\ outcome' = outcome
    BY <1>11, <2>1, <2>2
  <2>3. CASE /\ \E x \in {backup[v], Recovery!Damaged} : witness[v] = x
             /\ broken' = broken /\ outcome' = outcome
             /\ \/ store + 1 = Len(StoreSeq) /\ phase' = "cleanup"
                \/ store + 1 # Len(StoreSeq) /\ phase' = "start" /\ store' = store + 1
    <3>1. ~ broken /\ Sound(witness)
      BY <2>1
    <3>2. backup[v] = witness[v]
      BY <2>1, <2>3, <3>1
    <3>3. \A i \in 1 .. store + 1 : backup[StoreSeq[i]] = witness[StoreSeq[i]]
      BY <2>1, <3>1, <3>2
    <3>4. UNCHANGED <<backup, witness, previous, data, isolated>>
      BY <1>11 DEF Recovery!Restore
    <3>5. CASE store + 1 = Len(StoreSeq)
      <4>1. \A s \in Recovery!Stores : backup[s] = witness[s]
        BY <3>3, <3>5 DEF Recovery!Stores
      <4>2. backup = witness
        BY <4>1, TypesInParts DEF RecoveryInv, StoreTypes
      <4>3. QED
        BY <2>1, <2>3, <3>1, <3>4, <3>5, <4>2
    <3>6. CASE store + 1 # Len(StoreSeq)
      BY <2>1, <2>3, <3>1, <3>3, <3>4, <3>6
    <3>7. QED
      BY <3>5, <3>6
  <2>4. QED
    BY <1>11, <2>2, <2>3 DEF Recovery!Restore, Recovery!AssertEqualState
<1>12. CASE Recovery!Cleanup
  BY <1>12 DEF Recovery!Cleanup
<1>13. CASE Recovery!StopAgain
  BY <1>13 DEF Recovery!StopAgain, Recovery!StopServices
<1>14. CASE Recovery!CaptureBefore
  BY <1>14 DEF Recovery!CaptureBefore, Recovery!CaptureWitness
<1>15. CASE Recovery!Restart
  BY <1>15 DEF Recovery!Restart
<1>16. CASE Recovery!CaptureAfter
  BY <1>16 DEF Recovery!CaptureAfter
<1>17. CASE Recovery!Forward
  BY <1>17 DEF Recovery!Forward, Recovery!RollForward
<1>18. CASE Recovery!RecoverRestart
  BY <1>18 DEF Recovery!RecoverRestart, Recovery!RollForward
<1>19. CASE Recovery!InspectImages
  BY <1>19 DEF Recovery!InspectImages
<1>20. CASE Recovery!Rollback
  BY <1>20 DEF Recovery!Rollback
<1>21. CASE Recovery!CheckPrevious
  BY <1>21 DEF Recovery!CheckPrevious
<1>22. CASE Recovery!RecoverRollback
  BY <1>22 DEF Recovery!RecoverRollback, Recovery!RollForward, Recovery!AfterRollback
<1>23. CASE Recovery!WriteEvidence
  <2>1. /\ ~ broken /\ Sound(witness) /\ Sound(data) /\ backup = witness /\ previous
        /\ isolated = {}
        /\ phase = "evidence" /\ phase' = "ended"
    BY <1>23 DEF Recovery!WriteEvidence, IsolationInv
  <2>2. QED
    BY <1>23, <2>1 DEF Recovery!WriteEvidence
<1>24. CASE Recovery!Platform
  <2>1. ASSUME Sound(data), Recovery!Platform PROVE Sound(data')
    BY TypesInParts, <2>1 DEF RecoveryInv, StoreTypes, Recovery!Platform, Recovery!StartRun,
       Recovery!EndRun, Recovery!Write, Recovery!Damaged, Recovery!Versions, Recovery!RehearsalAssumption
  <2>2. UNCHANGED <<phase, broken, outcome, restarting, witness, backup, previous, store, isolated>>
    BY <1>24 DEF Recovery!Platform, Recovery!StartRun, Recovery!EndRun, Recovery!Write,
       Recovery!script
  <2>3. QED
    BY <1>24, <2>1, <2>2
<1>25. CASE UNCHANGED Recovery!vars
  BY <1>25 DEF Recovery!vars, Recovery!script, Recovery!stack
<1>26. QED
  BY <1>1, <1>2, <1>3, <1>4, <1>5, <1>6, <1>7, <1>8, <1>9, <1>10, <1>11, <1>12, <1>13, <1>14,
     <1>15,
     <1>16, <1>17, <1>18, <1>19, <1>20, <1>21, <1>22, <1>23, <1>24, <1>25 DEF Recovery!Next,
     Recovery!Script

LEMMA RecoveryStep ==
    ASSUME Recovery!RehearsalAssumption, RecoveryInv, [Recovery!Next]_(Recovery!vars)
    PROVE  RecoveryInv'
<1>1. Recovery!TypeOK'
  BY RecoveryControl, RecoveryFlags, RecoveryStores DEF RecoveryInv, Recovery!TypeOK,
     ControlTypes, FlagTypes, StoreTypes
<1>2. QED
  BY <1>1, RecoveryPhase, RecoveryStack, RecoveryIsolation, RecoveryData, RecoveryWitness
     DEF RecoveryInv

LEMMA RecoveryHolds ==
    ASSUME Recovery!RehearsalAssumption
    PROVE  Recovery!Spec => []RecoveryInv
<1>1. Recovery!Init => RecoveryInv
  BY RecoveryInit
<1>2. RecoveryInv /\ [Recovery!Next]_(Recovery!vars) => RecoveryInv'
  BY RecoveryStep
<1>3. QED
  BY <1>1, <1>2, PTL DEF Recovery!Spec

\* Passing evidence is earned: every backup restores the data of its witness, the restart
\* lost nothing, the previous revision ran and no isolated resource is left, for any stores
\* and applications, whichever commands fail with part of their effect.
THEOREM RehearsalIsEarnedHolds ==
    ASSUME Recovery!RehearsalAssumption
    PROVE  Recovery!Spec => []Recovery!EvidenceIsEarned
<1>1. RecoveryInv => Recovery!EvidenceIsEarned
  BY DEF RecoveryInv, WitnessInv
<1>2. QED
  BY <1>1, RecoveryHolds, PTL

\* A rehearsal that touched the stack ends with every service on the current revision, or
\* says that the current stack could not be recovered.
THEOREM RecoveredOrSaidHolds ==
    ASSUME Recovery!RehearsalAssumption
    PROVE  Recovery!Spec => []Recovery!RecoveredOrSaid
<1>1. RecoveryInv => Recovery!RecoveredOrSaid
  BY DEF RecoveryInv, StackInv
<1>2. QED
  BY <1>1, RecoveryHolds, PTL

\* What a rehearsal leaves behind without saying that its cleanup was incomplete is at most the
\* one network or volume whose creation failed after it had taken effect.
THEOREM LeakIsOneCreationHolds ==
    ASSUME Recovery!RehearsalAssumption
    PROVE  Recovery!Spec => []Recovery!LeakIsOneCreation
<1>1. RecoveryInv => Recovery!LeakIsOneCreation
  BY DEF RecoveryInv, IsolationInv
<1>2. QED
  BY <1>1, RecoveryHolds, PTL

-----------------------------------------------------------------------------
(* The identity bootstrap *)

OidcSteps == {"idle", "identity", "key", "group", "app", "subject", "plan", "create_group", "create_app",
              "principal", "credential", "put_subject", "verify_subject", "list_roles", "assign",
              "secret", "verify"}
OidcModes == {"none", "plan", "apply"}
OidcOutcomes == {"none", "failed", "refused", "planned", "applied"}
OidcAttempt == [at : OidcSteps, mode : OidcModes, group : BOOLEAN, app : AppIds \union {None},
                todo : SUBSET AccessRoles, n : 0 .. Len(SecretSeq), outcome : OidcOutcomes]

\* The steps from which an attempt has read the application, and those behind each command.
PastVerify == {"list_roles", "assign", "secret", "verify"}
PastSubject == {"verify_subject"} \union PastVerify
PastCredential == {"put_subject"} \union PastSubject
PastPrincipal == {"credential"} \union PastCredential
PastApp == {"principal"} \union PastPrincipal
PastGroup == {"create_app"} \union PastApp
PastTemplate == {"plan", "create_group"} \union PastGroup
PastRead == {"subject"} \union PastTemplate

\* What an attempt has read or made is still there.
Reached(o) ==
    LET x == op[o] IN
    /\ x.at \in PastRead /\ x.app # None => apps[x.app] = "ours"
    /\ x.at \in {"app"} \union PastRead => group # "foreign" /\ (x.group => group = "ours")
    /\ x.at \in PastTemplate => template = "default"
    /\ x.at = "create_app" => group = "ours"
    /\ x.at \in PastApp => group = "ours" /\ x.app # None
    /\ x.at \in PastPrincipal => x.app \in principals
    /\ x.at \in PastCredential => credential[x.app] = "ours"
    /\ x.at \in PastSubject \ {"verify_subject"} => immutable
    /\ x.at = "assign" => AccessRoles \ x.todo \subseteq roles[x.app]
    /\ x.at \in {"secret", "verify"} => roles[x.app] = AccessRoles
    /\ x.at = "secret" => x.n < Len(SecretSeq)
    /\ x.at \notin {"secret", "verify"} => x.n = 0

\* An attempt past the reading of the application has seen no other identity of the name ...
Alone(o) ==
    LET x == op[o] IN
    x.at \in PastRead =>
        /\ \A a \in AppIds : apps[a] # "foreign"
        /\ x.app = None => \A a \in AppIds : credential[a] # "foreign"
        /\ x.app # None => \A a \in AppIds : credential[a] = "foreign" => a = x.app

\* ... and none that goes on to create one has set a secret before.
FirstTime(o) ==
    op[o].at \in PastRead /\ op[o].app = None => \A s \in Oidc!Secrets : s # ClientId => secrets[s] # o

\* A credential and a secret belong to an application.
OfApplications ==
    /\ \A a \in AppIds : credential[a] = "foreign" => apps[a] # "absent"
    /\ \A s \in Oidc!Secrets : secrets[s] # None => \E a \in AppIds : apps[a] # "absent"

OidcInv ==
    /\ Oidc!TypeOK /\ OfApplications /\ Oidc!ClientIsUsable
    /\ \A o \in Operators : Reached(o) /\ Alone(o) /\ FirstTime(o)


\* What the cloud is made of.
CloudTypes ==
    /\ group \in Oidc!Owners /\ apps \in [AppIds -> Oidc!Owners]
    /\ principals \subseteq Oidc!Named
    /\ credential \in [AppIds -> Oidc!Owners] /\ roles \in [AppIds -> SUBSET AccessRoles]
    /\ template \in {"default", "custom"} /\ immutable \in BOOLEAN
    /\ secrets \in [Oidc!Secrets -> AppIds \union Operators \union {None}]
ScriptTypes ==
    /\ keys \in [Operators -> {"none", "half", "pair"}] /\ failures \in 0 .. FailBound
    /\ op \in [Operators -> OidcAttempt]

\* A step of an operator takes nothing back, makes nothing foreign and takes nothing foreign over;
\* the secrets it sets carry its own name.
Grows(o) ==
    /\ group = "ours" => group' = "ours"
    /\ group' = "foreign" <=> group = "foreign"
    /\ template' = template
    /\ immutable => immutable'
    /\ \A a \in AppIds :
         /\ apps[a] # "absent" => apps'[a] = apps[a]
         /\ apps'[a] = "foreign" => apps[a] = "foreign"
         /\ credential[a] # "absent" => credential'[a] = credential[a]
         /\ credential'[a] = "foreign" => credential[a] = "foreign"
         /\ a \in principals => a \in principals'
         /\ roles[a] \subseteq roles'[a]
    /\ \A q \in Operators \ {o}, s \in Oidc!Secrets :
         s # ClientId /\ secrets'[s] = q => secrets[s] = q

LEMMA OidcTypes == Oidc!TypeOK <=> CloudTypes /\ ScriptTypes
BY DEF Oidc!TypeOK, CloudTypes, ScriptTypes, OidcAttempt, OidcSteps, OidcModes, OidcOutcomes

LEMMA IdleAttempt ==
  \A outcome_ \in OidcOutcomes :
    /\ Oidc!Idle(outcome_) \in OidcAttempt /\ Oidc!Idle(outcome_).at = "idle"
    /\ Oidc!Idle(outcome_).n = 0
    /\ Oidc!Idle(outcome_).app = None /\ Oidc!Idle(outcome_).todo = {}
    /\ Oidc!Idle(outcome_).group = FALSE
<1>1. ASSUME Oidc!OidcAssumption PROVE 0 \in 0 .. Len(SecretSeq)
  BY <1>1 DEF Oidc!OidcAssumption
<1>2. QED
  BY <1>1, StagingAssumption DEF Oidc!Idle, OidcAttempt, OidcSteps, OidcModes, OidcOutcomes

\* An idle attempt has reached nothing.
LEMMA IdleHasNothing ==
  ASSUME NEW o \in Operators, op[o].at = "idle", op[o].n = 0
  PROVE  Reached(o) /\ Alone(o) /\ FirstTime(o)
BY DEF Reached, Alone, FirstTime, PastVerify, PastSubject, PastCredential, PastPrincipal,
   PastApp, PastGroup,
   PastTemplate, PastRead

LEMMA OthersKeepWhatTheyReached ==
  ASSUME NEW o \in Operators, NEW q \in Operators \ {o}, CloudTypes, CloudTypes', op[q] \in OidcAttempt,
         Oidc!OidcAssumption, Grows(o), op'[q] = op[q], Reached(q), Alone(q), FirstTime(q)
  PROVE  Reached(q)' /\ Alone(q)' /\ FirstTime(q)'
<1>1. op[q].app # None => op[q].app \in AppIds
  BY DEF OidcAttempt
<1>2. Reached(q)'
  <2> DEFINE x == op[q]
  <2>1. /\ x.at \in PastRead /\ x.app # None => apps'[x.app] = "ours"
        /\ x.at \in {"app"} \union PastRead => group' # "foreign" /\ (x.group => group' = "ours")
        /\ x.at \in PastTemplate => template' = "default"
    BY <1>1 DEF Reached, Grows
  <2>2. /\ x.at = "create_app" => group' = "ours"
        /\ x.at \in PastApp => group' = "ours" /\ x.app # None
        /\ x.at \in PastSubject \ {"verify_subject"} => immutable'
    BY <1>1 DEF Reached, Grows
  <2>3. /\ x.at \in PastPrincipal => x.app \in principals'
        /\ x.at \in PastCredential => credential'[x.app] = "ours"
    BY <1>1 DEF Reached, Grows, PastApp, PastPrincipal, PastCredential, PastSubject, PastVerify
  <2>4. /\ x.at = "assign" => AccessRoles \ x.todo \subseteq roles'[x.app]
        /\ x.at \in {"secret", "verify"} => roles'[x.app] = AccessRoles
    <3>1. x.at \in {"assign", "secret", "verify"} => x.app \in AppIds
      BY <1>1 DEF Reached, PastApp, PastPrincipal, PastCredential, PastSubject, PastVerify
    <3>2. CASE x.at \in {"assign", "secret", "verify"}
      <4>1. roles[x.app] \subseteq roles'[x.app]
        BY <3>1, <3>2 DEF Grows
      <4>2. roles'[x.app] \subseteq AccessRoles
        BY <3>1, <3>2 DEF CloudTypes
      <4>3. /\ x.at = "assign" => AccessRoles \ x.todo \subseteq roles[x.app]
            /\ x.at \in {"secret", "verify"} => roles[x.app] = AccessRoles
        BY DEF Reached
      <4>4. QED
        BY <4>1, <4>2, <4>3
    <3>3. QED
      BY <3>2
  <2>5. /\ x.at = "secret" => x.n < Len(SecretSeq)
        /\ x.at \notin {"secret", "verify"} => x.n = 0
    BY DEF Reached
  <2>6. QED
    BY <2>1, <2>2, <2>3, <2>4, <2>5 DEF Reached, PastVerify, PastSubject, PastCredential,
       PastPrincipal,
       PastApp, PastGroup, PastTemplate, PastRead
<1>3. Alone(q)'
  BY <1>1 DEF Alone, Grows
<1>4. FirstTime(q)'
  BY DEF FirstTime, Grows
<1>5. QED
  BY <1>2, <1>3, <1>4

\* A client id that is published stays usable.
LEMMA UsableStays ==
  ASSUME CloudTypes, CloudTypes', NEW o \in Operators, Grows(o), NEW a, Oidc!Usable(a)
  PROVE  Oidc!Usable(a)'
BY DEF Oidc!Usable, Grows, CloudTypes

\* A step keeps the invariant when the cloud grows by it, and the operator has what it says.
LEMMA OidcStepKeeps ==
  ASSUME Oidc!OidcAssumption, OidcInv, NEW o \in Operators, NEW x \in OidcAttempt, op' = [op EXCEPT ![o] = x],
         CloudTypes', keys' \in [Operators -> {"none", "half", "pair"}], failures' \in 0 .. FailBound,
         Grows(o), OfApplications', Oidc!ClientIsUsable', Reached(o)', Alone(o)', FirstTime(o)'
  PROVE  OidcInv'
<1>1. CloudTypes /\ ScriptTypes /\ \A q \in Operators : Reached(q) /\ Alone(q) /\ FirstTime(q)
  BY OidcTypes DEF OidcInv
<1>2. op' \in [Operators -> OidcAttempt] /\ \A q \in Operators \ {o} : op'[q] = op[q] /\ op[q] \in OidcAttempt
  BY <1>1 DEF ScriptTypes
<1>3. \A q \in Operators \ {o} : Reached(q)' /\ Alone(q)' /\ FirstTime(q)'
  BY <1>1, <1>2, OthersKeepWhatTheyReached
<1>4. ScriptTypes'
  BY <1>2 DEF ScriptTypes
<1>5. Oidc!TypeOK'
  BY <1>4, OidcTypes DEF Oidc!TypeOK, CloudTypes, ScriptTypes, OidcAttempt, OidcSteps,
     OidcModes, OidcOutcomes
<1>6. QED
  BY <1>3, <1>5 DEF OidcInv

\* A step that leaves the cloud alone keeps it when the operator has what it says.
LEMMA OidcReadKeeps ==
  ASSUME Oidc!OidcAssumption, OidcInv, NEW o \in Operators, NEW x \in OidcAttempt, op' = [op EXCEPT ![o] = x],
         UNCHANGED Oidc!cloud, keys' \in [Operators -> {"none", "half", "pair"}], failures' \in 0 .. FailBound,
         Reached(o)', Alone(o)', FirstTime(o)'
  PROVE  OidcInv' /\ Grows(o)
<1> USE DEF Oidc!cloud, Oidc!azure, Oidc!github
<1>1. CloudTypes /\ OfApplications /\ Oidc!ClientIsUsable
  BY OidcTypes DEF OidcInv
<1>2. CloudTypes'
  BY <1>1 DEF CloudTypes, Oidc!Named
<1>3. Grows(o)
  BY DEF Grows
<1>4. OfApplications' /\ Oidc!ClientIsUsable'
  BY <1>1 DEF OfApplications, Oidc!ClientIsUsable, Oidc!Usable
<1>5. QED
  BY <1>2, <1>3, <1>4, OidcStepKeeps

LEMMA OidcInit == Oidc!OidcAssumption /\ Oidc!Init => OidcInv
<1> SUFFICES ASSUME Oidc!OidcAssumption, Oidc!Init PROVE OidcInv
  OBVIOUS
<1>1. \A o \in Operators : op[o] = Oidc!Idle("none")
  BY DEF Oidc!Init
<1>2. "none" \in OidcOutcomes
  BY DEF OidcOutcomes
<1>3. \A o \in Operators : Reached(o) /\ Alone(o) /\ FirstTime(o)
  BY <1>1, <1>2, IdleAttempt, IdleHasNothing
<1>4. ScriptTypes
  BY <1>2, IdleAttempt DEF Oidc!Init, ScriptTypes, Oidc!OidcAssumption
<1>5. \A s \in Oidc!Secrets : secrets[s] = None
  BY DEF Oidc!Init
<1>6. ClientId \in Oidc!Secrets
  BY DEF Oidc!OidcAssumption
<1>7. CloudTypes
  <2>1. group \in Oidc!Owners /\ template \in {"default", "custom"} /\ immutable \in BOOLEAN
    BY DEF Oidc!Init, Oidc!Owners
  <2>2. principals = {} /\ roles = [b \in AppIds |-> {}]
    BY DEF Oidc!Init
  <2>3. apps \in [AppIds -> Oidc!Owners]
    BY DEF Oidc!Init, Oidc!Owners
  <2>4. credential \in [AppIds -> Oidc!Owners]
    BY DEF Oidc!Init, Oidc!Owners
  <2>5. secrets = [s \in Oidc!Secrets |-> None]
    BY DEF Oidc!Init
  <2>6. QED
    BY <2>1, <2>2, <2>3, <2>4, <2>5 DEF CloudTypes
<1>8. \A a \in AppIds : credential[a] = "foreign" => apps[a] # "absent"
  BY DEF Oidc!Init
<1>9. QED
  BY <1>3, <1>4, <1>5, <1>6, <1>7, <1>8, OidcTypes DEF OidcInv, OfApplications,
     Oidc!ClientIsUsable

\* An attempt that ends is idle, and one whose command failed is counted.
LEMMA EndedAttempt ==
  ASSUME Oidc!OidcAssumption, OidcInv, NEW o \in Operators, NEW outcome_ \in OidcOutcomes,
         op' = [op EXCEPT ![o] = Oidc!Idle(outcome_)]
  PROVE  Oidc!Idle(outcome_) \in OidcAttempt /\ Reached(o)' /\ Alone(o)' /\ FirstTime(o)'
<1>1. op'[o] = Oidc!Idle(outcome_)
  BY OidcTypes DEF OidcInv, ScriptTypes
<1>2. op'[o].at = "idle" /\ op'[o].n = 0
  BY <1>1, IdleAttempt
<1>3. Reached(o)' /\ Alone(o)' /\ FirstTime(o)'
  BY <1>2 DEF Reached, Alone, FirstTime, PastVerify, PastSubject, PastCredential, PastPrincipal,
     PastApp, PastGroup,
     PastTemplate, PastRead
<1>4. QED
  BY <1>3, IdleAttempt

LEMMA StoppedAttempt ==
  ASSUME Oidc!OidcAssumption, OidcInv, NEW o \in Operators, Oidc!Stops(o)
  PROVE  /\ op' = [op EXCEPT ![o] = Oidc!Idle("failed")] /\ failures' \in 0 .. FailBound
         /\ Oidc!Idle("failed") \in OidcAttempt /\ Reached(o)' /\ Alone(o)' /\ FirstTime(o)'
<1>1. failures \in 0 .. FailBound /\ FailBound \in Nat
  BY OidcTypes DEF OidcInv, ScriptTypes, Oidc!OidcAssumption
<1>2. op' = [op EXCEPT ![o] = Oidc!Idle("failed")] /\ failures' \in 0 .. FailBound
  BY <1>1 DEF Oidc!Stops
<1>3. "failed" \in OidcOutcomes
  BY DEF OidcOutcomes
<1>4. QED
  BY <1>2, <1>3, EndedAttempt

\* An attempt that only goes on has what the steps before it reached.
LEMMA AttemptOf ==
  ASSUME OidcInv, NEW o \in Operators
  PROVE  /\ op[o] \in OidcAttempt /\ op \in [Operators -> OidcAttempt] /\ keys \in [Operators -> {"none", "half", "pair"}]
         /\ failures \in 0 .. FailBound /\ CloudTypes /\ OfApplications /\ Oidc!ClientIsUsable
         /\ Reached(o) /\ Alone(o) /\ FirstTime(o)
BY OidcTypes DEF OidcInv, ScriptTypes

\* The first commands read only, and what they change is the key pair of the operator.
LEMMA ReadingStep ==
  ASSUME Oidc!OidcAssumption, OidcInv, NEW o \in Operators,
         \/ \E mode_ \in {"plan", "apply"} : Oidc!Start(o, mode_)
         \/ Oidc!CommandFails(o) \/ Oidc!CheckIdentity(o) \/ Oidc!ReadOrCreateSshPublicKey(o) \/ Oidc!ReadGroup(o)
  PROVE  OidcInv' /\ Grows(o)
<1> USE DEF Oidc!Goes, Oidc!MovesTo, Oidc!Refuses, Oidc!At
<1>0. /\ op[o] \in OidcAttempt /\ op \in [Operators -> OidcAttempt]
      /\ keys \in [Operators -> {"none", "half", "pair"}]
      /\ failures \in 0 .. FailBound /\ Reached(o)
  BY AttemptOf
<1>a. {"refused", "none"} \subseteq OidcOutcomes
  BY DEF OidcOutcomes
<1>1. CASE \E mode_ \in {"plan", "apply"} : Oidc!Start(o, mode_)
  <2> PICK mode_ \in {"plan", "apply"} : Oidc!Start(o, mode_)
    BY <1>1
  <2> DEFINE x == [Oidc!Idle("none") EXCEPT !.at = "identity", !.mode = mode_]
  <2>1. op' = [op EXCEPT ![o] = x] /\ UNCHANGED Oidc!cloud /\ UNCHANGED <<keys, failures>>
    BY DEF Oidc!Start
  <2>2. x \in OidcAttempt /\ x.at = "identity" /\ x.n = 0
    <3>1. Oidc!Idle("none") \in OidcAttempt /\ Oidc!Idle("none").n = 0
      BY <1>a, IdleAttempt
    <3>2. QED
      BY <3>1 DEF OidcAttempt, OidcSteps, OidcModes
  <2>3. op'[o] = x
    BY <1>0, <2>1
  <2>4. Reached(o)' /\ Alone(o)' /\ FirstTime(o)'
    BY <2>2, <2>3 DEF Reached, Alone, FirstTime, PastVerify, PastSubject, PastCredential,
       PastPrincipal, PastApp,
       PastGroup, PastTemplate, PastRead
  <2>5. QED
    BY <1>0, <2>1, <2>2, <2>4, OidcReadKeeps
<1>2. CASE Oidc!CommandFails(o)
  <2>1. Oidc!Stops(o) /\ UNCHANGED Oidc!cloud /\ UNCHANGED keys
    BY <1>2 DEF Oidc!CommandFails
  <2>2. QED
    BY <1>0, <2>1, StoppedAttempt, OidcReadKeeps
<1>3. CASE Oidc!CheckIdentity(o)
  <2> DEFINE x == [op[o] EXCEPT !.at = "key"]
  <2>1. /\ op' = [op EXCEPT ![o] = x] /\ UNCHANGED Oidc!cloud /\ UNCHANGED <<keys, failures>>
        /\ op[o].at = "identity"
    BY <1>3 DEF Oidc!CheckIdentity
  <2>2. x \in OidcAttempt /\ x.at = "key" /\ x.n = op[o].n
    BY <1>0 DEF OidcAttempt, OidcSteps
  <2>3. op'[o] = x /\ x.n = 0
    BY <1>0, <2>1, <2>2 DEF Reached
  <2>4. Reached(o)' /\ Alone(o)' /\ FirstTime(o)'
    BY <2>2, <2>3 DEF Reached, Alone, FirstTime, PastVerify, PastSubject, PastCredential,
       PastPrincipal, PastApp,
       PastGroup, PastTemplate, PastRead
  <2>5. QED
    BY <1>0, <2>1, <2>2, <2>4, OidcReadKeeps
<1>4. CASE Oidc!ReadOrCreateSshPublicKey(o)
  <2> DEFINE x == [op[o] EXCEPT !.at = "group"]
  <2>0. /\ UNCHANGED Oidc!cloud /\ op[o].at = "key"
        /\ keys' \in [Operators -> {"none", "half", "pair"}]
    BY <1>0, <1>4 DEF Oidc!ReadOrCreateSshPublicKey
  <2>1. \/ Oidc!Stops(o)
        \/ op' = [op EXCEPT ![o] = Oidc!Idle("refused")] /\ UNCHANGED failures
        \/ op' = [op EXCEPT ![o] = x] /\ UNCHANGED failures
    BY <1>4 DEF Oidc!ReadOrCreateSshPublicKey
  <2>2. CASE Oidc!Stops(o)
    BY <2>0, <2>2, StoppedAttempt, OidcReadKeeps
  <2>3. CASE op' = [op EXCEPT ![o] = Oidc!Idle("refused")] /\ UNCHANGED failures
    <3>1. /\ Oidc!Idle("refused") \in OidcAttempt /\ Reached(o)' /\ Alone(o)' /\ FirstTime(o)'
          /\ failures' \in 0 .. FailBound
      BY <1>0, <1>a, <2>3, EndedAttempt
    <3>2. QED
      BY <2>0, <2>3, <3>1, OidcReadKeeps
  <2>4. CASE op' = [op EXCEPT ![o] = x] /\ UNCHANGED failures
    <3>1. x \in OidcAttempt /\ x.at = "group" /\ x.n = op[o].n
      BY <1>0 DEF OidcAttempt, OidcSteps
    <3>2. op'[o] = x /\ x.n = 0
      BY <1>0, <2>0, <2>4, <3>1 DEF Reached
    <3>3. Reached(o)' /\ Alone(o)' /\ FirstTime(o)'
      BY <3>1, <3>2 DEF Reached, Alone, FirstTime, PastVerify, PastSubject, PastCredential,
         PastPrincipal, PastApp,
         PastGroup, PastTemplate, PastRead
    <3>4. QED
      BY <1>0, <2>0, <2>4, <3>1, <3>3, OidcReadKeeps
  <2>5. QED
    BY <2>1, <2>2, <2>3, <2>4
<1>5. CASE Oidc!ReadGroup(o)
  <2> DEFINE x == [op[o] EXCEPT !.at = "app", !.group = group # "absent"]
  <2>0. UNCHANGED Oidc!cloud /\ UNCHANGED <<keys, failures>> /\ op[o].at = "group"
    BY <1>5 DEF Oidc!ReadGroup
  <2>1. CASE group = "foreign"
    <3>1. op' = [op EXCEPT ![o] = Oidc!Idle("refused")]
      BY <1>5, <2>1 DEF Oidc!ReadGroup, Oidc!ValidGroup
    <3>2. Oidc!Idle("refused") \in OidcAttempt /\ Reached(o)' /\ Alone(o)' /\ FirstTime(o)'
      BY <1>a, <3>1, EndedAttempt
    <3>3. QED
      BY <1>0, <2>0, <3>1, <3>2, OidcReadKeeps
  <2>2. CASE group # "foreign"
    <3>1. op' = [op EXCEPT ![o] = x]
      BY <1>5, <2>2 DEF Oidc!ReadGroup, Oidc!ValidGroup
    <3>2. x \in OidcAttempt /\ x.at = "app" /\ x.n = op[o].n /\ x.group = (group # "absent")
      BY <1>0 DEF OidcAttempt, OidcSteps
    <3>3. op'[o] = x /\ x.n = 0 /\ group' # "foreign" /\ (x.group => group' = "ours")
      BY <1>0, <2>0, <2>2, <3>1, <3>2, AttemptOf DEF Reached, CloudTypes, Oidc!Owners,
         Oidc!cloud, Oidc!azure
    <3>4. Reached(o)' /\ Alone(o)' /\ FirstTime(o)'
      BY <3>2, <3>3 DEF Reached, Alone, FirstTime, PastVerify, PastSubject, PastCredential,
         PastPrincipal, PastApp,
         PastGroup, PastTemplate, PastRead
    <3>5. QED
      BY <1>0, <2>0, <3>1, <3>2, <3>4, OidcReadKeeps
  <2>3. QED
    BY <2>1, <2>2
<1>6. QED
  BY <1>1, <1>2, <1>3, <1>4, <1>5

\* With at most one application of the name, the one that is read is the only one.
LEMMA AtMostOneNamed ==
  ASSUME Oidc!OidcAssumption, ~ Oidc!Cardinality(Oidc!Named) > 1
  PROVE  \A a, b \in Oidc!Named : a = b
<1>1. IsFiniteSet(AppIds)
  BY DEF Oidc!OidcAssumption, Oidc!IsFiniteSet, IsFiniteSet
<1>2. IsFiniteSet(Oidc!Named) /\ Oidc!Named \subseteq AppIds
  BY <1>1, FS_Subset DEF Oidc!Named
<1>3. Cardinality(Oidc!Named) \in Nat /\ ~ Cardinality(Oidc!Named) > 1
  BY <1>2, FS_CardinalityType DEF Oidc!Cardinality, Cardinality, Oidc!IsFiniteSet, IsFiniteSet
<1>4. ASSUME NEW a \in Oidc!Named, NEW b \in Oidc!Named, a # b PROVE FALSE
  <2>1. IsFiniteSet({a, b}) /\ Cardinality({a, b}) = 2
    <3>1. IsFiniteSet({b}) /\ Cardinality({b}) = 1
      BY FS_Singleton
    <3>2. QED
      BY <1>4, <3>1, FS_AddElement, {a, b} = {b} \union {a}
  <2>2. Cardinality({a, b}) <= Cardinality(Oidc!Named)
    BY <1>2, FS_Subset, {a, b} \subseteq Oidc!Named
  <2>3. QED
    BY <1>3, <2>1, <2>2
<1>5. QED
  BY <1>4

LEMMA GetExistingApplicationStep ==
  ASSUME Oidc!OidcAssumption, OidcInv, NEW o \in Operators, Oidc!GetExistingApplication(o)
  PROVE  OidcInv' /\ Grows(o)
<1> USE DEF Oidc!Goes, Oidc!MovesTo, Oidc!Refuses, Oidc!At
<1> DEFINE found == IF Oidc!Named = {} THEN None ELSE CHOOSE a \in Oidc!Named : TRUE
<1> DEFINE x == [op[o] EXCEPT !.at = "subject", !.app = found]
<1>0. /\ op[o] \in OidcAttempt /\ op \in [Operators -> OidcAttempt]
      /\ keys \in [Operators -> {"none", "half", "pair"}]
      /\ failures \in 0 .. FailBound /\ CloudTypes /\ OfApplications /\ Reached(o)
  BY AttemptOf
<1>1. UNCHANGED Oidc!cloud /\ UNCHANGED <<keys, failures>> /\ op[o].at = "app"
  BY DEF Oidc!GetExistingApplication
<1>2. CASE Oidc!Cardinality(Oidc!Named) > 1 \/ \E a \in Oidc!Named : apps[a] = "foreign"
  <2>1. op' = [op EXCEPT ![o] = Oidc!Idle("refused")]
    BY <1>2 DEF Oidc!GetExistingApplication
  <2>2. "refused" \in OidcOutcomes
    BY DEF OidcOutcomes
  <2>3. Oidc!Idle("refused") \in OidcAttempt /\ Reached(o)' /\ Alone(o)' /\ FirstTime(o)'
    BY <2>1, <2>2, EndedAttempt
  <2>4. QED
    BY <1>0, <1>1, <2>1, <2>3, OidcReadKeeps
<1>3. CASE ~ (Oidc!Cardinality(Oidc!Named) > 1 \/ \E a \in Oidc!Named : apps[a] = "foreign")
  <2>1. op' = [op EXCEPT ![o] = x]
    BY <1>3 DEF Oidc!GetExistingApplication
  <2>2. \A a, b \in Oidc!Named : a = b
    BY <1>3, AtMostOneNamed
  <2>3. found = None \/ found \in Oidc!Named
    OBVIOUS
  <2>4. Oidc!Named \subseteq AppIds /\ None \notin AppIds /\ (found = None => Oidc!Named = {})
    BY DEF Oidc!Named, Oidc!OidcAssumption
  <2>5. /\ x \in OidcAttempt /\ x.at = "subject" /\ x.app = found /\ x.n = 0
        /\ x.group = op[o].group /\ op'[o] = x
    <3>1. found \in AppIds \union {None}
      BY <2>3, <2>4
    <3>2. /\ x \in OidcAttempt /\ x.at = "subject" /\ x.app = found /\ x.n = op[o].n
          /\ x.group = op[o].group
      BY <1>0, <3>1 DEF OidcAttempt, OidcSteps
    <3>3. op'[o] = x
      BY <1>0, <2>1
    <3>4. QED
      BY <1>0, <1>1, <3>2, <3>3 DEF Reached
  <2>6. UNCHANGED <<group, apps, credential, secrets>>
    BY <1>1 DEF Oidc!cloud, Oidc!azure, Oidc!github
  <2>7. found # None => apps[found] = "ours"
    BY <1>0, <1>3, <2>3 DEF CloudTypes, Oidc!Owners, Oidc!Named
  <2>8. group # "foreign" /\ (op[o].group => group = "ours")
    BY <1>0, <1>1 DEF Reached
  <2>9. Reached(o)'
    BY <2>5, <2>6, <2>7, <2>8 DEF Reached, PastVerify, PastSubject, PastCredential,
       PastPrincipal, PastApp, PastGroup,
       PastTemplate, PastRead
  <2>10. Alone(o)'
    <3>1. \A a \in AppIds : apps[a] # "foreign"
      BY <1>3 DEF Oidc!Named
    <3>2. \A a \in AppIds : credential[a] = "foreign" => a \in Oidc!Named
      BY <1>0 DEF OfApplications, Oidc!Named
    <3>3. /\ found = None => \A a \in AppIds : credential[a] # "foreign"
          /\ found # None => \A a \in AppIds : credential[a] = "foreign" => a = found
      BY <2>2, <2>3, <2>4, <3>2
    <3>4. QED
      BY <2>5, <2>6, <3>1, <3>3 DEF Alone
  <2>11. FirstTime(o)'
    <3>1. found = None => \A s \in Oidc!Secrets : secrets[s] = None
      BY <1>0, <2>4 DEF OfApplications, Oidc!Named
    <3>2. o # None
      BY DEF Oidc!OidcAssumption
    <3>3. QED
      BY <2>5, <2>6, <3>1, <3>2 DEF FirstTime
  <2>12. QED
    BY <1>0, <1>1, <2>1, <2>5, <2>9, <2>10, <2>11, OidcReadKeeps
<1>4. QED
  BY <1>2, <1>3

\* The commands after it that read only.
LEMMA LaterReadingStep ==
  ASSUME Oidc!OidcAssumption, OidcInv, NEW o \in Operators,
         \/ Oidc!CheckSubject(o) \/ Oidc!Plan(o) \/ Oidc!VerifySubject(o) \/ Oidc!ListRoles(o) \/ Oidc!VerifySecrets(o)
  PROVE  OidcInv' /\ Grows(o)
<1> USE DEF Oidc!Goes, Oidc!MovesTo, Oidc!Refuses, Oidc!At
<1>0. /\ op[o] \in OidcAttempt /\ op \in [Operators -> OidcAttempt]
      /\ keys \in [Operators -> {"none", "half", "pair"}]
      /\ failures \in 0 .. FailBound /\ CloudTypes /\ Reached(o) /\ Alone(o) /\ FirstTime(o)
  BY AttemptOf
<1>1. UNCHANGED Oidc!cloud /\ UNCHANGED <<keys, failures>>
  BY DEF Oidc!CheckSubject, Oidc!Plan, Oidc!VerifySubject, Oidc!ListRoles, Oidc!VerifySecrets
<1>2. UNCHANGED <<group, apps, principals, credential, roles, template, immutable, secrets>>
  BY <1>1 DEF Oidc!cloud, Oidc!azure, Oidc!github
<1>3. ASSUME NEW outcome_ \in OidcOutcomes, op' = [op EXCEPT ![o] = Oidc!Idle(outcome_)]
      PROVE  OidcInv' /\ Grows(o)
  <2>1. Oidc!Idle(outcome_) \in OidcAttempt /\ Reached(o)' /\ Alone(o)' /\ FirstTime(o)'
    BY <1>3, EndedAttempt
  <2>2. QED
    BY <1>0, <1>1, <1>3, <2>1, OidcReadKeeps
<1>4. {"refused", "planned", "applied"} \subseteq OidcOutcomes
  BY DEF OidcOutcomes
\* An attempt that goes on, from a step behind the reading of the application to another.
<1>5. ASSUME NEW x \in OidcAttempt, op' = [op EXCEPT ![o] = x], op[o].at \in PastRead, x.at \in PastRead,
             x.app = op[o].app, Reached(o)'
      PROVE  OidcInv' /\ Grows(o)
  <2>1. op'[o] = x
    BY <1>0, <1>5
  <2>2. Alone(o)' /\ FirstTime(o)'
    BY <1>0, <1>2, <1>5, <2>1 DEF Alone, FirstTime
  <2>3. QED
    BY <1>0, <1>1, <1>5, <2>2, OidcReadKeeps
<1>6. CASE Oidc!CheckSubject(o)
  <2>1. CASE template = "custom"
    <3>1. op' = [op EXCEPT ![o] = Oidc!Idle("refused")]
      BY <1>6, <2>1 DEF Oidc!CheckSubject
    <3>2. QED
      BY <1>3, <1>4, <3>1
  <2>2. CASE template # "custom"
    <3> DEFINE at == IF ~ Oidc!Apply(o) THEN "plan" ELSE IF op[o].group THEN "create_app" ELSE "create_group"
    <3> DEFINE x == [op[o] EXCEPT !.at = at]
    <3>1. op' = [op EXCEPT ![o] = x] /\ op[o].at = "subject" /\ template = "default"
      BY <1>0, <1>6, <2>2 DEF Oidc!CheckSubject, CloudTypes
    <3>2. at \in {"plan", "create_app", "create_group"} /\ (at = "create_app" => op[o].group)
      OBVIOUS
    <3>3. /\ x \in OidcAttempt /\ x.at = at /\ x.app = op[o].app /\ x.group = op[o].group
          /\ x.n = op[o].n
      BY <1>0, <3>2 DEF OidcAttempt, OidcSteps
    <3>4. op'[o] = x
      BY <1>0, <3>1
    <3> HIDE DEF x, at
    <3>5. Reached(o)' /\ op[o].at \in PastRead /\ x.at \in PastRead
      BY <1>0, <1>2, <3>1, <3>2, <3>3, <3>4 DEF Reached, PastVerify, PastSubject,
         PastCredential, PastPrincipal, PastApp,
         PastGroup, PastTemplate, PastRead
    <3>6. QED
      BY <1>5, <3>1, <3>3, <3>5
  <2>3. QED
    BY <2>1, <2>2
<1>7. CASE Oidc!Plan(o)
  <2>1. \/ op' = [op EXCEPT ![o] = Oidc!Idle("refused")] \/ op' = [op EXCEPT ![o] = Oidc!Idle("planned")]
    BY <1>7 DEF Oidc!Plan
  <2>2. QED
    BY <1>3, <1>4, <2>1
<1>8. CASE Oidc!VerifySubject(o)
  <2>1. CASE ~ immutable
    <3>1. op' = [op EXCEPT ![o] = Oidc!Idle("refused")]
      BY <1>8, <2>1 DEF Oidc!VerifySubject
    <3>2. QED
      BY <1>3, <1>4, <3>1
  <2>2. CASE immutable
    <3> DEFINE x == [op[o] EXCEPT !.at = "list_roles"]
    <3>1. op' = [op EXCEPT ![o] = x] /\ op[o].at = "verify_subject"
      BY <1>8, <2>2 DEF Oidc!VerifySubject
    <3>2. /\ x \in OidcAttempt /\ x.at = "list_roles" /\ x.app = op[o].app
          /\ x.group = op[o].group /\ x.n = op[o].n
      BY <1>0 DEF OidcAttempt, OidcSteps
    <3>3. op'[o] = x
      BY <1>0, <3>1
    <3> HIDE DEF x
    <3>4. Reached(o)' /\ op[o].at \in PastRead /\ x.at \in PastRead
      BY <1>0, <1>2, <2>2, <3>1, <3>2, <3>3 DEF Reached, PastVerify, PastSubject,
         PastCredential, PastPrincipal,
         PastApp, PastGroup, PastTemplate, PastRead
    <3>5. QED
      BY <1>5, <3>1, <3>2, <3>4
  <2>3. QED
    BY <2>1, <2>2
<1>9. CASE Oidc!ListRoles(o)
  <2> DEFINE x == [op[o] EXCEPT !.at = "assign", !.todo = Oidc!Missing(op[o].app)]
  <2>1. op' = [op EXCEPT ![o] = x] /\ op[o].at = "list_roles"
    BY <1>9 DEF Oidc!ListRoles
  <2>2. /\ x \in OidcAttempt /\ x.at = "assign" /\ x.app = op[o].app /\ x.group = op[o].group
        /\ x.n = op[o].n
        /\ x.todo = AccessRoles \ roles[op[o].app]
    BY <1>0 DEF OidcAttempt, OidcSteps, Oidc!Missing
  <2>3. op'[o] = x
    BY <1>0, <2>1
  <2> HIDE DEF x
  <2>4. Reached(o)' /\ op[o].at \in PastRead /\ x.at \in PastRead
    BY <1>0, <1>2, <2>1, <2>2, <2>3 DEF Reached, PastVerify, PastSubject, PastCredential,
       PastPrincipal,
       PastApp, PastGroup, PastTemplate, PastRead
  <2>5. QED
    BY <1>5, <2>1, <2>2, <2>4
<1>10. CASE Oidc!VerifySecrets(o)
  <2>1. \/ op' = [op EXCEPT ![o] = Oidc!Idle("refused")] \/ op' = [op EXCEPT ![o] = Oidc!Idle("applied")]
    BY <1>10 DEF Oidc!VerifySecrets
  <2>2. QED
    BY <1>3, <1>4, <2>1
<1>11. QED
  BY <1>6, <1>7, <1>8, <1>9, <1>10

\* What is published stays usable while the secrets rest.
LEMMA GrowthKeepsWhatIsPublished ==
  ASSUME OidcInv, NEW o \in Operators, CloudTypes', Grows(o), UNCHANGED secrets
  PROVE  OfApplications' /\ Oidc!ClientIsUsable'
<1>0. CloudTypes /\ OfApplications /\ Oidc!ClientIsUsable
  BY AttemptOf, OidcTypes DEF OidcInv
<1>1. OfApplications'
  BY <1>0 DEF OfApplications, Grows
<1>2. Oidc!ClientIsUsable'
  <2>1. CASE secrets[ClientId] = None
    BY <2>1 DEF Oidc!ClientIsUsable
  <2>2. CASE secrets[ClientId] # None
    <3>1. Oidc!Usable(secrets[ClientId])
      BY <1>0, <2>2 DEF Oidc!ClientIsUsable
    <3>2. Oidc!Usable(secrets[ClientId])'
      BY <1>0, <3>1 DEF Oidc!Usable, Grows, CloudTypes
    <3>3. QED
      BY <3>2 DEF Oidc!ClientIsUsable
  <2>3. QED
    BY <2>1, <2>2
<1>3. QED
  BY <1>1, <1>2

\* A command that writes, and the attempt that goes on after it or sees it fail.
LEMMA WritingStepKeeps ==
  ASSUME Oidc!OidcAssumption, OidcInv, NEW o \in Operators, op[o].at \in PastRead,
         CloudTypes', Grows(o), UNCHANGED keys, OfApplications', Oidc!ClientIsUsable',
         \/ Oidc!Stops(o)
         \/ op' = [op EXCEPT ![o] = Oidc!Idle("refused")] /\ UNCHANGED failures
         \/ \E x \in OidcAttempt : /\ op' = [op EXCEPT ![o] = x] /\ UNCHANGED failures /\ Reached(o)'
                                   /\ x.app = op[o].app /\ (x.app = None => UNCHANGED secrets)
  PROVE  OidcInv'
<1>0. /\ op[o] \in OidcAttempt /\ op \in [Operators -> OidcAttempt]
      /\ keys' \in [Operators -> {"none", "half", "pair"}]
      /\ failures \in 0 .. FailBound /\ Alone(o) /\ FirstTime(o)
  BY AttemptOf
<1>1. CASE Oidc!Stops(o)
  BY <1>0, <1>1, StoppedAttempt, OidcStepKeeps
<1>2. CASE op' = [op EXCEPT ![o] = Oidc!Idle("refused")] /\ UNCHANGED failures
  <2>1. "refused" \in OidcOutcomes
    BY DEF OidcOutcomes
  <2>2. /\ Oidc!Idle("refused") \in OidcAttempt /\ Reached(o)' /\ Alone(o)' /\ FirstTime(o)'
        /\ failures' \in 0 .. FailBound
    BY <1>0, <1>2, <2>1, EndedAttempt
  <2>3. QED
    BY <1>0, <1>2, <2>2, OidcStepKeeps
<1>3. ASSUME NEW x \in OidcAttempt, op' = [op EXCEPT ![o] = x], UNCHANGED failures, Reached(o)',
             x.app = op[o].app, x.app = None => UNCHANGED secrets
      PROVE  OidcInv'
  <2>1. op'[o] = x
    BY <1>0, <1>3
  <2>2. Alone(o)'
    BY <1>0, <1>3, <2>1 DEF Alone, Grows
  <2>3. FirstTime(o)'
    BY <1>0, <1>3, <2>1 DEF FirstTime
  <2>4. failures' \in 0 .. FailBound
    BY <1>0, <1>3
  <2>5. QED
    BY <1>0, <1>3, <2>2, <2>3, <2>4, OidcStepKeeps
<1>4. QED
  BY <1>1, <1>2, <1>3

\* The group, the principal, the credential and the subject template.
LEMMA WritingStep ==
  ASSUME Oidc!OidcAssumption, OidcInv, NEW o \in Operators,
         \/ Oidc!CreateGroup(o) \/ Oidc!EnsurePrincipal(o) \/ Oidc!EnsureCredential(o) \/ Oidc!PutSubject(o)
  PROVE  OidcInv' /\ Grows(o)
<1> USE DEF Oidc!Goes, Oidc!MovesTo, Oidc!Refuses, Oidc!At
<1>0. op[o] \in OidcAttempt /\ op \in [Operators -> OidcAttempt] /\ CloudTypes /\ Reached(o)
  BY AttemptOf
<1>1. CASE Oidc!CreateGroup(o)
  <2>1. /\ op[o].at = "create_group" /\ group' = "ours" /\ UNCHANGED keys
        /\ UNCHANGED <<apps, principals, credential, roles, template, immutable, secrets>>
    BY <1>1 DEF Oidc!CreateGroup, Oidc!github
  <2>2. op[o].at \in PastRead /\ op[o].at \in PastTemplate /\ group # "foreign"
    BY <1>0, <2>1 DEF Reached, PastTemplate, PastRead
  <2>3. CloudTypes' /\ Grows(o)
    BY <1>0, <2>1, <2>2 DEF CloudTypes, Grows, Oidc!Owners, Oidc!Named
  <2>4. OfApplications' /\ Oidc!ClientIsUsable'
    BY <2>1, <2>3, GrowthKeepsWhatIsPublished
  <2> DEFINE x == [op[o] EXCEPT !.at = "create_app"]
  <2>5. Oidc!Stops(o) \/ (op' = [op EXCEPT ![o] = x] /\ UNCHANGED failures)
    BY <1>1 DEF Oidc!CreateGroup
  <2>6. /\ x \in OidcAttempt /\ x.at = "create_app" /\ x.app = op[o].app
        /\ x.group = op[o].group /\ x.n = op[o].n
    BY <1>0 DEF OidcAttempt, OidcSteps
  <2>7. ASSUME op' = [op EXCEPT ![o] = x] PROVE Reached(o)'
    <3>1. op'[o] = x
      BY <1>0, <2>7
    <3> HIDE DEF x
    <3>2. QED
      BY <1>0, <2>1, <2>6, <3>1 DEF Reached, PastVerify, PastSubject, PastCredential,
         PastPrincipal, PastApp,
         PastGroup, PastTemplate, PastRead
  <2> HIDE DEF x
  <2>8. QED
    BY <2>1, <2>2, <2>3, <2>4, <2>5, <2>6, <2>7, WritingStepKeeps
<1>2. CASE Oidc!EnsurePrincipal(o)
  <2>1. /\ op[o].at = "principal" /\ principals' = principals \union {op[o].app}
        /\ UNCHANGED keys
        /\ UNCHANGED <<group, apps, credential, roles, template, immutable, secrets>>
    BY <1>2 DEF Oidc!EnsurePrincipal, Oidc!github
  <2>2. op[o].at \in PastRead /\ op[o].at \in PastApp /\ op[o].app # None
    BY <1>0, <2>1 DEF Reached, PastApp, PastGroup, PastTemplate, PastRead
  <2>3. op[o].app \in AppIds /\ apps[op[o].app] = "ours"
    BY <1>0, <2>2 DEF Reached, OidcAttempt
  <2>4. CloudTypes' /\ Grows(o)
    BY <1>0, <2>1, <2>3 DEF CloudTypes, Grows, Oidc!Owners, Oidc!Named
  <2>5. OfApplications' /\ Oidc!ClientIsUsable'
    BY <2>1, <2>4, GrowthKeepsWhatIsPublished
  <2> DEFINE x == [op[o] EXCEPT !.at = "credential"]
  <2>6. Oidc!Stops(o) \/ (op' = [op EXCEPT ![o] = x] /\ UNCHANGED failures)
    BY <1>2 DEF Oidc!EnsurePrincipal
  <2>7. /\ x \in OidcAttempt /\ x.at = "credential" /\ x.app = op[o].app
        /\ x.group = op[o].group /\ x.n = op[o].n
    BY <1>0 DEF OidcAttempt, OidcSteps
  <2>8. ASSUME op' = [op EXCEPT ![o] = x] PROVE Reached(o)'
    <3>1. op'[o] = x
      BY <1>0, <2>8
    <3> HIDE DEF x
    <3>2. QED
      BY <1>0, <2>1, <2>3, <2>7, <3>1 DEF Reached, PastVerify, PastSubject, PastCredential,
         PastPrincipal, PastApp,
         PastGroup, PastTemplate, PastRead
  <2> HIDE DEF x
  <2>9. QED
    BY <2>1, <2>2, <2>4, <2>5, <2>6, <2>7, <2>8, WritingStepKeeps
<1>3. CASE Oidc!EnsureCredential(o)
  <2> DEFINE a == op[o].app
  <2>1. /\ op[o].at = "credential" /\ UNCHANGED keys
        /\ UNCHANGED <<group, apps, principals, roles, template, immutable, secrets>>
    BY <1>3 DEF Oidc!EnsureCredential, Oidc!github
  <2>2. op[o].at \in PastRead /\ op[o].at \in PastPrincipal /\ op[o].at \in PastApp /\ a # None
    BY <1>0, <2>1 DEF Reached, PastPrincipal, PastApp, PastGroup, PastTemplate, PastRead
  <2>3. a \in AppIds /\ apps[a] = "ours"
    BY <1>0, <2>2 DEF Reached, OidcAttempt
  <2>4. \/ credential[a] # "absent" /\ credential' = credential
        \/ credential[a] = "absent" /\ credential' = [credential EXCEPT ![a] = "ours"]
    BY <1>3 DEF Oidc!EnsureCredential
  <2>5. CloudTypes' /\ Grows(o)
    <3>1. credential' \in [AppIds -> Oidc!Owners]
      BY <1>0, <2>4 DEF CloudTypes, Oidc!Owners
    <3>2. CloudTypes'
      BY <1>0, <2>1, <3>1 DEF CloudTypes, Oidc!Named
    <3>3. \A b \in AppIds : /\ credential[b] # "absent" => credential'[b] = credential[b]
                            /\ credential'[b] = "foreign" => credential[b] = "foreign"
      BY <1>0, <2>3, <2>4 DEF CloudTypes
    <3>4. QED
      BY <2>1, <3>2, <3>3 DEF Grows
  <2>6. OfApplications' /\ Oidc!ClientIsUsable'
    BY <2>1, <2>5, GrowthKeepsWhatIsPublished
  <2> DEFINE x == [op[o] EXCEPT !.at = "put_subject"]
  <2>7. \/ Oidc!Stops(o)
        \/ op' = [op EXCEPT ![o] = Oidc!Idle("refused")] /\ UNCHANGED failures
        \/ op' = [op EXCEPT ![o] = x] /\ UNCHANGED failures /\ credential'[a] = "ours"
    BY <1>0, <1>3, <2>3 DEF Oidc!EnsureCredential, Oidc!ValidCredential, CloudTypes, Oidc!Owners
  <2>8. /\ x \in OidcAttempt /\ x.at = "put_subject" /\ x.app = op[o].app
        /\ x.group = op[o].group /\ x.n = op[o].n
    BY <1>0 DEF OidcAttempt, OidcSteps
  <2>9. ASSUME op' = [op EXCEPT ![o] = x], credential'[a] = "ours" PROVE Reached(o)'
    <3>1. op'[o] = x
      BY <1>0, <2>9
    <3> HIDE DEF x
    <3>2. QED
      BY <1>0, <2>1, <2>3, <2>8, <2>9, <3>1 DEF Reached, PastVerify, PastSubject,
         PastCredential, PastPrincipal, PastApp,
         PastGroup, PastTemplate, PastRead
  <2> HIDE DEF x
  <2>10. QED
    BY <2>1, <2>2, <2>5, <2>6, <2>7, <2>8, <2>9, WritingStepKeeps
<1>4. CASE Oidc!PutSubject(o)
  <2>1. /\ op[o].at = "put_subject" /\ template' = "default" /\ immutable' = TRUE
        /\ UNCHANGED keys
        /\ UNCHANGED <<group, apps, principals, credential, roles, secrets>>
    BY <1>4 DEF Oidc!PutSubject, Oidc!azure
  <2>2. /\ op[o].at \in PastRead /\ op[o].at \in PastTemplate /\ op[o].at \in PastApp
        /\ op[o].app # None
        /\ template = "default"
    BY <1>0, <2>1 DEF Reached, PastCredential, PastPrincipal, PastApp, PastGroup, PastTemplate,
       PastRead
  <2>3. CloudTypes' /\ Grows(o)
    BY <1>0, <2>1, <2>2 DEF CloudTypes, Grows, Oidc!Owners, Oidc!Named
  <2>4. OfApplications' /\ Oidc!ClientIsUsable'
    BY <2>1, <2>3, GrowthKeepsWhatIsPublished
  <2> DEFINE x == [op[o] EXCEPT !.at = "verify_subject"]
  <2>5. Oidc!Stops(o) \/ (op' = [op EXCEPT ![o] = x] /\ UNCHANGED failures)
    BY <1>4 DEF Oidc!PutSubject
  <2>6. /\ x \in OidcAttempt /\ x.at = "verify_subject" /\ x.app = op[o].app
        /\ x.group = op[o].group /\ x.n = op[o].n
    BY <1>0 DEF OidcAttempt, OidcSteps
  <2>7. ASSUME op' = [op EXCEPT ![o] = x] PROVE Reached(o)'
    <3>1. op'[o] = x
      BY <1>0, <2>7
    <3> HIDE DEF x
    <3>2. QED
      BY <1>0, <2>1, <2>6, <3>1 DEF Reached, PastVerify, PastSubject, PastCredential,
         PastPrincipal, PastApp,
         PastGroup, PastTemplate, PastRead
  <2> HIDE DEF x
  <2>8. QED
    BY <2>1, <2>2, <2>3, <2>4, <2>5, <2>6, <2>7, WritingStepKeeps
<1>5. QED
  BY <1>1, <1>2, <1>3, <1>4

\* The application: the one that was read, or a new one.
LEMMA CreateApplicationStep ==
  ASSUME Oidc!OidcAssumption, OidcInv, NEW o \in Operators, Oidc!CreateApplication(o)
  PROVE  OidcInv' /\ Grows(o)
<1> USE DEF Oidc!Goes, Oidc!MovesTo, Oidc!Refuses, Oidc!At
<1>0. /\ op[o] \in OidcAttempt /\ op \in [Operators -> OidcAttempt] /\ CloudTypes /\ Reached(o)
      /\ Alone(o)
      /\ keys \in [Operators -> {"none", "half", "pair"}] /\ failures \in 0 .. FailBound
  BY AttemptOf
<1>1. /\ op[o].at = "create_app" /\ UNCHANGED keys
      /\ UNCHANGED <<group, principals, credential, roles, template, immutable, secrets>>
  BY DEF Oidc!CreateApplication, Oidc!github
<1>2. /\ op[o].at \in PastRead /\ op[o].at \in PastTemplate /\ group = "ours"
      /\ template = "default" /\ op[o].n = 0
      /\ group # "foreign" /\ (op[o].group => group = "ours")
  BY <1>0, <1>1 DEF Reached, PastGroup, PastTemplate, PastRead
<1>3. CASE Oidc!Reuses(o)
  <2> DEFINE x == [op[o] EXCEPT !.at = "principal"]
  <2>1. apps' = apps /\ op' = [op EXCEPT ![o] = x] /\ UNCHANGED failures
    BY <1>3 DEF Oidc!CreateApplication
  <2>2. CloudTypes' /\ Grows(o)
    BY <1>0, <1>1, <2>1 DEF CloudTypes, Grows, Oidc!Owners, Oidc!Named
  <2>3. OfApplications' /\ Oidc!ClientIsUsable'
    BY <1>1, <2>2, GrowthKeepsWhatIsPublished
  <2>4. /\ x \in OidcAttempt /\ x.at = "principal" /\ x.app = op[o].app /\ x.group = op[o].group
        /\ x.n = op[o].n
    BY <1>0 DEF OidcAttempt, OidcSteps
  <2>5. op'[o] = x /\ x.app # None
    BY <1>0, <1>3, <2>1, <2>4 DEF Oidc!Reuses
  <2> HIDE DEF x
  <2>6. Reached(o)'
    BY <1>0, <1>1, <1>2, <2>1, <2>4, <2>5 DEF Reached, PastVerify, PastSubject, PastCredential,
       PastPrincipal, PastApp,
       PastGroup, PastTemplate, PastRead
  <2>7. QED
    BY <1>1, <1>2, <2>1, <2>2, <2>3, <2>4, <2>6, WritingStepKeeps
<1>4. CASE ~ Oidc!Reuses(o)
  <2>1. PICK a \in AppIds \ Oidc!Named :
          /\ apps' = [apps EXCEPT ![a] = "ours"]
          /\ \/ op' = [op EXCEPT ![o] = [op[o] EXCEPT !.at = "principal", !.app = a]] /\ UNCHANGED failures
             \/ Oidc!Stops(o)
    BY <1>4 DEF Oidc!CreateApplication
  <2>2. apps[a] = "absent" /\ a \in AppIds /\ a # None
    BY <2>1 DEF Oidc!Named, Oidc!OidcAssumption
  <2>3. apps' \in [AppIds -> Oidc!Owners] /\ Oidc!Named \subseteq Oidc!Named'
    BY <1>0, <2>1 DEF CloudTypes, Oidc!Owners, Oidc!Named
  <2>4. CloudTypes'
    BY <1>0, <1>1, <2>3 DEF CloudTypes
  <2>5. Grows(o)
    BY <1>0, <1>1, <2>1, <2>2 DEF CloudTypes, Grows
  <2>6. OfApplications' /\ Oidc!ClientIsUsable'
    BY <1>1, <2>4, <2>5, GrowthKeepsWhatIsPublished
  <2>7. CASE Oidc!Stops(o)
    BY <1>1, <1>2, <2>4, <2>5, <2>6, <2>7, WritingStepKeeps
  <2> DEFINE x == [op[o] EXCEPT !.at = "principal", !.app = a]
  <2>8. CASE op' = [op EXCEPT ![o] = x] /\ UNCHANGED failures
    <3>1. /\ x \in OidcAttempt /\ x.at = "principal" /\ x.app = a /\ x.group = op[o].group
          /\ x.n = op[o].n
      BY <1>0 DEF OidcAttempt, OidcSteps
    <3>2. op'[o] = x
      BY <1>0, <2>8
    <3> HIDE DEF x
    <3>3. apps'[a] = "ours"
      BY <1>0, <2>1 DEF CloudTypes
    <3>4. Reached(o)'
      BY <1>1, <1>2, <2>2, <3>1, <3>2, <3>3 DEF Reached, PastVerify, PastSubject,
         PastCredential, PastPrincipal, PastApp,
         PastGroup, PastTemplate, PastRead
    <3>5. op[o].app = None
      BY <1>4 DEF Oidc!Reuses
    <3>6. Alone(o)'
      BY <1>0, <1>1, <1>2, <2>5, <3>1, <3>2, <3>5 DEF Alone, Grows
    <3>7. FirstTime(o)'
      BY <2>2, <3>1, <3>2 DEF FirstTime
    <3>8. QED
      BY <1>0, <1>1, <2>4, <2>5, <2>6, <2>8, <3>1, <3>4, <3>6, <3>7, OidcStepKeeps
  <2>9. QED
    BY <2>1, <2>5, <2>7, <2>8
<1>5. QED
  BY <1>3, <1>4

LEMMA AssignRoleStep ==
  ASSUME Oidc!OidcAssumption, OidcInv, NEW o \in Operators, Oidc!AssignRole(o)
  PROVE  OidcInv' /\ Grows(o)
<1> USE DEF Oidc!Goes, Oidc!MovesTo, Oidc!Refuses, Oidc!At
<1> DEFINE a == op[o].app
<1>0. op[o] \in OidcAttempt /\ op \in [Operators -> OidcAttempt] /\ CloudTypes /\ Reached(o)
  BY AttemptOf
<1>1. /\ op[o].at = "assign" /\ UNCHANGED keys
      /\ UNCHANGED <<group, apps, principals, credential, template, immutable, secrets>>
  BY DEF Oidc!AssignRole, Oidc!github
<1>2. op[o].at \in PastRead /\ op[o].at \in PastApp /\ a # None /\ op[o].n = 0
  BY <1>0, <1>1 DEF Reached, PastVerify, PastSubject, PastCredential, PastPrincipal, PastApp,
     PastGroup, PastTemplate,
     PastRead
<1>3. /\ a \in AppIds /\ roles[a] \subseteq AccessRoles
      /\ AccessRoles \ op[o].todo \subseteq roles[a] /\ op[o].todo \subseteq AccessRoles
  BY <1>0, <1>1, <1>2 DEF Reached, OidcAttempt, CloudTypes
\* What an attempt beyond this one says, from the roles there are and those that are left.
<1>4. ASSUME NEW x \in OidcAttempt, op'[o] = x, x.app = a, x.group = op[o].group,
             \/ x.at = "assign" /\ AccessRoles \ x.todo \subseteq roles'[a] /\ x.n = 0
             \/ x.at = "secret" /\ roles'[a] = AccessRoles /\ x.n = 0
      PROVE  Reached(o)'
  <2>1. 0 < Len(SecretSeq)
    BY DEF Oidc!OidcAssumption, Oidc!Secrets
  <2>2. QED
    BY <1>0, <1>1, <1>2, <1>4, <2>1 DEF Reached, PastVerify, PastSubject, PastCredential,
       PastPrincipal, PastApp,
       PastGroup, PastTemplate, PastRead
<1>5. CASE /\ op[o].todo = {} /\ op' = [op EXCEPT ![o] = [op[o] EXCEPT !.at = "secret"]]
           /\ UNCHANGED <<failures, roles>>
  <2> DEFINE x == [op[o] EXCEPT !.at = "secret"]
  <2>1. roles'[a] = AccessRoles
    BY <1>3, <1>5
  <2>2. x \in OidcAttempt /\ x.at = "secret" /\ x.app = a /\ x.group = op[o].group /\ x.n = 0
    BY <1>0, <1>2 DEF OidcAttempt, OidcSteps
  <2>3. op'[o] = x
    BY <1>0, <1>5
  <2>4. CloudTypes' /\ Grows(o)
    BY <1>0, <1>1, <1>5 DEF CloudTypes, Grows, Oidc!Owners, Oidc!Named
  <2>5. OfApplications' /\ Oidc!ClientIsUsable'
    BY <1>1, <2>4, GrowthKeepsWhatIsPublished
  <2> HIDE DEF x
  <2>6. Reached(o)'
    BY <1>4, <2>1, <2>2, <2>3
  <2>7. op' = [op EXCEPT ![o] = x] /\ UNCHANGED failures
    BY <1>5 DEF x
  <2>8. QED
    BY <1>1, <1>2, <2>2, <2>4, <2>5, <2>6, <2>7, WritingStepKeeps
<1>6. ASSUME NEW r \in op[o].todo, roles' = [roles EXCEPT ![a] = @ \union {r}],
             \/ op' = [op EXCEPT ![o] = [op[o] EXCEPT !.todo = @ \ {r}]] /\ UNCHANGED failures
             \/ Oidc!Stops(o)
      PROVE  OidcInv' /\ Grows(o)
  <2> DEFINE x == [op[o] EXCEPT !.todo = @ \ {r}]
  <2>1. roles'[a] = roles[a] \union {r} /\ roles' \in [AppIds -> SUBSET AccessRoles]
        /\ \A b \in AppIds : roles[b] \subseteq roles'[b]
    BY <1>0, <1>3, <1>6 DEF CloudTypes
  <2>2. CloudTypes' /\ Grows(o)
    BY <1>0, <1>1, <2>1 DEF CloudTypes, Grows, Oidc!Named
  <2>3. OfApplications' /\ Oidc!ClientIsUsable'
    BY <1>1, <2>2, GrowthKeepsWhatIsPublished
  <2>4. /\ x \in OidcAttempt /\ x.at = "assign" /\ x.app = a /\ x.group = op[o].group /\ x.n = 0
        /\ x.todo = op[o].todo \ {r}
    BY <1>0, <1>1, <1>2 DEF OidcAttempt, OidcSteps
  <2>5. Oidc!Stops(o) \/ (op' = [op EXCEPT ![o] = x] /\ UNCHANGED failures)
    BY <1>6
  <2>6. ASSUME op' = [op EXCEPT ![o] = x] PROVE Reached(o)'
    <3>1. op'[o] = x
      BY <1>0, <2>6
    <3> HIDE DEF x
    <3>2. AccessRoles \ x.todo \subseteq roles'[a]
      BY <1>3, <2>1, <2>4
    <3>3. QED
      BY <1>4, <2>4, <3>1, <3>2
  <2> HIDE DEF x
  <2>7. QED
    BY <1>1, <1>2, <2>2, <2>3, <2>4, <2>5, <2>6, WritingStepKeeps
<1>7. \/ op[o].todo = {} /\ op' = [op EXCEPT ![o] = [op[o] EXCEPT !.at = "secret"]] /\ UNCHANGED <<failures, roles>>
      \/ \E r \in op[o].todo :
           /\ roles' = [roles EXCEPT ![a] = @ \union {r}]
           /\ \/ op' = [op EXCEPT ![o] = [op[o] EXCEPT !.todo = @ \ {r}]] /\ UNCHANGED failures
              \/ Oidc!Stops(o)
  BY DEF Oidc!AssignRole
<1>8. CASE /\ op[o].todo = {} /\ op' = [op EXCEPT ![o] = [op[o] EXCEPT !.at = "secret"]]
           /\ UNCHANGED <<failures, roles>>
  <2>1. CloudTypes' /\ Grows(o)
    BY <1>0, <1>1, <1>8 DEF CloudTypes, Grows, Oidc!Owners, Oidc!Named
  <2>2. QED
    BY <1>5, <1>8, <2>1
<1>9. QED
  BY <1>6, <1>7, <1>8

\* What a secret is set to, beside what the others are.
LEMMA SetSecretStep ==
  ASSUME Oidc!OidcAssumption, OidcInv, NEW o \in Operators, Oidc!SetSecret(o)
  PROVE  OidcInv' /\ Grows(o)
<1> USE DEF Oidc!MovesTo, Oidc!At
<1> DEFINE a == op[o].app
           s == SecretSeq[op[o].n + 1]
           value == Oidc!ValueOf(o, s)
<1>0. /\ op[o] \in OidcAttempt /\ op \in [Operators -> OidcAttempt] /\ CloudTypes /\ Reached(o)
      /\ OfApplications
      /\ Oidc!ClientIsUsable
  BY AttemptOf
<1>1. /\ op[o].at = "secret" /\ secrets' = [secrets EXCEPT ![s] = value] /\ UNCHANGED keys
      /\ UNCHANGED <<group, apps, principals, credential, roles, template, immutable>>
  BY DEF Oidc!SetSecret, Oidc!azure
<1>2. /\ op[o].at \in PastRead /\ op[o].at \in PastApp /\ a # None /\ op[o].n \in Nat
      /\ op[o].n < Len(SecretSeq)
  BY <1>0, <1>1 DEF Reached, OidcAttempt, PastVerify, PastSubject, PastCredential,
     PastPrincipal, PastApp, PastGroup,
     PastTemplate, PastRead
<1>3. Len(SecretSeq) \in Nat /\ s \in Oidc!Secrets /\ ClientId \in Oidc!Secrets
  BY <1>2 DEF Oidc!Secrets, Oidc!OidcAssumption
<1>4. a \in AppIds /\ apps[a] = "ours" /\ Oidc!Usable(a)
  <2>1. a \in AppIds
    BY <1>0, <1>2 DEF OidcAttempt
  <2>2. QED
    BY <1>0, <1>1, <2>1 DEF Reached, Oidc!Usable, PastVerify, PastSubject, PastCredential,
       PastPrincipal, PastApp,
       PastGroup, PastTemplate, PastRead
<1>5. value \in AppIds \union Operators /\ (s = ClientId => value = a) /\ (s # ClientId => value = o)
  BY <1>4 DEF Oidc!ValueOf
<1> HIDE DEF value, s
<1>6. secrets' \in [Oidc!Secrets -> AppIds \union Operators \union {None}]
      /\ \A t \in Oidc!Secrets : secrets'[t] = IF t = s THEN value ELSE secrets[t]
  BY <1>0, <1>1, <1>3, <1>5 DEF CloudTypes
<1>7. CloudTypes'
  BY <1>0, <1>1, <1>6 DEF CloudTypes, Oidc!Named
<1>8. Grows(o)
  BY <1>1, <1>5, <1>6 DEF Grows
<1>9. OfApplications'
  BY <1>0, <1>1, <1>4 DEF OfApplications
<1>10. Oidc!ClientIsUsable'
  <2>1. secrets'[ClientId] = secrets[ClientId] \/ secrets'[ClientId] = a
    BY <1>3, <1>5, <1>6
  <2>2. secrets'[ClientId] # None => Oidc!Usable(secrets'[ClientId])
    BY <1>0, <1>4, <2>1 DEF Oidc!ClientIsUsable
  <2>3. QED
    BY <1>1, <2>2 DEF Oidc!ClientIsUsable, Oidc!Usable
<1> DEFINE n == op[o].n + 1
           x == [op[o] EXCEPT !.n = @ + 1, !.at = IF op[o].n + 1 = Len(SecretSeq) THEN "verify" ELSE "secret"]
<1>11. Oidc!Stops(o) \/ (op' = [op EXCEPT ![o] = x] /\ UNCHANGED failures)
  BY DEF Oidc!SetSecret
<1>12. /\ x \in OidcAttempt /\ x.app = a /\ x.group = op[o].group /\ x.n = n
       /\ x.at = IF n = Len(SecretSeq) THEN "verify" ELSE "secret"
  <2>1. n \in 0 .. Len(SecretSeq)
    BY <1>2, <1>3
  <2>2. QED
    BY <1>0, <2>1 DEF OidcAttempt, OidcSteps
<1>13. ASSUME op' = [op EXCEPT ![o] = x] PROVE Reached(o)'
  <2>1. op'[o] = x
    BY <1>0, <1>13
  <2>2. x.at \in {"secret", "verify"} /\ (x.at = "secret" => x.n < Len(SecretSeq))
    BY <1>2, <1>3, <1>12
  <2> HIDE DEF x, n
  <2>3. QED
    BY <1>0, <1>1, <1>2, <1>12, <2>1, <2>2 DEF Reached, PastVerify, PastSubject, PastCredential,
       PastPrincipal, PastApp,
       PastGroup, PastTemplate, PastRead
<1> HIDE DEF x
<1>14. QED
  BY <1>1, <1>2, <1>7, <1>8, <1>9, <1>10, <1>11, <1>12, <1>13, WritingStepKeeps

\* A step of an operator is a step of no other's attempt.
LEMMA OthersRest ==
  ASSUME Oidc!OidcAssumption, OidcInv, NEW o \in Operators, NEW q \in Operators \ {o},
         (\E mode_ \in {"plan", "apply"} : Oidc!Start(o, mode_)) \/ Oidc!Script(o) \/ Oidc!CommandFails(o)
  PROVE  op'[q] = op[q]
<1>1. \E x : op' = [op EXCEPT ![o] = x]
  <2> USE DEF Oidc!Goes, Oidc!MovesTo, Oidc!Refuses, Oidc!Stops
  <2>1. CASE \/ \E mode_ \in {"plan", "apply"} : Oidc!Start(o, mode_)
             \/ Oidc!CommandFails(o) \/ Oidc!CheckIdentity(o) \/ Oidc!ReadOrCreateSshPublicKey(o)
             \/ Oidc!ReadGroup(o) \/ Oidc!GetExistingApplication(o)
    BY <2>1 DEF Oidc!Start, Oidc!CommandFails, Oidc!CheckIdentity,
       Oidc!ReadOrCreateSshPublicKey, Oidc!ReadGroup,
       Oidc!GetExistingApplication
  <2>2. CASE \/ Oidc!CheckSubject(o) \/ Oidc!Plan(o) \/ Oidc!CreateGroup(o) \/ Oidc!CreateApplication(o)
             \/ Oidc!EnsurePrincipal(o) \/ Oidc!EnsureCredential(o)
    BY <2>2 DEF Oidc!CheckSubject, Oidc!Plan, Oidc!CreateGroup, Oidc!CreateApplication,
       Oidc!EnsurePrincipal,
       Oidc!EnsureCredential
  <2>3. CASE \/ Oidc!PutSubject(o) \/ Oidc!VerifySubject(o) \/ Oidc!ListRoles(o) \/ Oidc!AssignRole(o)
             \/ Oidc!SetSecret(o) \/ Oidc!VerifySecrets(o)
    BY <2>3 DEF Oidc!PutSubject, Oidc!VerifySubject, Oidc!ListRoles, Oidc!AssignRole,
       Oidc!SetSecret,
       Oidc!VerifySecrets
  <2>4. QED
    BY <2>1, <2>2, <2>3 DEF Oidc!Script
<1>2. op \in [Operators -> OidcAttempt]
  BY AttemptOf
<1>3. QED
  BY <1>1, <1>2

LEMMA OidcStep ==
  ASSUME Oidc!OidcAssumption, OidcInv, [Oidc!Next]_(Oidc!vars)
  PROVE  OidcInv'
<1>1. CASE Oidc!Next
  <2>1. PICK o \in Operators :
          (\E mode_ \in {"plan", "apply"} : Oidc!Start(o, mode_)) \/ Oidc!Script(o) \/ Oidc!CommandFails(o)
    BY <1>1 DEF Oidc!Next
  <2>2. QED
    BY <2>1, ReadingStep, GetExistingApplicationStep, LaterReadingStep, WritingStep,
       CreateApplicationStep,
       AssignRoleStep, SetSecretStep DEF Oidc!Script
<1>2. CASE UNCHANGED Oidc!vars
  BY <1>2 DEF Oidc!vars, Oidc!cloud, Oidc!azure, Oidc!github, OidcInv, Oidc!TypeOK, Oidc!Named,
     OfApplications,
     Oidc!ClientIsUsable, Oidc!Usable, Reached, Alone, FirstTime
<1>3. QED
  BY <1>1, <1>2

LEMMA OidcHolds ==
  ASSUME Oidc!OidcAssumption
  PROVE  Oidc!Spec => []OidcInv
<1>1. Oidc!Init => OidcInv
  BY OidcInit
<1>2. OidcInv /\ [Oidc!Next]_(Oidc!vars) => OidcInv'
  BY OidcStep
<1>3. QED
  BY <1>1, <1>2, PTL DEF Oidc!Spec

\* A step of an operator beside whom nothing is foreign writes secrets only then.
LEMMA SecretsAreSetAlone ==
  ASSUME Oidc!OidcAssumption, OidcInv, NEW o \in Operators, Oidc!Script(o), Oidc!Mismatched
  PROVE  secrets' = secrets
<1>1. CASE Oidc!SetSecret(o)
  <2>1. op[o] \in OidcAttempt /\ CloudTypes /\ Reached(o) /\ Alone(o) /\ op[o].at = "secret"
    BY <1>1, AttemptOf DEF Oidc!SetSecret, Oidc!At
  <2>2. /\ op[o].at \in PastRead /\ op[o].at \in PastTemplate /\ op[o].at \in PastCredential
        /\ op[o].at \in PastApp
    BY <2>1 DEF PastVerify, PastSubject, PastCredential, PastPrincipal, PastApp, PastGroup,
       PastTemplate, PastRead
  <2>3. /\ group = "ours" /\ template = "default" /\ credential[op[o].app] = "ours"
        /\ op[o].app # None
    BY <2>1, <2>2 DEF Reached
  <2>4. \A a \in AppIds : apps[a] # "foreign" /\ credential[a] # "foreign"
    BY <2>1, <2>2, <2>3 DEF Alone
  <2>5. QED
    BY <2>3, <2>4 DEF Oidc!Mismatched
<1>2. CASE ~ Oidc!SetSecret(o)
  BY <1>2 DEF Oidc!Script, Oidc!CheckIdentity, Oidc!ReadOrCreateSshPublicKey, Oidc!ReadGroup,
     Oidc!GetExistingApplication,
     Oidc!CheckSubject, Oidc!Plan, Oidc!CreateGroup, Oidc!CreateApplication, Oidc!EnsurePrincipal, Oidc!EnsureCredential,
     Oidc!PutSubject, Oidc!VerifySubject, Oidc!ListRoles, Oidc!AssignRole, Oidc!VerifySecrets, Oidc!cloud, Oidc!azure, Oidc!github
<1>3. QED
  BY <1>1, <1>2

LEMMA OidcTakesNothingOver ==
  ASSUME Oidc!OidcAssumption, OidcInv, [Oidc!Next]_(Oidc!vars)
  PROVE  Oidc!NoTakeover
<1>1. CASE UNCHANGED Oidc!vars
  BY <1>1 DEF Oidc!NoTakeover, Oidc!Mismatched, Oidc!vars, Oidc!cloud, Oidc!azure, Oidc!github
<1>2. CASE Oidc!Next
  <2>1. SUFFICES ASSUME Oidc!Mismatched PROVE Oidc!Mismatched' /\ secrets' = secrets
    BY DEF Oidc!NoTakeover
  <2>2. PICK o \in Operators :
          (\E mode_ \in {"plan", "apply"} : Oidc!Start(o, mode_)) \/ Oidc!Script(o) \/ Oidc!CommandFails(o)
    BY <1>2 DEF Oidc!Next
  <2>3. secrets' = secrets
    BY <2>1, <2>2, SecretsAreSetAlone DEF Oidc!Start, Oidc!CommandFails, Oidc!cloud, Oidc!github
  <2>4. Grows(o)
    BY <2>2, ReadingStep, GetExistingApplicationStep, LaterReadingStep, WritingStep,
       CreateApplicationStep,
       AssignRoleStep, SetSecretStep DEF Oidc!Script
  <2>5. Oidc!Mismatched'
    BY <2>1, <2>4 DEF Oidc!Mismatched, Grows
  <2>6. QED
    BY <2>3, <2>5
<1>3. QED
  BY <1>1, <1>2

\* What is in place for an operator: the one application of the name is usable and published, and
\* the other secrets are the operator's.
LEMMA WhatIsInPlace ==
  ASSUME Oidc!OidcAssumption, OidcInv, NEW o \in Operators, Oidc!InPlace(o)
  PROVE  /\ \A a \in AppIds : apps[a] = "ours" => Oidc!Usable(a) /\ secrets[ClientId] = a
         /\ group = "ours" /\ template = "default" /\ immutable = TRUE
         /\ \A s \in Oidc!Secrets : s # ClientId => secrets[s] = o
         /\ \E s \in Oidc!Secrets : s # ClientId
<1>0. CloudTypes
  BY AttemptOf
<1>1. \A a \in AppIds : apps[a] = "ours" => Oidc!Usable(a) /\ secrets[ClientId] = a
  BY DEF Oidc!InPlace, Oidc!Named
<1>2. Oidc!Named # {}
  <2>1. Cardinality({}) = 0
    BY FS_EmptySet
  <2>2. Oidc!Cardinality({}) = 0
    BY <2>1 DEF Oidc!Cardinality, Cardinality, Oidc!IsFiniteSet, IsFiniteSet
  <2>3. QED
    BY <2>2 DEF Oidc!InPlace
<1>3. group = "ours" /\ template = "default" /\ immutable = TRUE
  BY <1>0, <1>2 DEF Oidc!InPlace, Oidc!Usable, CloudTypes
<1>4. \A s \in Oidc!Secrets : s # ClientId => secrets[s] = o
  BY DEF Oidc!InPlace
<1>5. \E s \in Oidc!Secrets : s # ClientId
  BY DEF Oidc!OidcAssumption
<1>6. QED
  BY <1>1, <1>3, <1>4, <1>5

LEMMA OidcRepeatsNothing ==
  ASSUME Oidc!OidcAssumption, OidcInv, [Oidc!Next]_(Oidc!vars)
  PROVE  Oidc!RepeatChangesNothing
<1> USE DEF Oidc!At
<1> SUFFICES ASSUME NEW o \in Operators, Oidc!InPlace(o), op'[o] # op[o]
             PROVE  Oidc!cloud' = Oidc!cloud
  BY DEF Oidc!RepeatChangesNothing
<1> DEFINE a == op[o].app
<1>1. (\E mode_ \in {"plan", "apply"} : Oidc!Start(o, mode_)) \/ Oidc!Script(o) \/ Oidc!CommandFails(o)
  <2>1. Oidc!Next
    BY DEF Oidc!vars
  <2>2. PICK p \in Operators :
          (\E mode_ \in {"plan", "apply"} : Oidc!Start(p, mode_)) \/ Oidc!Script(p) \/ Oidc!CommandFails(p)
    BY <2>1 DEF Oidc!Next
  <2>3. p = o
    BY <2>2, OthersRest
  <2>4. QED
    BY <2>2, <2>3
<1>2. op[o] \in OidcAttempt /\ CloudTypes /\ Reached(o) /\ FirstTime(o)
  BY AttemptOf
<1>3. /\ \A b \in AppIds : apps[b] = "ours" => Oidc!Usable(b) /\ secrets[ClientId] = b
      /\ group = "ours" /\ template = "default" /\ immutable = TRUE
      /\ \A s \in Oidc!Secrets : s # ClientId => secrets[s] = o
      /\ \E s \in Oidc!Secrets : s # ClientId
  BY WhatIsInPlace
<1>4. op[o].at \in PastApp => a \in AppIds /\ Oidc!Usable(a) /\ secrets[ClientId] = a
  <2> SUFFICES ASSUME op[o].at \in PastApp
               PROVE  a \in AppIds /\ Oidc!Usable(a) /\ secrets[ClientId] = a
    OBVIOUS
  <2>1. op[o].at \in PastRead /\ a # None
    BY <1>2 DEF Reached, PastGroup, PastTemplate, PastRead
  <2>2. a \in AppIds
    BY <1>2, <2>1 DEF OidcAttempt
  <2>3. QED
    BY <1>2, <1>3, <2>1, <2>2 DEF Reached
<1>5. CASE \/ \E mode_ \in {"plan", "apply"} : Oidc!Start(o, mode_)
           \/ Oidc!CommandFails(o) \/ Oidc!CheckIdentity(o) \/ Oidc!ReadOrCreateSshPublicKey(o)
           \/ Oidc!ReadGroup(o) \/ Oidc!GetExistingApplication(o) \/ Oidc!CheckSubject(o) \/ Oidc!Plan(o)
           \/ Oidc!VerifySubject(o) \/ Oidc!ListRoles(o) \/ Oidc!VerifySecrets(o)
  BY <1>5 DEF Oidc!Start, Oidc!CommandFails, Oidc!CheckIdentity, Oidc!ReadOrCreateSshPublicKey,
     Oidc!ReadGroup,
     Oidc!GetExistingApplication, Oidc!CheckSubject, Oidc!Plan, Oidc!VerifySubject, Oidc!ListRoles, Oidc!VerifySecrets
<1>6. CASE Oidc!CreateGroup(o)
  BY <1>3, <1>6 DEF Oidc!CreateGroup, Oidc!cloud, Oidc!azure
<1>7. CASE Oidc!CreateApplication(o)
  <2>1. op[o].at \in PastRead
    BY <1>7 DEF Oidc!CreateApplication, PastGroup, PastTemplate, PastRead
  <2>2. Oidc!Reuses(o)
    BY <1>2, <1>3, <2>1 DEF FirstTime, Oidc!Reuses
  <2>3. QED
    BY <1>7, <2>2 DEF Oidc!CreateApplication, Oidc!cloud, Oidc!azure
<1>8. CASE Oidc!EnsurePrincipal(o)
  <2>1. op[o].at \in PastApp
    BY <1>8 DEF Oidc!EnsurePrincipal, PastApp
  <2>2. principals' = principals
    BY <1>4, <1>8, <2>1 DEF Oidc!EnsurePrincipal, Oidc!Usable
  <2>3. QED
    BY <1>8, <2>2 DEF Oidc!EnsurePrincipal, Oidc!cloud, Oidc!azure
<1>9. CASE Oidc!EnsureCredential(o)
  <2>1. op[o].at \in PastApp
    BY <1>9 DEF Oidc!EnsureCredential, PastPrincipal, PastApp
  <2>2. credential[a] = "ours"
    BY <1>4, <2>1 DEF Oidc!Usable
  <2>3. QED
    BY <1>9, <2>2 DEF Oidc!EnsureCredential, Oidc!cloud, Oidc!azure
<1>10. CASE Oidc!PutSubject(o)
  BY <1>3, <1>10 DEF Oidc!PutSubject, Oidc!cloud, Oidc!github
<1>11. CASE Oidc!AssignRole(o)
  <2>1. op[o].at \in PastApp
    BY <1>11 DEF Oidc!AssignRole, PastVerify, PastSubject, PastCredential, PastPrincipal,
       PastApp
  <2>2. roles[a] = AccessRoles /\ op[o].todo \subseteq AccessRoles
    BY <1>2, <1>4, <2>1 DEF Oidc!Usable, OidcAttempt
  <2>3. \A r \in op[o].todo : [roles EXCEPT ![a] = @ \union {r}] = roles
    <3>1. \A r \in op[o].todo : roles[a] \union {r} = roles[a]
      BY <2>2
    <3>2. QED
      BY <1>2, <3>1 DEF CloudTypes
  <2>4. roles' = roles
    BY <1>11, <2>3 DEF Oidc!AssignRole
  <2>5. QED
    BY <1>11, <2>4 DEF Oidc!AssignRole, Oidc!cloud, Oidc!azure
<1>12. CASE Oidc!SetSecret(o)
  <2> DEFINE s == SecretSeq[op[o].n + 1]
  <2>1. op[o].at \in PastApp /\ op[o].at = "secret"
    BY <1>12 DEF Oidc!SetSecret, PastVerify, PastSubject, PastCredential, PastPrincipal, PastApp
  <2>2. s \in Oidc!Secrets
    <3>1. op[o].n \in Nat /\ op[o].n < Len(SecretSeq) /\ Len(SecretSeq) \in Nat
      BY <1>2, <2>1 DEF Reached, OidcAttempt, Oidc!OidcAssumption
    <3>2. QED
      BY <3>1 DEF Oidc!Secrets
  <2>3. secrets' = [secrets EXCEPT ![s] = Oidc!ValueOf(o, s)]
    BY <1>12 DEF Oidc!SetSecret
  <2> HIDE DEF s
  <2>4. Oidc!ValueOf(o, s) = secrets[s]
    BY <1>3, <1>4, <2>1, <2>2 DEF Oidc!ValueOf
  <2>5. secrets' = secrets
    BY <1>2, <2>3, <2>4 DEF CloudTypes
  <2>6. QED
    BY <1>12, <2>5 DEF Oidc!SetSecret, Oidc!cloud, Oidc!github
<1>13. QED
  BY <1>1, <1>5, <1>6, <1>7, <1>8, <1>9, <1>10, <1>11, <1>12 DEF Oidc!Script

\* A client id is published only when an identity with principal, credential and every role is
\* behind it (configureGitHubSecrets comes last, and nothing takes a part away).
THEOREM ClientIsUsableHolds ==
  ASSUME Oidc!OidcAssumption
  PROVE  Oidc!Spec => []Oidc!ClientIsUsable
<1>1. OidcInv => Oidc!ClientIsUsable
  BY DEF OidcInv
<1>2. QED
  BY <1>1, OidcHolds, PTL DEF Oidc!Spec

\* The bootstrap takes nothing over: what is foreign stays, and no secret is written beside it.
THEOREM NoTakeoverHolds ==
  ASSUME Oidc!OidcAssumption
  PROVE  Oidc!Spec => [][Oidc!NoTakeover]_(Oidc!vars)
<1>1. OidcInv /\ [Oidc!Next]_(Oidc!vars) => [Oidc!NoTakeover]_(Oidc!vars)
  BY OidcTakesNothingOver
<1>2. QED
  BY <1>1, OidcHolds, PTL DEF Oidc!Spec

\* An operator whose apply is in place changes nothing in Azure or GitHub by running anything again.
THEOREM RepeatChangesNothingHolds ==
  ASSUME Oidc!OidcAssumption
  PROVE  Oidc!Spec => [][Oidc!RepeatChangesNothing]_(Oidc!vars)
<1>1. OidcInv /\ [Oidc!Next]_(Oidc!vars) => [Oidc!RepeatChangesNothing]_(Oidc!vars)
  BY OidcRepeatsNothing
<1>2. QED
  BY <1>1, OidcHolds, PTL DEF Oidc!Spec
-----------------------------------------------------------------------------
(* The authenticated smoke *)

LEMMA NumberedSeq ==
  ASSUME NEW S, NEW n \in Nat, NEW c \in Nat, \A i \in 1 .. n : c + i \in S
  PROVE  /\ [i \in 1 .. n |-> c + i] \in Seq(S) /\ Len([i \in 1 .. n |-> c + i]) = n
         /\ \A i \in 1 .. n : [j \in 1 .. n |-> c + j][i] = c + i
<1> DEFINE f == [i \in 1 .. n |-> c + i]
<1>1. f \in [1 .. n -> S] /\ DOMAIN f = 1 .. n
  OBVIOUS
<1>2. f \in Seq(S) /\ Len(f) = n
  BY <1>1
<1>3. QED
  BY <1>2

\* What is numbered on from where a numbered sequence ends continues it.
LEMMA NumberedOn ==
  ASSUME NEW m \in Nat, NEW c \in Nat, NEW n \in Nat, NEW p \in Seq(1 .. m),
         \A i \in 1 .. Len(p) : p[i] = c + i,
         NEW q \in Seq(1 .. m), Len(q) = n, \A i \in 1 .. n : q[i] = (c + Len(p)) + i
  PROVE  Len(p \o q) = Len(p) + n /\ \A i \in 1 .. Len(p \o q) : (p \o q)[i] = c + i
<1>1. Len(p) \in Nat /\ Len(p \o q) = Len(p) + n
  BY ConcatProperties, LenProperties
<1>2. \A i \in 1 .. Len(p) + n : (p \o q)[i] = IF i <= Len(p) THEN p[i] ELSE q[i - Len(p)]
  BY ConcatProperties
<1>3. ASSUME NEW i \in 1 .. Len(p) + n PROVE (p \o q)[i] = c + i
  <2>1. CASE i <= Len(p)
    BY <1>1, <1>2, <1>3, <2>1
  <2>2. CASE ~ i <= Len(p)
    <3>1. i - Len(p) \in 1 .. n
      BY <1>1, <1>3, <2>2
    <3>2. (p \o q)[i] = q[i - Len(p)]
      BY <1>2, <1>3, <2>2
    <3>3. q[i - Len(p)] = (c + Len(p)) + (i - Len(p))
      BY <3>1
    <3>4. QED
      BY <1>1, <3>2, <3>3
  <2>3. QED
    BY <2>1, <2>2
<1>4. QED
  BY <1>1, <1>3

LEMMA NumberedNext ==
  ASSUME NEW S, NEW s \in Seq(S), s = [i \in 1 .. Len(s) |-> i], Len(s) + 1 \in S
  PROVE  LET t == Append(s, Len(s) + 1)
         IN  t \in Seq(S) /\ Len(t) = Len(s) + 1 /\ t = [i \in 1 .. Len(t) |-> i]
<1> DEFINE t == Append(s, Len(s) + 1)
<1>1. t \in Seq(S) /\ Len(t) = Len(s) + 1 /\ Len(s) \in Nat
  OBVIOUS
<1>2. \A i \in 1 .. Len(t) : t[i] = i
  OBVIOUS
<1>3. DOMAIN t = 1 .. Len(t) /\ t \in [1 .. Len(t) -> S]
  BY <1>1, LenProperties
<1> HIDE DEF t
<1>4. t = [i \in 1 .. Len(t) |-> i]
  BY <1>2, <1>3
<1>5. QED
  BY <1>1, <1>4 DEF t

Early == {"boundary", "upload", "scan", "download", "create"}
AfterRun == {"artifacts", "preview", "final", "write", "passed"}

\* What each stage of the script rests on.
StageInv ==
    /\ obs.pc = "boundary" => obs.checks < Len(Smoke!BoundaryChecks)
    /\ obs.pc \in Early => run.status = "NONE"
    /\ obs.pc \notin {"boundary", "upload", "scan", "failed"} => attachment = "CLEAN"
    /\ obs.pc \in AfterRun => run.status = "COMPLETED"
    /\ obs.pc \in AfterRun \ {"artifacts"} =>
         obs.approvals = Smoke!ExpectedApprovals /\ artifacts = Route /\ obs.preview # 0

\* The log and what the script noted of it speak of the run as it is.
RunInv ==
    /\ \A i \in 1 .. Len(log) : log[i] = "run.completed" => run.status = "COMPLETED"
    /\ obs.completed => run.status = "COMPLETED"
    /\ run.status = "COMPLETED" => run.gate = "passed"
    /\ obs.preview # 0 => obs.preview \in 1 .. Len(log) /\ log[obs.preview] = "preview.READY"

\* What is on its way continues what has been processed.
StreamInv ==
    /\ obs.cursor <= Len(log) /\ conn.cursor <= Len(log) /\ obs.read <= obs.cursor
    /\ Smoke!ReplayHasNoGap
    /\ obs.pc # "failed" => obs.cursor = Len(seen)
    /\ obs.pc = "read" =>
         /\ conn.cursor = obs.cursor + Len(conn.pipe)
         /\ \A i \in 1 .. Len(conn.pipe) : conn.pipe[i] = obs.cursor + i

RunTypes ==
    /\ run \in [status : {"NONE", "PENDING", "RUNNING", "PAUSED"} \union Smoke!Terminal, version : Nat,
                gate : {"ahead", "asked", "passed"}]
    /\ log \in Seq(Smoke!Types) /\ Len(log) <= MaxEvents
    /\ attachment \in {"NONE", "PENDING", "CLEAN", "REJECTED"}
    /\ artifacts \subseteq Agents /\ acts \in 0 .. MemberBound
ConnTypes ==
    conn \in [pc : {"closed", "list", "status", "poll", "ended"}, cursor : 0 .. MaxEvents, pipe : Seq(1 .. MaxEvents)]
Observers ==
    [pc : Smoke!Steps, checks : 0 .. Len(Smoke!BoundaryChecks), cursor : 0 .. MaxEvents, read : 0 .. MaxEvents,
     connection : {0, 1, 2}, pending : BOOLEAN, completed : BOOLEAN, ended : BOOLEAN,
     preview : 0 .. MaxEvents, version : Nat, approvals : Seq({"plan"}), polls : 0 .. PollBound,
     reason : Smoke!Reasons]
ObsTypes == obs \in Observers /\ seen \in Seq(1 .. MaxEvents)

SmokeInv == RunTypes /\ ConnTypes /\ ObsTypes /\ StageInv /\ RunInv /\ StreamInv

LEMMA SmokeTypes == Smoke!TypeOK <=> RunTypes /\ ConnTypes /\ ObsTypes
BY DEF Smoke!TypeOK, RunTypes, ConnTypes, ObsTypes, Observers

LEMMA FiveChecks == Len(Smoke!BoundaryChecks) = 5
BY DEF Smoke!BoundaryChecks

LEMMA SmokeInit == Smoke!SmokeRunAssumption /\ Smoke!Init => SmokeInv
<1> SUFFICES ASSUME Smoke!SmokeRunAssumption, Smoke!Init PROVE SmokeInv
  OBVIOUS
<1>1. 0 \in 0 .. MaxEvents /\ 0 \in 0 .. PollBound /\ 0 \in 0 .. MemberBound /\ 0 <= MaxEvents
      /\ 0 \in 0 .. Len(Smoke!BoundaryChecks)
  BY FiveChecks DEF Smoke!SmokeRunAssumption
<1>2. RunTypes
  BY <1>1 DEF Smoke!Init, RunTypes
<1>3. ConnTypes
  BY <1>1 DEF Smoke!Init, ConnTypes
<1>4. ObsTypes
  BY <1>1 DEF Smoke!Init, ObsTypes, Observers, Smoke!Steps, Smoke!Reasons
<1>5. StageInv /\ RunInv
  BY FiveChecks DEF Smoke!Init, StageInv, RunInv, Early, AfterRun
<1>6. StreamInv
  BY DEF Smoke!Init, StreamInv, Smoke!ReplayHasNoGap
<1>7. QED
  BY <1>2, <1>3, <1>4, <1>5, <1>6 DEF SmokeInv

\* The worker and the member: a run that is finished rests, an event only follows the others, and
\* the event of a completion comes with it.
LEMMA PlatformKeeps ==
  ASSUME SmokeInv, RunTypes', UNCHANGED <<attachment, conn, obs, seen>>,
         log' = log \/ \E type \in Smoke!Types : log' = Append(log, type) /\ (type = "run.completed" => run'.status = "COMPLETED"),
         run.status = "COMPLETED" => run'.status = "COMPLETED" /\ artifacts' = artifacts,
         run.status = "NONE" => run'.status = "NONE",
         run'.status = "COMPLETED" => run'.gate = "passed"
  PROVE  SmokeInv'
<1>0. RunTypes /\ ConnTypes /\ ObsTypes /\ StageInv /\ RunInv /\ StreamInv
  BY DEF SmokeInv
<1>1. log \in Seq(Smoke!Types)
  BY <1>0 DEF RunTypes
<1> DEFINE Continues ==
        /\ Len(log) \in Nat /\ Len(log') \in Nat /\ Len(log) <= Len(log')
        /\ \A i \in 1 .. Len(log) : log'[i] = log[i]
        /\ \A i \in 1 .. Len(log') : i \notin 1 .. Len(log) /\ log'[i] = "run.completed" => run'.status = "COMPLETED"
<1>2. Continues
  <2>1. CASE log' = log
    BY <1>1, <2>1
  <2>2. ASSUME NEW type \in Smoke!Types, log' = Append(log, type), type = "run.completed" => run'.status = "COMPLETED"
        PROVE  Continues
    BY <1>1, <2>2
  <2>3. QED
    BY <2>1, <2>2
<1>3. ConnTypes' /\ ObsTypes'
  BY <1>0 DEF ConnTypes, ObsTypes
<1>4. StageInv'
  BY <1>0 DEF StageInv, Early, AfterRun
<1>5. RunInv'
  <2>1. \A i \in 1 .. Len(log') : log'[i] = "run.completed" => run'.status = "COMPLETED"
    BY <1>0, <1>2 DEF RunInv
  <2>2. obs.preview # 0 => obs.preview \in 1 .. Len(log') /\ log'[obs.preview] = "preview.READY"
    BY <1>0, <1>2 DEF RunInv, ObsTypes, Observers
  <2>3. QED
    BY <1>0, <2>1, <2>2 DEF RunInv
<1>6. StreamInv'
  <2>1. obs.cursor \in Nat /\ conn.cursor \in Nat
    BY <1>0 DEF ObsTypes, Observers, ConnTypes
  <2>2. QED
    BY <1>0, <1>2, <2>1 DEF StreamInv, Smoke!ReplayHasNoGap
<1>7. QED
  BY <1>3, <1>4, <1>5, <1>6 DEF SmokeInv

LEMMA PlatformStep ==
  ASSUME Smoke!SmokeRunAssumption, SmokeInv,
         \/ Smoke!ClaimRun \/ Smoke!RequestApproval \/ Smoke!PublishPreview \/ Smoke!StopPreview
         \/ Smoke!CompleteRun \/ Smoke!FailRun \/ Smoke!MemberActs \/ \E a \in Agents : Smoke!WorkAgent(a)
  PROVE  SmokeInv'
<1> USE DEF Smoke!WorkerLeaves
<1>0. RunTypes /\ RunInv
  BY DEF SmokeInv
<1>1. /\ UNCHANGED <<attachment, conn, obs, seen>>
      /\ log' = log \/ UNCHANGED acts
  BY DEF Smoke!ClaimRun, Smoke!RequestApproval, Smoke!PublishPreview, Smoke!StopPreview,
     Smoke!CompleteRun, Smoke!FailRun,
     Smoke!MemberActs, Smoke!WorkAgent
\* An event that is appended fits into the log.
<1>2. ASSUME NEW type \in Smoke!Types, Smoke!Append1(type)
      PROVE  log' = Append(log, type) /\ log' \in Seq(Smoke!Types) /\ Len(log') <= MaxEvents
  BY <1>0, <1>2 DEF RunTypes, Smoke!Append1, Smoke!SmokeRunAssumption
<1>3. ASSUME NEW status_ \in {"RUNNING", "PAUSED"} \union Smoke!Terminal, Smoke!Move(status_)
      PROVE  /\ run'.status = status_ /\ run'.gate = run.gate
             /\ run' \in [status : {"NONE", "PENDING", "RUNNING", "PAUSED"} \union Smoke!Terminal, version : Nat,
                          gate : {"ahead", "asked", "passed"}]
  <2> DEFINE Statuses == {"NONE", "PENDING", "RUNNING", "PAUSED"} \union Smoke!Terminal
  <2>1. run \in [status : Statuses, version : Nat, gate : {"ahead", "asked", "passed"}]
    BY <1>0 DEF RunTypes
  <2>2. status_ \in Statuses
    OBVIOUS
  <2> HIDE DEF Statuses
  <2>3. run' = [run EXCEPT !.status = status_, !.version = run.version + 1]
    BY <1>3 DEF Smoke!Move
  <2>4. run.version + 1 \in Nat
    BY <2>1
  <2>5. run' \in [status : Statuses, version : Nat, gate : {"ahead", "asked", "passed"}]
    BY <2>1, <2>2, <2>3, <2>4
  <2>6. run'.status = status_ /\ run'.gate = run.gate
    BY <2>1, <2>3
  <2>7. QED
    BY <2>5, <2>6 DEF Statuses
<1>4. /\ "run.status_changed" \in Smoke!Types /\ "approval.required" \in Smoke!Types
      /\ "preview.READY" \in Smoke!Types
      /\ "preview.STOPPED" \in Smoke!Types /\ "run.completed" \in Smoke!Types
      /\ "run.failed" \in Smoke!Types
      /\ "COMPLETED" \in Smoke!Terminal /\ "FAILED" \in Smoke!Terminal
      /\ "CANCELLED" \in Smoke!Terminal
  BY DEF Smoke!Types, Smoke!Terminal
<1>5. CASE Smoke!ClaimRun
  <2>1. /\ run.status = "PENDING" /\ Smoke!Move("RUNNING")
        /\ Smoke!Append1("run.status_changed") /\ artifacts' = artifacts
        /\ acts' = acts
    BY <1>5 DEF Smoke!ClaimRun
  <2>2. RunTypes'
    BY <1>0, <1>1, <1>2, <1>3, <1>4, <2>1 DEF RunTypes
  <2>3. run'.status = "RUNNING" /\ log' = Append(log, "run.status_changed")
    BY <1>2, <1>3, <1>4, <2>1
  <2>4. QED
    BY <1>1, <1>4, <2>1, <2>2, <2>3, PlatformKeeps
<1>6. CASE Smoke!RequestApproval
  <2>1. /\ run.status = "RUNNING"
        /\ run' = [status |-> "PAUSED", version |-> run.version + 1, gate |-> "asked"]
        /\ Smoke!Append1("approval.required") /\ artifacts' = artifacts /\ acts' = acts
    BY <1>6 DEF Smoke!RequestApproval
  <2>2. RunTypes'
    BY <1>0, <1>1, <1>2, <1>4, <2>1 DEF RunTypes
  <2>3. run'.status = "PAUSED" /\ log' = Append(log, "approval.required")
    BY <1>2, <1>4, <2>1
  <2>4. QED
    BY <1>1, <1>4, <2>1, <2>2, <2>3, PlatformKeeps
<1>7. CASE Smoke!PublishPreview \/ Smoke!StopPreview
  <2>1. PICK type \in {"preview.READY", "preview.STOPPED"} : Smoke!Append1(type)
    BY <1>7 DEF Smoke!PublishPreview, Smoke!StopPreview
  <2>2. run' = run /\ artifacts' = artifacts /\ acts' = acts
    BY <1>7 DEF Smoke!PublishPreview, Smoke!StopPreview
  <2>3. RunTypes'
    BY <1>0, <1>1, <1>2, <1>4, <2>1, <2>2 DEF RunTypes
  <2>4. log' = Append(log, type) /\ type \in Smoke!Types /\ type # "run.completed"
    BY <1>2, <1>4, <2>1
  <2>5. QED
    BY <1>0, <1>1, <2>2, <2>3, <2>4, PlatformKeeps DEF RunInv
<1>8. CASE Smoke!CompleteRun
  <2>1. /\ run.status = "RUNNING" /\ run.gate = "passed" /\ Smoke!Move("COMPLETED")
        /\ Smoke!Append1("run.completed")
        /\ artifacts' = artifacts /\ acts' = acts
    BY <1>8 DEF Smoke!CompleteRun
  <2>2. RunTypes'
    BY <1>0, <1>1, <1>2, <1>3, <1>4, <2>1 DEF RunTypes
  <2>3. run'.status = "COMPLETED" /\ run'.gate = "passed" /\ log' = Append(log, "run.completed")
    BY <1>2, <1>3, <1>4, <2>1
  <2>4. QED
    BY <1>1, <1>4, <2>1, <2>2, <2>3, PlatformKeeps
<1>9. CASE Smoke!FailRun
  <2>1. /\ run.status = "RUNNING" /\ Smoke!Move("FAILED") /\ Smoke!Append1("run.failed")
        /\ artifacts' = artifacts /\ acts' = acts
    BY <1>9 DEF Smoke!FailRun
  <2>2. RunTypes'
    BY <1>0, <1>1, <1>2, <1>3, <1>4, <2>1 DEF RunTypes
  <2>3. run'.status = "FAILED" /\ log' = Append(log, "run.failed")
    BY <1>2, <1>3, <1>4, <2>1
  <2>4. QED
    BY <1>1, <1>4, <2>1, <2>2, <2>3, PlatformKeeps
<1>10. CASE Smoke!MemberActs
  <2>1. /\ acts < MemberBound /\ acts' = acts + 1 /\ log' = log /\ artifacts' = artifacts
        /\ \/ run.status = "PAUSED" /\ run.gate = "asked" /\ run' = Smoke!Approved
           \/ run.status = "RUNNING" /\ Smoke!Move("PAUSED")
           \/ run.status \in {"PENDING", "RUNNING", "PAUSED"} /\ Smoke!Move("CANCELLED")
    BY <1>10 DEF Smoke!MemberActs
  <2>2. acts' \in 0 .. MemberBound
    BY <1>0, <2>1 DEF RunTypes, Smoke!SmokeRunAssumption
  <2>3. /\ run'.status \in {"PENDING", "PAUSED", "CANCELLED"}
        /\ run.status \in {"PENDING", "RUNNING", "PAUSED"}
        /\ run' \in [status : {"NONE", "PENDING", "RUNNING", "PAUSED"} \union Smoke!Terminal, version : Nat,
                     gate : {"ahead", "asked", "passed"}]
    <3>1. CASE run.status = "PAUSED" /\ run.gate = "asked" /\ run' = Smoke!Approved
      BY <1>0, <3>1 DEF RunTypes, Smoke!Approved
    <3>2. CASE run.status = "RUNNING" /\ Smoke!Move("PAUSED")
      BY <1>3, <3>2
    <3>3. CASE run.status \in {"PENDING", "RUNNING", "PAUSED"} /\ Smoke!Move("CANCELLED")
      BY <1>3, <1>4, <3>3
    <3>4. QED
      BY <2>1, <3>1, <3>2, <3>3
  <2>4. RunTypes'
    BY <1>0, <1>1, <2>1, <2>2, <2>3 DEF RunTypes
  <2>5. QED
    BY <1>1, <2>1, <2>3, <2>4, PlatformKeeps
<1>11. ASSUME NEW a \in Agents, Smoke!WorkAgent(a) PROVE SmokeInv'
  <2>1. /\ run.status = "RUNNING" /\ artifacts' = artifacts \union {a} /\ run' = run
        /\ log' = log /\ acts' = acts
    BY <1>11 DEF Smoke!WorkAgent
  <2>2. RunTypes'
    BY <1>0, <1>1, <2>1 DEF RunTypes
  <2>3. QED
    BY <1>1, <2>1, <2>2, PlatformKeeps
<1>12. QED
  BY <1>5, <1>6, <1>7, <1>8, <1>9, <1>10, <1>11

\* The scan of the attachment settles what is pending; the stream serves the log.
LEMMA ServingStep ==
  ASSUME Smoke!SmokeRunAssumption, SmokeInv,
         \/ \E verdict \in {"CLEAN", "REJECTED"} : Smoke!ScanAttachment(verdict)
         \/ Smoke!ListEvents \/ Smoke!CheckStatus \/ Smoke!StreamExpires
  PROVE  SmokeInv'
<1>0. RunTypes /\ ConnTypes /\ ObsTypes /\ StageInv /\ RunInv /\ StreamInv
  BY DEF SmokeInv
<1>1. ASSUME NEW verdict \in {"CLEAN", "REJECTED"}, Smoke!ScanAttachment(verdict)
      PROVE  SmokeInv'
  <2>1. /\ attachment = "PENDING" /\ attachment' = verdict
        /\ UNCHANGED <<run, log, artifacts, conn, obs, seen, acts>>
    BY <1>1 DEF Smoke!ScanAttachment
  <2>2. RunTypes' /\ ConnTypes' /\ ObsTypes' /\ RunInv' /\ StreamInv'
    BY <1>0, <2>1 DEF RunTypes, ConnTypes, ObsTypes, RunInv, StreamInv, Smoke!ReplayHasNoGap
  <2>3. StageInv'
    BY <1>0, <2>1 DEF StageInv, Early, AfterRun
  <2>4. QED
    BY <2>2, <2>3 DEF SmokeInv
<1>2. ASSUME UNCHANGED <<run, log, attachment, artifacts, obs, seen, acts>>, ConnTypes', StreamInv'
      PROVE  SmokeInv'
  <2>1. RunTypes' /\ ObsTypes' /\ StageInv' /\ RunInv'
    BY <1>0, <1>2 DEF RunTypes, ObsTypes, StageInv, RunInv, Early, AfterRun
  <2>2. QED
    BY <1>2, <2>1 DEF SmokeInv
<1>3. CASE Smoke!ListEvents
  <2> DEFINE added == [i \in 1 .. Len(log) - conn.cursor |-> conn.cursor + i]
             x == [conn EXCEPT !.pc = "status", !.cursor = Len(log), !.pipe = @ \o added]
  <2>1. conn' = x /\ UNCHANGED <<run, log, attachment, artifacts, obs, seen, acts>>
    BY <1>3 DEF Smoke!ListEvents, Smoke!server
  <2>2. /\ conn.cursor \in Nat /\ Len(log) \in Nat /\ conn.cursor <= Len(log)
        /\ Len(log) <= MaxEvents /\ MaxEvents \in Nat
        /\ conn.pipe \in Seq(1 .. MaxEvents) /\ Len(conn.pipe) \in Nat
    BY <1>0 DEF RunTypes, ConnTypes, StreamInv, Smoke!SmokeRunAssumption
  <2>3. added \in Seq(1 .. MaxEvents) /\ Len(added) = Len(log) - conn.cursor
        /\ \A i \in 1 .. Len(added) : added[i] = conn.cursor + i
    <3> DEFINE n == Len(log) - conn.cursor
               c == conn.cursor
               S == 1 .. MaxEvents
    <3>1. n \in Nat /\ c \in Nat
      BY <2>2
    <3>2. \A i \in 1 .. n : c + i \in S
      BY <2>2
    <3>3. /\ n = Len(log) - conn.cursor /\ c = conn.cursor /\ S = 1 .. MaxEvents
          /\ added = [i \in 1 .. n |-> c + i]
      OBVIOUS
    <3> HIDE DEF n, c, S, added
    <3>4. /\ [i \in 1 .. n |-> c + i] \in Seq(S) /\ Len([i \in 1 .. n |-> c + i]) = n
          /\ \A i \in 1 .. n : [j \in 1 .. n |-> c + j][i] = c + i
      BY <3>1, <3>2, NumberedSeq
    <3>5. QED
      BY <3>3, <3>4, Zenon
  <2> HIDE DEF added
  <2>4. x.pipe = conn.pipe \o added /\ x.cursor = Len(log) /\ x.pc = "status"
    BY <1>0 DEF ConnTypes
  <2>5. x \in [pc : {"closed", "list", "status", "poll", "ended"}, cursor : 0 .. MaxEvents, pipe : Seq(1 .. MaxEvents)]
    <3>1. conn.pipe \o added \in Seq(1 .. MaxEvents)
      BY <2>2, <2>3, ConcatProperties
    <3>2. Len(log) \in 0 .. MaxEvents
      BY <2>2
    <3>3. QED
      BY <1>0, <3>1, <3>2 DEF ConnTypes
  <2> HIDE DEF x
  <2>6. obs.pc = "read" => /\ x.cursor = obs.cursor + Len(x.pipe)
                           /\ \A i \in 1 .. Len(x.pipe) : x.pipe[i] = obs.cursor + i
    <3> SUFFICES ASSUME obs.pc = "read"
                 PROVE  /\ x.cursor = obs.cursor + Len(x.pipe)
                        /\ \A i \in 1 .. Len(x.pipe) : x.pipe[i] = obs.cursor + i
      OBVIOUS
    <3>1. /\ conn.cursor = obs.cursor + Len(conn.pipe) /\ obs.cursor \in Nat
          /\ \A i \in 1 .. Len(conn.pipe) : conn.pipe[i] = obs.cursor + i
      BY <1>0 DEF StreamInv, ObsTypes, Observers
    <3> DEFINE p == conn.pipe
               c == obs.cursor
    <3>2. /\ p \in Seq(1 .. MaxEvents) /\ c \in Nat /\ MaxEvents \in Nat /\ Len(p) \in Nat
          /\ Len(added) \in Nat
          /\ \A i \in 1 .. Len(p) : p[i] = c + i
      <4>1. Len(added) \in Nat
        BY <2>2, <2>3
      <4>2. QED
        BY <2>2, <3>1, <4>1, Zenon
    <3>3. \A i \in 1 .. Len(added) : added[i] = (c + Len(p)) + i
      BY <2>3, <3>1
    <3>4. Len(added) = Len(log) - (c + Len(p)) /\ c + Len(p) \in Nat
      BY <2>3, <3>1, <3>2
    <3>5. x.pipe = p \o added
      BY <2>4
    <3> HIDE DEF p, c
    <3>6. Len(p \o added) = Len(p) + Len(added) /\ \A i \in 1 .. Len(p \o added) : (p \o added)[i] = c + i
      <4>1. added \in Seq(1 .. MaxEvents) /\ Len(added) = Len(added)
        BY <2>3
      <4>2. QED
        BY <4>1, <3>2, <3>3, NumberedOn, ZenonT(60)
    <3>7. Len(log) = c + Len(p \o added)
      BY <2>2, <3>2, <3>4, <3>6
    <3>8. QED
      BY <2>4, <3>5, <3>6, <3>7 DEF c
  <2>7. StreamInv' /\ ConnTypes'
    BY <1>0, <2>1, <2>2, <2>4, <2>5, <2>6 DEF StreamInv, Smoke!ReplayHasNoGap, ConnTypes
  <2>8. QED
    BY <1>2, <2>1, <2>7
<1>4. CASE Smoke!CheckStatus \/ Smoke!StreamExpires
  <2>1. PICK pc_ \in {"ended", "poll"} : conn' = [conn EXCEPT !.pc = pc_]
    BY <1>4 DEF Smoke!CheckStatus, Smoke!StreamExpires
  <2>2. UNCHANGED <<run, log, attachment, artifacts, obs, seen, acts>>
    BY <1>4 DEF Smoke!CheckStatus, Smoke!StreamExpires, Smoke!server
  <2>3. ConnTypes' /\ conn'.cursor = conn.cursor /\ conn'.pipe = conn.pipe
    BY <1>0, <2>1 DEF ConnTypes
  <2>4. StreamInv'
    BY <1>0, <2>2, <2>3 DEF StreamInv, Smoke!ReplayHasNoGap
  <2>5. QED
    BY <1>2, <2>2, <2>3, <2>4
<1>5. QED
  BY <1>1, <1>3, <1>4

\* A script that fails says why; what it noted stays true.
LEMMA FailKeeps ==
  ASSUME SmokeInv, NEW reason \in Smoke!Reasons, obs' = [obs EXCEPT !.pc = "failed", !.reason = reason],
         UNCHANGED <<run, log, attachment, artifacts, acts>>, seen' \in Seq(1 .. MaxEvents), Smoke!ReplayHasNoGap',
         conn' = conn \/ conn' = [conn EXCEPT !.pc = "closed"]
  PROVE  SmokeInv'
<1>0. RunTypes /\ ConnTypes /\ ObsTypes /\ StageInv /\ RunInv /\ StreamInv
  BY DEF SmokeInv
<1>1. obs \in Observers /\ "failed" \in Smoke!Steps
  BY <1>0 DEF ObsTypes, Smoke!Steps
<1>2. /\ obs' \in Observers /\ obs'.pc = "failed" /\ obs'.cursor = obs.cursor
      /\ obs'.read = obs.read
      /\ obs'.completed = obs.completed /\ obs'.preview = obs.preview
  BY <1>1 DEF Observers
<1>3. ConnTypes' /\ conn'.cursor = conn.cursor
  BY <1>0 DEF ConnTypes
<1>4. RunTypes' /\ ObsTypes'
  BY <1>0, <1>2 DEF RunTypes, ObsTypes
<1>5. StageInv' /\ RunInv'
  BY <1>0, <1>2 DEF StageInv, RunInv, Early, AfterRun
<1>6. StreamInv'
  BY <1>0, <1>2, <1>3 DEF StreamInv
<1>7. QED
  BY <1>3, <1>4, <1>5, <1>6 DEF SmokeInv

\* A step of the script outside its connections.
LEMMA StageKeeps ==
  ASSUME SmokeInv, UNCHANGED <<log, conn, seen>>, RunTypes', obs' \in Observers, StageInv',
         obs.pc # "failed", obs'.pc # "read", obs'.cursor = obs.cursor, obs'.read = obs.read,
         obs'.completed = obs.completed, obs'.preview = obs.preview,
         run.status = "COMPLETED" => run'.status = "COMPLETED",
         run'.status = "COMPLETED" => run'.gate = "passed"
  PROVE  SmokeInv'
<1>0. RunTypes /\ ConnTypes /\ ObsTypes /\ StageInv /\ RunInv /\ StreamInv
  BY DEF SmokeInv
<1>1. ConnTypes' /\ ObsTypes'
  BY <1>0 DEF ConnTypes, ObsTypes
<1>2. RunInv'
  BY <1>0 DEF RunInv
<1>3. StreamInv'
  BY <1>0 DEF StreamInv, Smoke!ReplayHasNoGap
<1>4. QED
  BY <1>1, <1>2, <1>3 DEF SmokeInv

\* The steps that change nothing but the script itself.
LEMMA AskingStep ==
  ASSUME Smoke!SmokeRunAssumption, SmokeInv,
         \/ Smoke!CheckBoundary \/ Smoke!WaitForCleanAttachment \/ Smoke!Download \/ Smoke!ReadGate \/ Smoke!PollRun
         \/ Smoke!CheckRoute \/ Smoke!FetchPreview \/ Smoke!CheckCompleted \/ Smoke!WriteRedactedEvidence
  PROVE  SmokeInv'
<1> USE DEF Smoke!Goto, Smoke!Fail
<1>0. RunTypes /\ ObsTypes /\ StageInv /\ RunInv /\ StreamInv
  BY DEF SmokeInv
<1>1. UNCHANGED <<run, log, attachment, artifacts, conn, seen, acts>>
  BY DEF Smoke!CheckBoundary, Smoke!WaitForCleanAttachment, Smoke!Download, Smoke!ReadGate,
     Smoke!PollRun,
     Smoke!CheckRoute, Smoke!FetchPreview, Smoke!CheckCompleted, Smoke!WriteRedactedEvidence, Smoke!server
<1>2. obs \in Observers /\ obs.pc # "read"
  BY <1>0 DEF ObsTypes, Smoke!CheckBoundary, Smoke!WaitForCleanAttachment, Smoke!Download,
     Smoke!ReadGate, Smoke!PollRun,
     Smoke!CheckRoute, Smoke!FetchPreview, Smoke!CheckCompleted, Smoke!WriteRedactedEvidence
<1>3. ASSUME NEW reason \in Smoke!Reasons, obs' = [obs EXCEPT !.pc = "failed", !.reason = reason]
      PROVE  SmokeInv'
  <2>1. seen' \in Seq(1 .. MaxEvents) /\ Smoke!ReplayHasNoGap'
    BY <1>0, <1>1 DEF ObsTypes, StreamInv, Smoke!ReplayHasNoGap
  <2>2. QED
    BY <1>1, <1>3, <2>1, FailKeeps
<1>4. ASSUME obs' \in Observers, StageInv', obs.pc # "failed", obs'.pc # "read", obs'.cursor = obs.cursor,
             obs'.read = obs.read, obs'.completed = obs.completed, obs'.preview = obs.preview
      PROVE  SmokeInv'
  BY <1>0, <1>1, <1>4, StageKeeps DEF RunTypes, RunInv
\* A step that only goes to another stage.
<1>5. ASSUME NEW pc_ \in Smoke!Steps \ {"read", "failed"}, obs' = [obs EXCEPT !.pc = pc_], StageInv', obs.pc # "failed"
      PROVE  SmokeInv'
  <2>1. /\ obs' \in Observers /\ obs'.pc = pc_ /\ obs'.cursor = obs.cursor
        /\ obs'.read = obs.read
        /\ obs'.completed = obs.completed /\ obs'.preview = obs.preview
    BY <1>2, <1>5 DEF Observers
  <2>2. QED
    BY <1>4, <1>5, <2>1
<1>6. {"request", "timeout", "boundary", "scan", "no event", "approval", "run failed", "no preview", "routing",
       "preview", "not completed", "file exists"} \subseteq Smoke!Reasons
  BY DEF Smoke!Reasons
<1>7. {"boundary", "upload", "scan", "download", "create", "connect", "gate", "approve", "poll", "artifacts", "preview",
       "final", "write", "passed"} \subseteq Smoke!Steps \ {"read", "failed"}
  BY DEF Smoke!Steps
<1>8. CASE Smoke!CheckBoundary
  <2> DEFINE x == [obs EXCEPT !.checks = @ + 1,
                              !.pc = IF obs.checks + 1 = Len(Smoke!BoundaryChecks) THEN "upload" ELSE @]
  <2>1. obs' = [obs EXCEPT !.pc = "failed", !.reason = "boundary"] \/ obs' = x
    BY <1>8 DEF Smoke!CheckBoundary
  <2>2. CASE obs' = x
    <3>1. obs.pc = "boundary" /\ obs.checks < 5 /\ obs.checks \in Nat
      BY <1>0, <1>2, <1>8, FiveChecks DEF Smoke!CheckBoundary, StageInv, Observers
    <3>2. obs.checks + 1 \in 0 .. Len(Smoke!BoundaryChecks)
      BY <3>1, FiveChecks
    <3>3. /\ x \in Observers /\ x.pc \in {"boundary", "upload"} /\ (x.pc = "boundary" => x.checks < 5)
          /\ x.cursor = obs.cursor /\ x.read = obs.read /\ x.completed = obs.completed
          /\ x.preview = obs.preview
      <4>1. CASE obs.checks + 1 = Len(Smoke!BoundaryChecks)
        <5>1. x = [obs EXCEPT !.checks = obs.checks + 1, !.pc = "upload"]
          BY <4>1
        <5>2. QED
          BY <1>2, <1>7, <3>2, <5>1 DEF Observers
      <4>2. CASE obs.checks + 1 # Len(Smoke!BoundaryChecks)
        <5>1. x = [obs EXCEPT !.checks = obs.checks + 1, !.pc = obs.pc]
          BY <4>2
        <5>2. obs.checks + 1 < 5
          BY <3>1, <4>2, FiveChecks
        <5>3. obs.pc \in Smoke!Steps
          BY <1>2 DEF Observers
        <5>4. QED
          BY <1>2, <3>1, <3>2, <5>1, <5>2, <5>3 DEF Observers
      <4>3. QED
        BY <4>1, <4>2
    <3> HIDE DEF x
    <3>4. StageInv'
      BY <1>0, <1>1, <2>2, <3>1, <3>3, FiveChecks DEF StageInv, Early, AfterRun
    <3>5. QED
      BY <1>4, <2>2, <3>1, <3>3, <3>4
  <2>3. QED
    BY <1>3, <1>6, <2>1, <2>2
<1>9. CASE Smoke!WaitForCleanAttachment
  <2>0. obs.pc = "scan"
    BY <1>9 DEF Smoke!WaitForCleanAttachment
  <2>1. \/ attachment = "CLEAN" /\ obs' = [obs EXCEPT !.pc = "download", !.polls = 0]
        \/ obs' = [obs EXCEPT !.pc = "failed", !.reason = "scan"]
        \/ obs.polls < PollBound /\ obs' = [obs EXCEPT !.polls = @ + 1]
    BY <1>9 DEF Smoke!WaitForCleanAttachment, Smoke!AcceptsScan
  <2>2. obs.polls \in 0 .. PollBound /\ PollBound \in Nat
    BY <1>2 DEF Observers, Smoke!SmokeRunAssumption
  <2>3. CASE attachment = "CLEAN" /\ obs' = [obs EXCEPT !.pc = "download", !.polls = 0]
    <3>1. 0 \in 0 .. PollBound
      BY <2>2
    <3>2. /\ obs' \in Observers /\ obs'.pc = "download" /\ obs'.cursor = obs.cursor
          /\ obs'.read = obs.read
          /\ obs'.completed = obs.completed /\ obs'.preview = obs.preview
      BY <1>2, <1>7, <2>3, <3>1 DEF Observers
    <3>3. StageInv'
      BY <1>0, <1>1, <2>0, <2>3, <3>2 DEF StageInv, Early, AfterRun
    <3>4. QED
      BY <1>4, <2>0, <3>2, <3>3
  <2>4. CASE obs.polls < PollBound /\ obs' = [obs EXCEPT !.polls = @ + 1]
    <3>1. obs.polls + 1 \in 0 .. PollBound
      BY <2>2, <2>4
    <3>2. /\ obs' \in Observers /\ obs'.pc = "scan" /\ obs'.cursor = obs.cursor
          /\ obs'.read = obs.read
          /\ obs'.completed = obs.completed /\ obs'.preview = obs.preview
      BY <1>2, <2>0, <2>4, <3>1 DEF Observers
    <3>3. StageInv'
      BY <1>0, <1>1, <2>0, <3>2 DEF StageInv, Early, AfterRun
    <3>4. QED
      BY <1>4, <2>0, <3>2, <3>3
  <2>5. QED
    BY <1>3, <1>6, <2>1, <2>3, <2>4
<1>10. CASE Smoke!Download
  <2>1. obs.pc = "download" /\ obs' = [obs EXCEPT !.pc = "create"]
    BY <1>10 DEF Smoke!Download
  <2>2. obs'.pc = "create"
    BY <1>2, <2>1 DEF Observers
  <2>3. StageInv'
    BY <1>0, <1>1, <2>1, <2>2 DEF StageInv, Early, AfterRun
  <2>4. QED
    BY <1>5, <1>7, <2>1, <2>3
<1>11. CASE Smoke!ReadGate
  <2> DEFINE x == [obs EXCEPT !.pc = "approve", !.version = run.version, !.pending = FALSE]
  <2>1. obs.pc = "gate" /\ (obs' = x \/ obs' = [obs EXCEPT !.pc = "failed", !.reason = "approval"])
    BY <1>11 DEF Smoke!ReadGate
  <2>2. CASE obs' = x
    <3>1. run.version \in Nat
      BY <1>0 DEF RunTypes
    <3>2. /\ x \in Observers /\ x.pc = "approve" /\ x.cursor = obs.cursor /\ x.read = obs.read
          /\ x.completed = obs.completed /\ x.preview = obs.preview
      BY <1>2, <1>7, <3>1 DEF Observers
    <3> HIDE DEF x
    <3>3. StageInv'
      BY <1>0, <1>1, <2>1, <2>2, <3>2 DEF StageInv, Early, AfterRun
    <3>4. QED
      BY <1>4, <2>1, <2>2, <3>2, <3>3
  <2>3. QED
    BY <1>3, <1>6, <2>1, <2>2
<1>12. CASE Smoke!PollRun
  <2>1. /\ obs.pc = "poll"
        /\ \/ run.status = "COMPLETED" /\ obs' = [obs EXCEPT !.pc = "artifacts"]
           \/ obs' = [obs EXCEPT !.pc = "failed", !.reason = "run failed"]
           \/ obs.polls < PollBound /\ obs' = [obs EXCEPT !.pc = "connect", !.polls = @ + 1]
    BY <1>12 DEF Smoke!PollRun, Smoke!Finished
  <2>2. CASE run.status = "COMPLETED" /\ obs' = [obs EXCEPT !.pc = "artifacts"]
    <3>1. obs'.pc = "artifacts"
      BY <1>2, <2>2 DEF Observers
    <3>2. StageInv'
      BY <1>0, <1>1, <2>1, <2>2, <3>1 DEF StageInv, Early, AfterRun
    <3>3. QED
      BY <1>5, <1>7, <2>1, <2>2, <3>2
  <2>3. CASE obs.polls < PollBound /\ obs' = [obs EXCEPT !.pc = "connect", !.polls = @ + 1]
    <3>1. obs.polls \in 0 .. PollBound /\ PollBound \in Nat
      BY <1>2 DEF Observers, Smoke!SmokeRunAssumption
    <3>2. obs.polls + 1 \in 0 .. PollBound
      BY <2>3, <3>1
    <3>3. /\ obs' \in Observers /\ obs'.pc = "connect" /\ obs'.cursor = obs.cursor
          /\ obs'.read = obs.read
          /\ obs'.completed = obs.completed /\ obs'.preview = obs.preview
      BY <1>2, <1>7, <2>3, <3>2 DEF Observers
    <3>4. StageInv'
      BY <1>0, <1>1, <2>1, <3>3 DEF StageInv, Early, AfterRun
    <3>5. QED
      BY <1>4, <2>1, <3>3, <3>4
  <2>4. QED
    BY <1>3, <1>6, <2>1, <2>2, <2>3
<1>13. CASE Smoke!CheckRoute
  <2>1. /\ obs.pc = "artifacts"
        /\ \/ \E reason \in {"approval", "no preview", "routing"} : obs' = [obs EXCEPT !.pc = "failed", !.reason = reason]
           \/ /\ obs.approvals = Smoke!ExpectedApprovals /\ obs.preview # 0 /\ artifacts = Route
              /\ obs' = [obs EXCEPT !.pc = "preview"]
    BY <1>13 DEF Smoke!CheckRoute
  <2>2. CASE /\ obs.approvals = Smoke!ExpectedApprovals /\ obs.preview # 0 /\ artifacts = Route
             /\ obs' = [obs EXCEPT !.pc = "preview"]
    <3>1. obs'.pc = "preview" /\ obs'.approvals = obs.approvals /\ obs'.preview = obs.preview
      BY <1>2, <2>2 DEF Observers
    <3>2. StageInv'
      BY <1>0, <1>1, <2>1, <2>2, <3>1 DEF StageInv, Early, AfterRun, Smoke!ExpectedApprovals
    <3>3. QED
      BY <1>5, <1>7, <2>1, <2>2, <3>2
  <2>3. QED
    BY <1>3, <1>6, <2>1, <2>2
<1>14. CASE Smoke!FetchPreview \/ Smoke!CheckCompleted \/ Smoke!WriteRedactedEvidence
  <2>1. /\ obs.pc \in {"preview", "final", "write"}
        /\ \/ \E reason \in {"preview", "not completed", "file exists"} : obs' = [obs EXCEPT !.pc = "failed", !.reason = reason]
           \/ \E pc_ \in {"final", "write", "passed"} : obs' = [obs EXCEPT !.pc = pc_]
    BY <1>14 DEF Smoke!FetchPreview, Smoke!CheckCompleted, Smoke!WriteRedactedEvidence
  <2>2. ASSUME NEW pc_ \in {"final", "write", "passed"}, obs' = [obs EXCEPT !.pc = pc_]
        PROVE  SmokeInv'
    <3>1. obs'.pc = pc_ /\ obs'.approvals = obs.approvals /\ obs'.preview = obs.preview
      BY <1>2, <2>2 DEF Observers
    <3>2. StageInv'
      BY <1>0, <1>1, <2>1, <2>2, <3>1 DEF StageInv, Early, AfterRun, Smoke!ExpectedApprovals
    <3>3. QED
      BY <1>5, <1>7, <2>1, <2>2, <3>2
  <2>3. QED
    BY <1>3, <1>6, <2>1, <2>2
<1>15. QED
  BY <1>8, <1>9, <1>10, <1>11, <1>12, <1>13, <1>14

\* The steps that write: the upload, the run, and the answer to the gate.
LEMMA WritingScriptStep ==
  ASSUME Smoke!SmokeRunAssumption, SmokeInv, Smoke!UploadAttachment \/ Smoke!CreateRun \/ Smoke!ApproveGate
  PROVE  SmokeInv'
<1> USE DEF Smoke!Goto, Smoke!Fail
<1>0. RunTypes /\ ObsTypes /\ StageInv /\ RunInv /\ StreamInv
  BY DEF SmokeInv
<1>1. obs \in Observers /\ {"scan", "connect"} \subseteq Smoke!Steps
  BY <1>0 DEF ObsTypes, Smoke!Steps
<1>2. CASE Smoke!UploadAttachment
  <2>1. /\ obs.pc = "upload" /\ attachment' = "PENDING" /\ obs' = [obs EXCEPT !.pc = "scan"]
        /\ UNCHANGED <<run, log, artifacts, conn, seen, acts>>
    BY <1>2 DEF Smoke!UploadAttachment
  <2>2. /\ obs' \in Observers /\ obs'.pc = "scan" /\ obs'.cursor = obs.cursor
        /\ obs'.read = obs.read
        /\ obs'.completed = obs.completed /\ obs'.preview = obs.preview
    BY <1>1, <2>1 DEF Observers
  <2>3. RunTypes' /\ StageInv'
    BY <1>0, <2>1, <2>2 DEF RunTypes, StageInv, Early, AfterRun
  <2>4. QED
    BY <1>0, <2>1, <2>2, <2>3, StageKeeps DEF RunInv
<1>3. CASE Smoke!CreateRun
  <2>1. /\ obs.pc = "create" /\ obs' = [obs EXCEPT !.pc = "connect"]
        /\ run' = [run EXCEPT !.status = "PENDING"]
        /\ UNCHANGED <<log, attachment, artifacts, conn, seen, acts>>
    BY <1>3 DEF Smoke!CreateRun
  <2>2. /\ obs' \in Observers /\ obs'.pc = "connect" /\ obs'.cursor = obs.cursor
        /\ obs'.read = obs.read
        /\ obs'.completed = obs.completed /\ obs'.preview = obs.preview
    BY <1>1, <2>1 DEF Observers
  <2>3. RunTypes' /\ run'.status = "PENDING"
    BY <1>0, <2>1 DEF RunTypes
  <2>4. run.status = "NONE" /\ attachment = "CLEAN"
    BY <1>0, <2>1 DEF StageInv, Early
  <2>5. StageInv'
    BY <2>1, <2>2, <2>4 DEF StageInv, Early, AfterRun
  <2>6. QED
    BY <2>1, <2>2, <2>3, <2>4, <2>5, StageKeeps
<1>4. CASE Smoke!ApproveGate
  <2>1. obs.pc = "approve" /\ UNCHANGED <<log, attachment, artifacts, conn, seen, acts>>
    BY <1>4 DEF Smoke!ApproveGate
  <2>2. CASE run.status = "PAUSED" /\ run.version = obs.version
    <3>1. /\ run' = Smoke!Approved
          /\ obs' = [obs EXCEPT !.pc = "connect", !.approvals = Append(@, "plan")]
      BY <1>4, <2>2 DEF Smoke!ApproveGate
    <3>2. Append(obs.approvals, "plan") \in Seq({"plan"})
      BY <1>1 DEF Observers
    <3>3. /\ obs' \in Observers /\ obs'.pc = "connect" /\ obs'.cursor = obs.cursor
          /\ obs'.read = obs.read
          /\ obs'.completed = obs.completed /\ obs'.preview = obs.preview
      BY <1>1, <3>1, <3>2 DEF Observers
    <3>4. RunTypes' /\ run'.status = "PENDING"
      <4>1. run' \in [status : {"NONE", "PENDING", "RUNNING", "PAUSED"} \union Smoke!Terminal, version : Nat,
                      gate : {"ahead", "asked", "passed"}] /\ run'.status = "PENDING"
        BY <1>0, <3>1 DEF RunTypes, Smoke!Approved
      <4>2. QED
        BY <1>0, <2>1, <4>1 DEF RunTypes
    <3>5. StageInv'
      BY <1>0, <2>1, <3>3 DEF StageInv, Early, AfterRun
    <3>6. QED
      BY <2>1, <2>2, <3>3, <3>4, <3>5, StageKeeps
  <2>3. CASE ~ (run.status = "PAUSED" /\ run.version = obs.version)
    <3>1. obs' = [obs EXCEPT !.pc = "failed", !.reason = "approval"] /\ run' = run
      BY <1>4, <2>3 DEF Smoke!ApproveGate
    <3>2. /\ "approval" \in Smoke!Reasons /\ seen' \in Seq(1 .. MaxEvents)
          /\ Smoke!ReplayHasNoGap'
      BY <1>0, <2>1 DEF ObsTypes, StreamInv, Smoke!ReplayHasNoGap, Smoke!Reasons
    <3>3. QED
      BY <2>1, <3>1, <3>2, FailKeeps
  <2>4. QED
    BY <2>2, <2>3
<1>5. QED
  BY <1>2, <1>3, <1>4

\* A request that fails and the deadline end the script, with its stream.
LEMMA InterruptedStep ==
  ASSUME Smoke!SmokeRunAssumption, SmokeInv, Smoke!RequestFails \/ Smoke!DeadlinePasses
  PROVE  SmokeInv'
<1>1. PICK reason \in {"request", "timeout"} : obs' = [obs EXCEPT !.pc = "failed", !.reason = reason]
  BY DEF Smoke!RequestFails, Smoke!DeadlinePasses, Smoke!Fail
<1>2. /\ conn' = [conn EXCEPT !.pc = "closed"]
      /\ UNCHANGED <<run, log, attachment, artifacts, seen, acts>>
  BY DEF Smoke!RequestFails, Smoke!DeadlinePasses, Smoke!server
<1>3. reason \in Smoke!Reasons
  BY DEF Smoke!Reasons
<1>4. seen' \in Seq(1 .. MaxEvents) /\ Smoke!ReplayHasNoGap'
  BY <1>2 DEF SmokeInv, ObsTypes, StreamInv, Smoke!ReplayHasNoGap
<1>5. QED
  BY <1>1, <1>2, <1>3, <1>4, FailKeeps

LEMMA ConnectStep ==
  ASSUME Smoke!SmokeRunAssumption, SmokeInv, Smoke!Connect
  PROVE  SmokeInv'
<1>0. RunTypes /\ ConnTypes /\ ObsTypes /\ StageInv /\ RunInv /\ StreamInv
  BY DEF SmokeInv
<1>1. /\ obs.pc = "connect" /\ conn' = [pc |-> "list", cursor |-> obs.cursor, pipe |-> <<>>]
      /\ obs' = [obs EXCEPT !.pc = "read", !.read = 0, !.ended = FALSE]
      /\ UNCHANGED <<run, log, attachment, artifacts, seen, acts>>
  BY DEF Smoke!Connect, Smoke!ResumeAt, Smoke!server
<1>2. /\ obs \in Observers /\ "read" \in Smoke!Steps /\ MaxEvents \in Nat
      /\ obs.cursor \in 0 .. MaxEvents
  BY <1>0 DEF ObsTypes, Observers, Smoke!Steps, Smoke!SmokeRunAssumption
<1>3. 0 \in 0 .. MaxEvents
  BY <1>2
<1>4. /\ obs' \in Observers /\ obs'.pc = "read" /\ obs'.cursor = obs.cursor /\ obs'.read = 0
      /\ obs'.completed = obs.completed /\ obs'.preview = obs.preview
  BY <1>1, <1>2, <1>3 DEF Observers
<1>5. ConnTypes' /\ conn'.cursor = obs.cursor /\ conn'.pipe = <<>> /\ Len(conn'.pipe) = 0
  BY <1>1, <1>2 DEF ConnTypes
<1>6. RunTypes' /\ ObsTypes' /\ RunInv'
  BY <1>0, <1>1, <1>4 DEF RunTypes, ObsTypes, RunInv
<1>7. StageInv'
  BY <1>0, <1>1, <1>4 DEF StageInv, Early, AfterRun
<1>8. StreamInv'
  BY <1>0, <1>1, <1>2, <1>4, <1>5 DEF StreamInv, Smoke!ReplayHasNoGap
<1>9. QED
  BY <1>5, <1>6, <1>7, <1>8 DEF SmokeInv

\* Where the script goes after a connection, and what it keeps.
LEMMA AfterAConnection ==
  ASSUME NEW o \in Observers, NEW ended \in BOOLEAN
  PROVE  LET x == Smoke!AfterConnection(o, ended)
         IN  /\ x \in Observers /\ x.pc \in {"failed", "gate", "artifacts", "poll", "connect"}
             /\ x.pc = "artifacts" => o.completed
             /\ x.cursor = o.cursor /\ x.read = o.read /\ x.completed = o.completed
             /\ x.preview = o.preview
<1> DEFINE x == Smoke!AfterConnection(o, ended)
           pc_ == IF o.connection = 0 /\ o.read = 0 THEN "failed"
                  ELSE IF o.pending THEN "gate"
                  ELSE IF o.completed THEN "artifacts"
                  ELSE IF ended \/ o.read = 0 THEN "poll" ELSE "connect"
           connection_ == IF o.connection = 0 THEN 1 ELSE 2
           reason_ == IF o.connection = 0 /\ o.read = 0 THEN "no event" ELSE o.reason
<1>1. x = [o EXCEPT !.connection = connection_, !.ended = ended, !.pc = pc_, !.reason = reason_]
  BY DEF Smoke!AfterConnection
<1>2. pc_ \in {"failed", "gate", "artifacts", "poll", "connect"} /\ (pc_ = "artifacts" => o.completed)
  OBVIOUS
<1>3. connection_ \in {0, 1, 2} /\ reason_ \in Smoke!Reasons
  BY DEF Observers, Smoke!Reasons
<1>4. {"failed", "gate", "artifacts", "poll", "connect"} \subseteq Smoke!Steps
  BY DEF Smoke!Steps
<1> HIDE DEF x, pc_, connection_, reason_
<1>5. pc_ \in Smoke!Steps
  BY <1>2, <1>4
<1>6. /\ x \in Observers /\ x.pc = pc_
      /\ x.cursor = o.cursor /\ x.read = o.read /\ x.completed = o.completed
      /\ x.preview = o.preview
  BY <1>1, <1>3, <1>5 DEF Observers
<1>7. QED
  BY <1>2, <1>6 DEF x

\* The event that is next is the one after the last that was processed.
LEMMA NextEvent ==
  ASSUME Smoke!SmokeRunAssumption, SmokeInv, obs.pc = "read", conn.pipe # <<>>
  PROVE  /\ Head(conn.pipe) = obs.cursor + 1 /\ obs.cursor + 1 \in 1 .. Len(log) /\ obs.cursor + 1 \in 1 .. MaxEvents
         /\ obs.cursor \in Nat /\ obs.cursor = Len(seen)
         /\ Tail(conn.pipe) \in Seq(1 .. MaxEvents) /\ Len(Tail(conn.pipe)) = Len(conn.pipe) - 1
         /\ conn.cursor = (obs.cursor + 1) + Len(Tail(conn.pipe))
         /\ \A i \in 1 .. Len(Tail(conn.pipe)) : Tail(conn.pipe)[i] = (obs.cursor + 1) + i
<1> DEFINE p == conn.pipe
           c == obs.cursor
<1>1. /\ p \in Seq(1 .. MaxEvents) /\ p # <<>> /\ c \in Nat /\ conn.cursor = c + Len(p)
      /\ conn.cursor <= Len(log)
      /\ \A i \in 1 .. Len(p) : p[i] = c + i
      /\ Len(log) \in Nat /\ Len(log) <= MaxEvents /\ MaxEvents \in Nat /\ c = Len(seen)
      /\ conn.cursor \in Nat
  BY DEF SmokeInv, RunTypes, ConnTypes, ObsTypes, Observers, StreamInv, Smoke!SmokeRunAssumption
<1> HIDE DEF p, c
<1>2. Len(p) \in Nat /\ Len(p) >= 1 /\ Head(p) = p[1]
  BY <1>1
<1>3. /\ Tail(p) \in Seq(1 .. MaxEvents) /\ Len(Tail(p)) = Len(p) - 1
      /\ \A i \in 1 .. Len(Tail(p)) : Tail(p)[i] = p[i + 1]
  BY <1>1, HeadTailProperties
<1>4. Head(p) = c + 1 /\ c + 1 \in 1 .. Len(log) /\ c + 1 \in 1 .. MaxEvents
  BY <1>1, <1>2
<1>5. conn.cursor = (c + 1) + Len(Tail(p))
  BY <1>1, <1>2, <1>3
<1>6. \A i \in 1 .. Len(Tail(p)) : Tail(p)[i] = (c + 1) + i
  BY <1>1, <1>2, <1>3
<1>7. QED
  BY <1>1, <1>3, <1>4, <1>5, <1>6 DEF p, c

\* An event is processed, and the script fails, follows the stream or leaves it.
LEMMA OnEventStep ==
  ASSUME Smoke!SmokeRunAssumption, SmokeInv, Smoke!OnEvent
  PROVE  SmokeInv'
<1> USE DEF Smoke!Fail
<1>0. RunTypes /\ ConnTypes /\ ObsTypes /\ StageInv /\ RunInv /\ StreamInv
  BY DEF SmokeInv
<1> DEFINE s == Head(conn.pipe)
           type == log[s]
           o == [obs EXCEPT !.cursor = s, !.read = @ + 1,
                            !.pending = type = "approval.required",
                            !.preview = IF type = "preview.READY" THEN s ELSE @,
                            !.completed = type = "run.completed"]
           stop == obs.connection = 0 \/ o.pending \/ o.completed
<1>1. obs.pc = "read" /\ conn.pipe # <<>> /\ UNCHANGED <<run, log, attachment, artifacts, acts>>
  BY DEF Smoke!OnEvent, Smoke!server
<1>2. seen' = Append(seen, s)
  BY DEF Smoke!OnEvent
<1>3. /\ s = obs.cursor + 1 /\ s \in 1 .. Len(log) /\ s \in 1 .. MaxEvents
      /\ obs.cursor \in Nat /\ obs.cursor = Len(seen)
      /\ Tail(conn.pipe) \in Seq(1 .. MaxEvents) /\ conn.cursor = s + Len(Tail(conn.pipe))
      /\ \A i \in 1 .. Len(Tail(conn.pipe)) : Tail(conn.pipe)[i] = s + i
  BY <1>1, NextEvent
<1>4. \/ \E reason \in {"approval", "run failed"} :
           /\ obs' = [obs EXCEPT !.pc = "failed", !.reason = reason]
           /\ conn' = [conn EXCEPT !.pc = "closed"]
      \/ /\ obs' = IF stop THEN Smoke!AfterConnection(o, FALSE) ELSE o
         /\ conn' = IF stop THEN [conn EXCEPT !.pc = "closed", !.pipe = <<>>] ELSE [conn EXCEPT !.pipe = Tail(conn.pipe)]
  <2>1. ~ (s <= obs.cursor)
    BY <1>3
  <2>2. QED
    BY <2>1 DEF Smoke!OnEvent
<1>5. obs \in Observers /\ obs.read \in Nat /\ obs.read <= obs.cursor /\ MaxEvents \in Nat
      /\ obs.preview \in 0 .. MaxEvents /\ obs.preview \in Nat
  BY <1>0 DEF ObsTypes, Observers, StreamInv, Smoke!SmokeRunAssumption
<1> HIDE DEF s
<1>6. seen' \in Seq(1 .. MaxEvents) /\ Len(seen') = s /\ Smoke!ReplayHasNoGap'
  <2>1. /\ seen \in Seq(1 .. MaxEvents) /\ seen = [i \in 1 .. Len(seen) |-> i]
        /\ Len(seen) + 1 \in 1 .. MaxEvents
        /\ s = Len(seen) + 1
    BY <1>0, <1>3 DEF ObsTypes, StreamInv, Smoke!ReplayHasNoGap
  <2>2. QED
    BY <1>2, <2>1, NumberedNext DEF Smoke!ReplayHasNoGap
<1>7. ASSUME NEW reason \in {"approval", "run failed"}, obs' = [obs EXCEPT !.pc = "failed", !.reason = reason],
             conn' = [conn EXCEPT !.pc = "closed"]
      PROVE  SmokeInv'
  <2>1. reason \in Smoke!Reasons
    BY DEF Smoke!Reasons
  <2>2. QED
    BY <1>1, <1>6, <1>7, <2>1, FailKeeps
<1> DEFINE shown == IF type = "preview.READY" THEN s ELSE obs.preview
           asked == (type = "approval.required")
           finished == (type = "run.completed")
<1>8. /\ o \in Observers /\ o.pc = "read" /\ o.cursor = s /\ o.read = obs.read + 1
      /\ o.completed = finished /\ o.preview = shown /\ o.pending = asked
  <2>1. o = [obs EXCEPT !.cursor = s, !.read = obs.read + 1, !.pending = asked, !.preview = shown, !.completed = finished]
    OBVIOUS
  <2>2. obs.read + 1 \in 0 .. MaxEvents /\ s \in 0 .. MaxEvents
    BY <1>3, <1>5
  <2>3. shown \in 0 .. MaxEvents
    BY <1>5, <2>2
  <2>4. asked \in BOOLEAN /\ finished \in BOOLEAN
    OBVIOUS
  <2> HIDE DEF o, shown, asked, finished
  <2>5. QED
    BY <1>1, <1>5, <2>1, <2>2, <2>3, <2>4 DEF Observers
<1>9. /\ finished => run.status = "COMPLETED"
      /\ shown # 0 => shown \in 1 .. Len(log) /\ log[shown] = "preview.READY"
      /\ obs.read + 1 <= s
  BY <1>0, <1>3, <1>5 DEF RunInv
<1> HIDE DEF o, shown, finished, asked, type
<1>10. ASSUME NEW x \in Observers, obs' = x, x.cursor = s, x.read = obs.read + 1, x.completed = finished,
              x.preview = shown, x.pc \in {"read", "failed", "gate", "artifacts", "poll", "connect"},
              x.pc = "artifacts" => finished, ConnTypes', conn'.cursor = conn.cursor,
              x.pc = "read" => conn'.pipe = Tail(conn.pipe)
       PROVE  SmokeInv'
  <2>1. RunTypes' /\ ObsTypes'
    BY <1>0, <1>1, <1>6, <1>10 DEF RunTypes, ObsTypes
  <2>2. StageInv'
    BY <1>0, <1>1, <1>9, <1>10 DEF StageInv, Early, AfterRun
  <2>3. RunInv'
    BY <1>0, <1>1, <1>9, <1>10 DEF RunInv
  <2>4. StreamInv'
    <3>1. obs'.cursor <= Len(log') /\ conn'.cursor <= Len(log') /\ obs'.read <= obs'.cursor
      BY <1>0, <1>1, <1>3, <1>9, <1>10 DEF StreamInv
    <3>2. obs'.pc # "failed" => obs'.cursor = Len(seen')
      BY <1>6, <1>10
    <3>3. obs'.pc = "read" =>
            /\ conn'.cursor = obs'.cursor + Len(conn'.pipe)
            /\ \A i \in 1 .. Len(conn'.pipe) : conn'.pipe[i] = obs'.cursor + i
      BY <1>3, <1>10
    <3>4. QED
      BY <1>6, <3>1, <3>2, <3>3 DEF StreamInv
  <2>5. QED
    BY <1>10, <2>1, <2>2, <2>3, <2>4 DEF SmokeInv
<1>11. CASE /\ stop /\ obs' = Smoke!AfterConnection(o, FALSE)
            /\ conn' = [conn EXCEPT !.pc = "closed", !.pipe = <<>>]
  <2>1. ConnTypes' /\ conn'.cursor = conn.cursor
    <3>1. conn' = [conn EXCEPT !.pc = "closed", !.pipe = <<>>]
      BY <1>11
    <3>2. <<>> \in Seq(1 .. MaxEvents)
      OBVIOUS
    <3>3. QED
      BY <1>0, <3>1, <3>2 DEF ConnTypes
  <2> DEFINE x == Smoke!AfterConnection(o, FALSE)
  <2>2. /\ x \in Observers /\ x.pc \in {"failed", "gate", "artifacts", "poll", "connect"}
        /\ x.pc = "artifacts" => o.completed
        /\ x.cursor = o.cursor /\ x.read = o.read /\ x.completed = o.completed
        /\ x.preview = o.preview
    BY <1>8, AfterAConnection
  <2>3. obs' = x
    BY <1>11
  <2> HIDE DEF x
  <2>4. QED
    BY <1>8, <1>10, <2>1, <2>2, <2>3
<1>12. CASE ~ stop /\ obs' = o /\ conn' = [conn EXCEPT !.pipe = Tail(conn.pipe)]
  <2>1. ConnTypes' /\ conn'.cursor = conn.cursor /\ conn'.pipe = Tail(conn.pipe)
    BY <1>0, <1>3, <1>12 DEF ConnTypes
  <2>2. QED
    BY <1>8, <1>10, <1>12, <2>1
<1>13. QED
  <2>1. \/ \E reason \in {"approval", "run failed"} :
             /\ obs' = [obs EXCEPT !.pc = "failed", !.reason = reason]
             /\ conn' = [conn EXCEPT !.pc = "closed"]
        \/ stop /\ obs' = Smoke!AfterConnection(o, FALSE) /\ conn' = [conn EXCEPT !.pc = "closed", !.pipe = <<>>]
        \/ ~ stop /\ obs' = o /\ conn' = [conn EXCEPT !.pipe = Tail(conn.pipe)]
    <3> HIDE DEF stop
    <3>1. QED
      BY <1>4
  <2>2. QED
    BY <1>7, <1>11, <1>12, <2>1

LEMMA StreamEndsStep ==
  ASSUME Smoke!SmokeRunAssumption, SmokeInv, Smoke!StreamEnds
  PROVE  SmokeInv'
<1>0. RunTypes /\ ConnTypes /\ ObsTypes /\ StageInv /\ RunInv /\ StreamInv
  BY DEF SmokeInv
<1>1. /\ obs.pc = "read" /\ obs' = Smoke!AfterConnection(obs, TRUE)
      /\ conn' = [conn EXCEPT !.pc = "closed"]
      /\ UNCHANGED <<run, log, attachment, artifacts, seen, acts>>
  BY DEF Smoke!StreamEnds, Smoke!server
<1>2. /\ obs' \in Observers /\ obs'.pc \in {"failed", "gate", "artifacts", "poll", "connect"}
      /\ obs'.pc = "artifacts" => obs.completed
      /\ obs'.cursor = obs.cursor /\ obs'.read = obs.read /\ obs'.completed = obs.completed
      /\ obs'.preview = obs.preview
  BY <1>0, <1>1, AfterAConnection DEF ObsTypes
<1>3. ConnTypes' /\ conn'.cursor = conn.cursor
  BY <1>0, <1>1 DEF ConnTypes
<1>4. RunTypes' /\ ObsTypes' /\ RunInv'
  BY <1>0, <1>1, <1>2 DEF RunTypes, ObsTypes, RunInv
<1>5. StageInv'
  BY <1>0, <1>1, <1>2 DEF StageInv, RunInv, Early, AfterRun
<1>6. StreamInv'
  BY <1>0, <1>1, <1>2, <1>3 DEF StreamInv, Smoke!ReplayHasNoGap
<1>7. QED
  BY <1>3, <1>4, <1>5, <1>6 DEF SmokeInv

LEMMA SmokeStep ==
  ASSUME Smoke!SmokeRunAssumption, SmokeInv, [Smoke!Next]_(Smoke!vars)
  PROVE  SmokeInv'
<1>1. CASE Smoke!Next
  BY <1>1, PlatformStep, ServingStep, AskingStep, WritingScriptStep, InterruptedStep,
     ConnectStep, OnEventStep,
     StreamEndsStep DEF Smoke!Next, Smoke!Script, Smoke!Environment
<1>2. CASE UNCHANGED Smoke!vars
  BY <1>2 DEF Smoke!vars, Smoke!server, SmokeInv, RunTypes, ConnTypes, ObsTypes, StageInv,
     RunInv, StreamInv,
     Smoke!ReplayHasNoGap
<1>3. QED
  BY <1>1, <1>2

LEMMA SmokeHolds ==
  ASSUME Smoke!SmokeRunAssumption
  PROVE  Smoke!Spec => []SmokeInv
<1>1. Smoke!Init => SmokeInv
  BY SmokeInit
<1>2. SmokeInv /\ [Smoke!Next]_(Smoke!vars) => SmokeInv'
  BY SmokeStep
<1>3. QED
  BY <1>1, <1>2, PTL DEF Smoke!Spec

LEMMA SmokeImplies == SmokeInv => Smoke!TypeOK /\ Smoke!PassIsEarned /\ Smoke!ReplayHasNoGap
<1> SUFFICES ASSUME SmokeInv PROVE Smoke!TypeOK /\ Smoke!PassIsEarned /\ Smoke!ReplayHasNoGap
  OBVIOUS
<1>1. Smoke!TypeOK /\ Smoke!ReplayHasNoGap
  BY SmokeTypes DEF SmokeInv, StreamInv
<1>2. Smoke!PassIsEarned
  BY DEF SmokeInv, StageInv, RunInv, Smoke!PassIsEarned, AfterRun
<1>3. QED
  BY <1>1, <1>2

\* Passing evidence is earned: the run is completed behind its answered gate, the attachment is
\* clean, the artifacts are those of the route, and the preview is one the run published.
THEOREM PassIsEarnedHolds ==
  ASSUME Smoke!SmokeRunAssumption
  PROVE  Smoke!Spec => []Smoke!PassIsEarned
<1>1. SmokeInv => Smoke!PassIsEarned
  BY SmokeImplies
<1>2. QED
  BY <1>1, SmokeHolds, PTL

\* Over all its connections, the one it cuts with events in the buffer included, the script
\* processes the events of the log once, in order and without a gap, up to the one it stops at
\* (Last-Event-ID is the last one it processed); not to the end of the log.
THEOREM ReplayHasNoGapHolds ==
  ASSUME Smoke!SmokeRunAssumption
  PROVE  Smoke!Spec => []Smoke!ReplayHasNoGap
<1>1. SmokeInv => Smoke!ReplayHasNoGap
  BY SmokeImplies
<1>2. QED
  BY <1>1, SmokeHolds, PTL
-----------------------------------------------------------------------------
(* The scripts together *)

StagingInv ==
    /\ part \in {"scenario", "bootstrap", "smoke", "recovery", "oidc"}
    /\ part = "scenario" => ScenarioInv
    /\ part = "bootstrap" => BootstrapInv
    /\ part = "smoke" => SmokeInv
    /\ part = "recovery" => RecoveryInv
    /\ part = "oidc" => OidcInv

LEMMA StagingInit == Init => StagingInv
BY ScenarioInit, BootstrapInit, SmokeInit, RecoveryInit, OidcInit, StagingAssumption DEF Init,
   StagingInv

\* A script that does not run is not disturbed, and one that rests keeps its invariant.
LEMMA PartsRest ==
  ASSUME UNCHANGED vars
  PROVE  /\ UNCHANGED part /\ UNCHANGED Scenario!vars /\ UNCHANGED Bootstrap!vars /\ UNCHANGED Smoke!vars
         /\ UNCHANGED Recovery!vars /\ UNCHANGED Oidc!vars
<1>1. UNCHANGED <<part, scenario, bootstrap, smokeRun, rehearsal, oidc>>
  BY DEF vars
<1>2. UNCHANGED Scenario!vars
  BY <1>1 DEF scenario, Scenario!vars, Scenario!flow, Scenario!evidence
<1>3. UNCHANGED Bootstrap!vars
  BY <1>1 DEF bootstrap, Bootstrap!vars, Bootstrap!host
<1>4. UNCHANGED Smoke!vars
  BY <1>1 DEF smokeRun, Smoke!vars, Smoke!server
<1>5. UNCHANGED Recovery!vars
  BY <1>1 DEF rehearsal, Recovery!vars, Recovery!script, Recovery!stack
<1>6. UNCHANGED Oidc!vars
  BY <1>1 DEF oidc, Oidc!vars, Oidc!cloud, Oidc!azure, Oidc!github
<1>7. QED
  BY <1>1, <1>2, <1>3, <1>4, <1>5, <1>6

LEMMA OnePartSteps ==
  ASSUME [Next]_vars
  PROVE  /\ UNCHANGED part
         /\ part = "scenario" => [Scenario!Next]_(Scenario!vars)
         /\ part = "bootstrap" => [Bootstrap!Next]_(Bootstrap!vars)
         /\ part = "smoke" => [Smoke!Next]_(Smoke!vars)
         /\ part = "recovery" => [Recovery!Next]_(Recovery!vars)
         /\ part = "oidc" => [Oidc!Next]_(Oidc!vars)
<1>1. CASE Next
  BY <1>1 DEF Next
<1>2. CASE UNCHANGED vars
  BY <1>2, PartsRest
<1>3. QED
  BY <1>1, <1>2

LEMMA StagingStep ==
  ASSUME StagingInv, [Next]_vars
  PROVE  StagingInv'
<1>1. part' = part
  BY OnePartSteps
<1>2. part = "scenario" => ScenarioInv'
  BY OnePartSteps, ScenarioStep, StagingAssumption DEF StagingInv
<1>3. part = "bootstrap" => BootstrapInv'
  BY OnePartSteps, BootstrapStep, StagingAssumption DEF StagingInv
<1>4. part = "smoke" => SmokeInv'
  BY OnePartSteps, SmokeStep, StagingAssumption DEF StagingInv
<1>5. part = "recovery" => RecoveryInv'
  BY OnePartSteps, RecoveryStep, StagingAssumption DEF StagingInv
<1>6. part = "oidc" => OidcInv'
  BY OnePartSteps, OidcStep, StagingAssumption DEF StagingInv
<1>7. QED
  BY <1>1, <1>2, <1>3, <1>4, <1>5, <1>6 DEF StagingInv

LEMMA StagingHolds == Spec => []StagingInv
<1>1. Init => StagingInv
  BY StagingInit
<1>2. StagingInv /\ [Next]_vars => StagingInv'
  BY StagingStep
<1>3. QED
  BY <1>1, <1>2, PTL DEF Spec

\* No script writes evidence of a success it has not had: the proof of the provider, the bootstrap,
\* the smoke with its log, and the rehearsal of a recovery.
THEOREM EvidenceIsEarnedHolds == Spec => []EvidenceIsEarned
<1>1. StagingInv => EvidenceIsEarned
  <2> SUFFICES ASSUME StagingInv PROVE EvidenceIsEarned
    OBVIOUS
  <2>1. part = "scenario" => Scenario!TypeOK /\ Scenario!EvidenceIsTrue
    BY ScenarioImplies DEF StagingInv
  <2>2. part = "bootstrap" => Bootstrap!TypeOK /\ Bootstrap!BootstrapIsEarned
    BY DEF StagingInv, BootstrapInv
  <2>3. part = "smoke" => Smoke!TypeOK /\ Smoke!PassIsEarned /\ Smoke!ReplayHasNoGap
    BY SmokeImplies DEF StagingInv
  <2>4. part = "recovery" => Recovery!TypeOK /\ Recovery!EvidenceIsEarned
    BY DEF StagingInv, RecoveryInv, WitnessInv
  <2>5. QED
    BY <2>1, <2>2, <2>3, <2>4 DEF EvidenceIsEarned
<1>2. QED
  BY <1>1, StagingHolds, PTL

\* However a script fails, what it leaves behind is in use or is named: services run again or the
\* outcome says they do not, isolated resources are removed or the outcome says they are not,
\* except one whose creation failed after it had taken effect, services run on the volumes of this
\* deployment, and a client id that is published belongs to an identity that can sign in.
THEOREM FailureIsSaidHolds == Spec => []FailureIsSaid
<1>1. StagingInv => FailureIsSaid
  <2> SUFFICES ASSUME StagingInv PROVE FailureIsSaid
    OBVIOUS
  <2>1. part = "recovery" => Recovery!RecoveredOrSaid /\ Recovery!LeakIsOneCreation
    BY DEF StagingInv, RecoveryInv, StackInv, IsolationInv
  <2>2. part = "bootstrap" => Bootstrap!StartsOnOwnVolumes
    BY DEF StagingInv, BootstrapInv
  <2>3. part = "oidc" => Oidc!TypeOK /\ Oidc!ClientIsUsable
    BY DEF StagingInv, OidcInv
  <2>4. QED
    BY <2>1, <2>2, <2>3 DEF FailureIsSaid
<1>2. QED
  BY <1>1, StagingHolds, PTL

\* No script destroys, replaces or takes over what is not its own, and an identity bootstrap that
\* is repeated when everything is in place changes nothing.
THEOREM ForeignIsSafeHolds == Spec => ForeignIsSafe
<1> DEFINE Safe == /\ part = "scenario" => Scenario!ForeignIsSafe
                   /\ part = "bootstrap" => Bootstrap!VolumesAreKept
                   /\ part = "oidc" => Oidc!NoTakeover /\ Oidc!RepeatChangesNothing
<1>1. StagingInv /\ [Next]_vars => [Safe]_vars
  <2> SUFFICES ASSUME StagingInv, [Next]_vars PROVE Safe
    OBVIOUS
  <2>1. part = "scenario" => Scenario!ForeignIsSafe
    BY ScenarioTakesItsOwn DEF StagingInv
  <2>2. part = "bootstrap" => Bootstrap!VolumesAreKept
    BY OnePartSteps, BootstrapKeepsVolumes, StagingAssumption DEF StagingInv
  <2>3. part = "oidc" => Oidc!NoTakeover /\ Oidc!RepeatChangesNothing
    BY OnePartSteps, OidcTakesNothingOver, OidcRepeatsNothing, StagingAssumption DEF StagingInv
  <2>4. QED
    BY <2>1, <2>2, <2>3
<1>2. QED
  BY <1>1, StagingHolds, PTL DEF Spec, ForeignIsSafe
=============================================================================
