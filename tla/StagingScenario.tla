---------------------------- MODULE StagingScenario ----------------------------
(***************************************************************************)
(* The billable staging proof: inventory, provision, health, migration,    *)
(* cleanup and inventory again, each a gate of the evidence, beside other  *)
(* managed projects that come and go; and the later finalization of the    *)
(* evidence with the measured cost.                                        *)
(***************************************************************************)
EXTENDS Naturals, Sequences, FiniteSets

CONSTANTS
    Own,       \* the project of this scenario's name
    Others,    \* other managed projects of the organization
    Costs,     \* costs and budgets, with the target among them
    Target     \* PHASE3_VARIABLE_COST_TARGET_CAD_MICROS

(* What the constants satisfy; the modules that instantiate this one assume it. *)
StagingScenarioAssumption ==
    /\ Own \notin Others
    /\ IsFiniteSet(Others)
    /\ Costs \subseteq Nat /\ Target \in Costs

Gates == {"inventory_before", "provision", "health", "install", "migrate", "seed",
          "connectivity", "cleanup", "inventory_after", "variable_cost"}
Steps == <<"install", "migrate", "seed", "connectivity">>
GateStatuses == {"PASSED", "FAILED", "PENDING"}
Projects == Others \union {Own}

VARIABLES
    pc,         \* where the scenario is
    inventory,  \* provider: managed projects
    lease,      \* secret store: the scenario's lease exists
    before,     \* resourcesBefore, or {} when the inventory failed
    ext,        \* externalId, or "none"
    owned,      \* ownedByScenario
    deleted,    \* deletedResources = 1
    leased,     \* leaseReference is set
    step,       \* migration steps reported
    gates,      \* the evidence's gates
    budget,     \* approvedBudgetCadMicros
    failed,     \* scenarioFailed
    result,     \* the evidence's result
    cost        \* measuredVariableCostCadMicros, 0: null

flow == <<pc, before, ext, owned, deleted, leased, step>>
evidence == <<gates, budget, failed, result, cost>>
vars == <<flow, evidence, inventory, lease>>

TypeOK ==
    /\ pc \in {"budget", "before", "provision", "health", "lease", "migrate", "revoke",
               "cleanup", "fallback", "after", "report", "over"}
    /\ inventory \subseteq Projects /\ before \subseteq Projects
    /\ ext \in Projects \union {"none"}
    /\ {lease, owned, deleted, leased, failed} \subseteq BOOLEAN
    /\ step \in 0 .. 4
    /\ gates \in [Gates -> GateStatuses]
    /\ budget \in Costs /\ cost \in Costs \union {0}
    /\ result \in {"none", "FAILED", "AWAITING_COST", "PASSED"}

Init ==
    /\ pc = "budget"
    /\ inventory \in SUBSET Projects
    /\ lease = FALSE
    /\ before = {} /\ ext = "none"
    /\ owned = FALSE /\ deleted = FALSE /\ leased = FALSE /\ step = 0
    /\ gates = [g \in Gates |-> "FAILED"]
    /\ budget \in Costs
    /\ failed = FALSE /\ result = "none" /\ cost = 0

SetGate(g, s) == gates' = [gates EXCEPT ![g] = s]

\* A throw inside the try block: the finally block still runs.
Throw == failed' = TRUE /\ pc' = "revoke"

-----------------------------------------------------------------------------
(* runPhase3ProviderStagingScenario *)

\* The approved budget is positive and within the target.
CheckBudget ==
    /\ pc = "budget"
    /\ IF budget > 0 /\ budget <= Target
       THEN SetGate("variable_cost", "PENDING") /\ pc' = "before" /\ UNCHANGED failed
       ELSE Throw /\ UNCHANGED gates
    /\ UNCHANGED <<inventory, lease, before, ext, owned, deleted, leased, step, budget,
                    result, cost>>

InventoryBefore ==
    /\ pc = "before"
    /\ \/ /\ before' = inventory
          /\ SetGate("inventory_before", "PASSED")
          /\ pc' = "provision" /\ UNCHANGED failed
       \/ Throw /\ UNCHANGED <<before, gates>>
    /\ UNCHANGED <<inventory, lease, ext, owned, deleted, leased, step, budget, result, cost>>

\* A project that was there before is not the scenario's.
IsOwned(x) == x \notin before

\* provision adopts the project of the name or creates it ...
Provision ==
    /\ pc = "provision"
    /\ inventory' = inventory \union {Own}
    /\ ext' = Own
    /\ owned' = IsOwned(Own)
    /\ IF IsOwned(Own) THEN SetGate("provision", "PASSED") /\ pc' = "health" /\ UNCHANGED failed
                       ELSE Throw /\ UNCHANGED gates
    /\ UNCHANGED <<lease, before, deleted, leased, step, budget, result, cost>>

\* ... or fails, and may have created it.
ProvisionFails ==
    /\ pc = "provision"
    /\ inventory' \in {inventory, inventory \union {Own}}
    /\ Throw
    /\ UNCHANGED <<lease, before, ext, owned, deleted, leased, step, gates, budget, result, cost>>

\* Polls until healthy, unhealthy or the deadline.
PollHealth ==
    /\ pc = "health"
    /\ \/ SetGate("health", "PASSED") /\ pc' = "lease" /\ UNCHANGED failed
       \/ Throw /\ UNCHANGED gates
    /\ UNCHANGED <<inventory, lease, before, ext, owned, deleted, leased, step, budget,
                    result, cost>>

\* createLease may store the lease and still fail: its reference is then lost.
TakeLease ==
    /\ pc = "lease"
    /\ \/ lease' = TRUE /\ leased' = TRUE /\ pc' = "migrate" /\ UNCHANGED failed
       \/ lease' \in BOOLEAN /\ Throw /\ UNCHANGED leased
    /\ UNCHANGED <<inventory, before, ext, owned, deleted, step, gates, budget, result, cost>>

\* onStep sets the gate of each command; a failing one ends the migration.
MigrationStep ==
    /\ pc = "migrate"
    /\ step' = step + 1
    /\ \/ /\ SetGate(Steps[step + 1], "PASSED")
          /\ pc' = IF step + 1 = 4 THEN "revoke" ELSE "migrate"
          /\ UNCHANGED failed
       \/ SetGate(Steps[step + 1], "FAILED") /\ Throw
    /\ UNCHANGED <<inventory, lease, before, ext, owned, deleted, leased, budget, result, cost>>

RevokeLease ==
    /\ pc = "revoke"
    /\ IF leased
       THEN \/ lease' = FALSE /\ UNCHANGED failed
            \/ failed' = TRUE /\ UNCHANGED lease
       ELSE UNCHANGED <<lease, failed>>
    /\ pc' = "cleanup"
    /\ UNCHANGED <<inventory, before, ext, owned, deleted, leased, step, gates, budget,
                    result, cost>>

\* cleanupOwnedResource, which the caller provides, or destroy; of an owned
\* project only.  A cleanup that returns is believed until the inventory.
Cleanup ==
    /\ pc = "cleanup"
    /\ \/ /\ owned
          /\ inventory' \in {inventory, inventory \ {ext}}
          /\ deleted' = TRUE /\ SetGate("cleanup", "PASSED") /\ pc' = "after"
       \/ ~ owned /\ pc' = "after" /\ UNCHANGED <<inventory, deleted, gates>>
    /\ UNCHANGED <<lease, before, ext, owned, leased, step, budget, failed, result, cost>>

\* It fails, with or without effect: the emergency destroy follows.
CleanupFails ==
    /\ pc = "cleanup"
    /\ owned
    /\ inventory' \in {inventory, inventory \ {ext}}
    /\ failed' = TRUE /\ pc' = "fallback"
    /\ UNCHANGED <<lease, before, ext, owned, deleted, leased, step, gates, budget, result, cost>>

Fallback ==
    /\ pc = "fallback"
    /\ \/ inventory' = inventory \ {ext} /\ deleted' = TRUE
       \/ UNCHANGED <<inventory, deleted>>
    /\ pc' = "after"
    /\ UNCHANGED <<lease, before, ext, owned, leased, step, evidence>>

\* The baseline is restored: by count, and without the scenario's project.
Restored == Cardinality(inventory) = Cardinality(before) /\ ext \notin inventory

InventoryAfter ==
    /\ pc = "after"
    /\ IF gates["inventory_before"] = "PASSED" /\ Restored
       THEN \/ SetGate("inventory_after", "PASSED") /\ UNCHANGED failed
            \/ failed' = TRUE /\ UNCHANGED gates   \* the inventory is unavailable
       ELSE failed' = TRUE /\ UNCHANGED gates
    /\ pc' = "report"
    /\ UNCHANGED <<inventory, lease, before, ext, owned, deleted, leased, step, budget,
                    result, cost>>

\* The result, and what the schema demands of it.
LifecycleGates == Gates \ {"variable_cost"}

Report ==
    /\ pc = "report"
    /\ result' = IF ~ failed /\ \A g \in LifecycleGates : gates[g] = "PASSED"
                 THEN "AWAITING_COST" ELSE "FAILED"
    /\ pc' = "over"
    /\ UNCHANGED <<inventory, lease, before, ext, owned, deleted, leased, step, gates, budget,
                    failed, cost>>

-----------------------------------------------------------------------------
\* finalizeCostEvidence, once (`flag: "wx"`), with the cost an operator attests.
WithinBudget(c) == c <= budget /\ c <= Target

FinalizeCost ==
    /\ result = "AWAITING_COST"
    /\ \E c \in Costs :
         /\ cost' = c
         /\ result' = IF WithinBudget(c) THEN "PASSED" ELSE "FAILED"
         /\ SetGate("variable_cost", IF WithinBudget(c) THEN "PASSED" ELSE "FAILED")
    /\ UNCHANGED <<flow, budget, failed, inventory, lease>>

\* Somebody else provisions or destroys a managed project.
OthersChange ==
    /\ \E p \in Others : inventory' \in {inventory \union {p}, inventory \ {p}}
    /\ UNCHANGED <<flow, evidence, lease>>

Next ==
    \/ CheckBudget \/ InventoryBefore \/ Provision \/ ProvisionFails \/ PollHealth
    \/ TakeLease \/ MigrationStep \/ RevokeLease \/ Cleanup \/ CleanupFails \/ Fallback
    \/ InventoryAfter \/ Report \/ FinalizeCost \/ OthersChange

Spec == Init /\ [][Next]_vars

-----------------------------------------------------------------------------
(* Properties *)

\* Evidence that is not FAILED is evidence of a clean lifecycle: the project it
\* created is gone and its lease is revoked, whatever else changed meanwhile,
\* and a PASSED one cost no more than was approved.
EvidenceIsTrue ==
    result \in {"AWAITING_COST", "PASSED"} =>
        /\ Own \notin inventory /\ ~ lease
        /\ result = "PASSED" => cost <= budget /\ cost <= Target

\* "This function always attempts cleanup for resources it can prove were
\* created by this scenario": and only of those.  A project that was there
\* before it is never destroyed by it.
ForeignIsSafe ==
    (Cleanup \/ CleanupFails \/ Fallback) => inventory \ inventory' \subseteq Projects \ before
=============================================================================
