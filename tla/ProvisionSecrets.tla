--------------------------- MODULE ProvisionSecrets ---------------------------
(***************************************************************************)
(* What one provisioning leaves in the secret store, at the provider and   *)
(* in the sandbox: the password kept under the operation before the        *)
(* project is created, the connection kept under the project, the lease of *)
(* a migration and the sandbox that receives it.  Executions of the        *)
(* operation die, fail and are retried at every call, which may have taken *)
(* effect when it throws.                                                  *)
(***************************************************************************)
EXTENDS Naturals, Sequences

CONSTANTS
    MaxExecutions,  \* bound: executions of the operation
    Duplicates,     \* may a second execution start while one is alive?
    Store,          \* "memory" (tests) or "vault" (the worker)
    Faults,         \* may calls fail and workers die?
    Slugs,          \* display names as provision() normalises them
    SlugBound       \* characters of the name that are kept (28 in the code)

(* What the constants satisfy; the modules that instantiate this one assume it. *)
ProvisionSecretsAssumption ==
    /\ {MaxExecutions, SlugBound} \subseteq Nat
    /\ {Duplicates, Faults} \subseteq BOOLEAN
    /\ Store \in {"memory", "vault"}
    /\ \A slug \in Slugs : slug = <<>> \/ {slug[1], slug[Len(slug)]} \subseteq {"x"}

Executions == 1 .. MaxExecutions
Projects == 1 .. MaxExecutions
Passwords == 0 .. MaxExecutions   \* 0: no secret under the key

VARIABLES
    slug,       \* the operation's display name
    status,     \* database_instances.status
    external,   \* database_instances.external_id, 0: none
    password,   \* provider: the password each project was created with, 0: none
    created,    \* provider: projects created so far
    operation,  \* secret store: database-provisioning/<operation>/password
    connection, \* secret store: databases/supabase/<project>/connection
    leases,     \* secret store: leases/migrate/<uuid>, by execution
    sandboxes,  \* E2B: sandboxes that have the connection, by execution
    exec,       \* the executions
    excused     \* history: why an execution may leave something behind

provider == <<password, created>>
secrets == <<operation, connection, leases>>
row == <<status, external>>
vars == <<slug, row, provider, secrets, sandboxes, exec, excused>>

Pcs == {"none", "list", "readConnection", "readOperation", "ensure", "putOperation",
        "getOperation", "create", "putConnection", "revokeOperation", "record", "lease",
        "sandbox", "migrate", "terminate", "complete", "revokeLease", "destroy",
        "revokeConnection", "completeDestroy", "over"}
Reasons == {"died", "revoke failed", "terminate failed", "lease unheard", "sandbox unheard"}
NotStarted == [pc |-> "none", ext |-> 0, pw |-> 0, ok |-> FALSE]
Exec == [pc : Pcs, ext : 0 .. MaxExecutions, pw : Passwords, ok : BOOLEAN]

TypeOK ==
    /\ slug \in Slugs
    /\ status \in {"PROVISIONING", "READY", "DELETED"} /\ external \in 0 .. MaxExecutions
    /\ password \in [Projects -> Passwords] /\ created \in 0 .. MaxExecutions
    /\ operation \in Passwords
    /\ connection \in [Projects -> Passwords]
    /\ leases \subseteq Executions /\ sandboxes \subseteq Executions
    /\ exec \in [Executions -> Exec]
    /\ excused \in [Executions -> SUBSET Reasons]

Init ==
    /\ slug \in Slugs
    /\ status = "PROVISIONING" /\ external = 0
    /\ password = [p \in Projects |-> 0] /\ created = 0
    /\ operation = 0 /\ connection = [p \in Projects |-> 0]
    /\ leases = {} /\ sandboxes = {}
    /\ exec = [e \in Executions |-> NotStarted]
    /\ excused = [e \in Executions |-> {}]

At(e, pc) == exec[e].pc = pc
Goto(e, pc) == exec' = [exec EXCEPT ![e].pc = pc]
Live(e) == exec[e].pc \notin {"none", "over"}
Excuse(e, why) == excused' = [excused EXCEPT ![e] = @ \union {why}]

\* Where the finally blocks take a call that throws.
Unwound(pc) ==
    CASE pc = "migrate" -> "terminate"
      [] pc \in {"sandbox", "complete"} -> "revokeLease"
      [] OTHER -> "over"
Throws(e) ==
    /\ Faults
    /\ exec' = [exec EXCEPT ![e].pc = Unwound(exec[e].pc), ![e].ok = FALSE]

\* A call that took effect goes on to the next step, or its answer is lost.
Answer(e, pc) == Goto(e, pc) \/ Throws(e)

\* slice(0, 28), and "project" for an empty name.
KeptName(s) ==
    LET cut == SubSeq(s, 1, IF Len(s) < SlugBound THEN Len(s) ELSE SlugBound) IN
    IF cut = <<>> THEN <<"x">> ELSE cut

\* isManagedProjectName: the name before the operation ends in a letter or digit.
IsManagedProjectName(name) == name[1] = "x" /\ name[Len(name)] = "x"

\* How a get() of an absent key ends: Vault's 404 is SECRET_STORE_REJECTED,
\* which provision() does not take for an absent secret.
AbsentIsKnown == Store = "memory"

-----------------------------------------------------------------------------
(* provision *)

Start(e, pc) ==
    /\ At(e, "none")
    /\ \A f \in Executions : f < e => ~ At(f, "none")
    /\ Duplicates \/ \A f \in Executions : ~ Live(f)
    /\ exec' = [exec EXCEPT ![e].pc = pc]
    /\ UNCHANGED <<slug, row, provider, secrets, sandboxes, excused>>

StartProvision(e) == status = "PROVISIONING" /\ Start(e, "list")

\* The project of the deterministic name, if the organization has one.
ListProjects(e) ==
    /\ At(e, "list")
    /\ IF \A p \in Projects : password[p] = 0
       THEN Goto(e, "ensure")
       ELSE \E p \in Projects :
              /\ password[p] # 0
              /\ exec' = [exec EXCEPT ![e].pc = "readConnection", ![e].ext = p]
    /\ UNCHANGED <<slug, row, provider, secrets, sandboxes, excused>>

\* #recoverExisting: the connection of the project, or what the operation kept.
ReadConnection(e) ==
    /\ At(e, "readConnection")
    /\ Goto(e, IF connection[exec[e].ext] # 0 THEN "record"
               ELSE IF AbsentIsKnown THEN "readOperation" ELSE "over")
    /\ UNCHANGED <<slug, row, provider, secrets, sandboxes, excused>>

\* Without both, ORPHANED_DATABASE_SECRET: no execution can adopt the project.
ReadOperation(e) ==
    /\ At(e, "readOperation")
    /\ exec' = [exec EXCEPT ![e].pc = IF operation # 0 THEN "putConnection" ELSE "over",
                            ![e].pw = operation]
    /\ UNCHANGED <<slug, row, provider, secrets, sandboxes, excused>>

\* #ensureOperationSecret: never a second password for the operation.
EnsuredBy ==
    CASE operation # 0 -> "getOperation"
      [] operation = 0 /\ AbsentIsKnown -> "putOperation"
      [] OTHER -> "over"

EnsureOperationSecret(e) ==
    /\ At(e, "ensure")
    /\ Goto(e, EnsuredBy)
    /\ UNCHANGED <<slug, row, provider, secrets, sandboxes, excused>>

\* A random password: no other execution has the same.
PutOperation(e) ==
    /\ At(e, "putOperation")
    /\ operation' = e
    /\ Answer(e, "getOperation")
    /\ UNCHANGED <<slug, row, provider, connection, leases, sandboxes, excused>>

GetOperation_Once(e) ==
    /\ At(e, "getOperation")
    /\ exec' = [exec EXCEPT ![e].pc = IF operation # 0 THEN "create" ELSE "over",
                            ![e].pw = operation]
    /\ operation' = 0
    /\ UNCHANGED <<slug, row, provider, connection, leases, sandboxes, excused>>
GetOperation(e) ==
    /\ At(e, "getOperation")
    /\ exec' = [exec EXCEPT ![e].pc = IF operation # 0 THEN "create" ELSE "over",
                            ![e].pw = operation]
    /\ UNCHANGED <<slug, row, provider, secrets, sandboxes, excused>>

\* POST /v1/projects.
CreateProject(e) ==
    /\ At(e, "create")
    /\ created' = created + 1
    /\ password' = [password EXCEPT ![created + 1] = exec[e].pw]
    /\ \/ exec' = [exec EXCEPT ![e].pc = "putConnection", ![e].ext = created + 1]
       \/ Throws(e)
    /\ UNCHANGED <<slug, row, secrets, sandboxes, excused>>

\* The connection is stored before the operation's password is revoked.
PutConnection(e) ==
    /\ At(e, "putConnection")
    /\ connection' = [connection EXCEPT ![exec[e].ext] = exec[e].pw]
    /\ Answer(e, "revokeOperation")
    /\ UNCHANGED <<slug, row, provider, operation, leases, sandboxes, excused>>

RevokeOperation(e) ==
    /\ At(e, "revokeOperation")
    /\ operation' = 0
    /\ Answer(e, "record")
    /\ UNCHANGED <<slug, row, provider, connection, leases, sandboxes, excused>>

-----------------------------------------------------------------------------
(* The migration in the sandbox *)

\* recordProvisioned, health and startMigration: the row still waits for them.
RecordProvisioned(e) ==
    /\ At(e, "record")
    /\ IF status = "PROVISIONING"
       THEN external' = exec[e].ext /\ Answer(e, "lease")
       ELSE Goto(e, "over") /\ UNCHANGED external
    /\ UNCHANGED <<slug, status, provider, secrets, sandboxes, excused>>

\* createLease copies the connection under a new random key, which is known
\* from its answer only; the try block begins after it.
CreateLease(e) ==
    /\ At(e, "lease")
    /\ IF connection[exec[e].ext] # 0
       THEN /\ leases' = leases \union {e}
            /\ \/ /\ exec' = [exec EXCEPT ![e].pc = "sandbox",
                                           ![e].pw = connection[exec[e].ext]]
                  /\ UNCHANGED excused
               \/ Throws(e) /\ Excuse(e, "lease unheard")
       ELSE Goto(e, "over") /\ UNCHANGED <<leases, excused>>
    /\ UNCHANGED <<slug, row, provider, operation, connection, sandboxes>>

\* create with the connection in its environment: without its answer there is
\* no sandbox to terminate.
CreateSandbox(e) ==
    /\ At(e, "sandbox")
    /\ sandboxes' = sandboxes \union {e}
    /\ \/ Goto(e, "migrate") /\ UNCHANGED excused
       \/ Throws(e) /\ Excuse(e, "sandbox unheard")
    /\ UNCHANGED <<slug, row, provider, secrets>>

\* writeFiles and the four commands: they fail when the connection is not the project's.
RunCommands(e) ==
    /\ At(e, "migrate")
    /\ exec' = [exec EXCEPT ![e].pc = "terminate",
                  ![e].ok = password[exec[e].ext] = exec[e].pw]
    /\ UNCHANGED <<slug, row, provider, secrets, sandboxes, excused>>

\* `finally`: a terminate that fails is ignored.
TerminateSandbox(e) ==
    /\ At(e, "terminate")
    /\ \/ sandboxes' = sandboxes \ {e} /\ UNCHANGED excused
       \/ Faults /\ Excuse(e, "terminate failed") /\ UNCHANGED sandboxes
    /\ Goto(e, IF exec[e].ok THEN "complete" ELSE "revokeLease")
    /\ UNCHANGED <<slug, row, provider, secrets>>

\* When its answer is lost, the fail() that follows takes READY back, as if the
\* call had done nothing, or fails too, as if its answer had come.
CompleteMigration(e) ==
    /\ At(e, "complete")
    /\ status' = IF status = "PROVISIONING" THEN "READY" ELSE status
    /\ Goto(e, "revokeLease")
    /\ UNCHANGED <<slug, external, provider, secrets, sandboxes, excused>>

\* `finally`: a revoke that fails is ignored, and the lease stays.
RevokeLease(e) ==
    /\ At(e, "revokeLease")
    /\ \/ leases' = leases \ {e} /\ UNCHANGED excused
       \/ Faults /\ Excuse(e, "revoke failed") /\ UNCHANGED leases
    /\ Goto(e, "over")
    /\ UNCHANGED <<slug, row, provider, operation, connection, sandboxes>>

-----------------------------------------------------------------------------
(* destroy *)

StartDestroy(e) == status = "READY" /\ Start(e, "destroy")

\* The recorded project; a 404 counts as done, of the project and of the secret.
DestroyProject(e) ==
    /\ At(e, "destroy")
    /\ external # 0
    /\ password' = [password EXCEPT ![external] = 0]
    /\ Answer(e, "revokeConnection")
    /\ UNCHANGED <<slug, row, created, secrets, sandboxes, excused>>

RevokeConnection(e) ==
    /\ At(e, "revokeConnection")
    /\ connection' = [connection EXCEPT ![external] = 0]
    /\ Answer(e, "completeDestroy")
    /\ UNCHANGED <<slug, row, provider, operation, leases, sandboxes, excused>>

CompleteDestroy(e) ==
    /\ At(e, "completeDestroy")
    /\ status' = "DELETED"
    /\ Answer(e, "over")
    /\ UNCHANGED <<slug, external, provider, secrets, sandboxes, excused>>

-----------------------------------------------------------------------------
(* Failures *)

\* A call throws and has done nothing.
CallFails(e) ==
    /\ Live(e) /\ exec[e].pc \notin {"terminate", "revokeLease"}
    /\ Throws(e)
    /\ UNCHANGED <<slug, row, provider, secrets, sandboxes, excused>>

WorkerDies(e) ==
    /\ Faults
    /\ Live(e)
    /\ Goto(e, "over")
    /\ Excuse(e, "died")
    /\ UNCHANGED <<slug, row, provider, secrets, sandboxes>>

\* lifecycle: { onTimeout: "kill" }.
SandboxTimesOut(e) ==
    /\ e \in sandboxes /\ ~ Live(e)
    /\ sandboxes' = sandboxes \ {e}
    /\ UNCHANGED <<slug, row, provider, secrets, exec, excused>>

-----------------------------------------------------------------------------
Step(e) ==
    \/ ListProjects(e) \/ ReadConnection(e) \/ ReadOperation(e) \/ EnsureOperationSecret(e)
    \/ PutOperation(e) \/ GetOperation(e) \/ CreateProject(e) \/ PutConnection(e)
    \/ RevokeOperation(e) \/ RecordProvisioned(e) \/ CreateLease(e) \/ CreateSandbox(e)
    \/ RunCommands(e) \/ TerminateSandbox(e) \/ CompleteMigration(e) \/ RevokeLease(e)
    \/ DestroyProject(e) \/ RevokeConnection(e) \/ CompleteDestroy(e)

Next ==
    \E e \in Executions :
        \/ StartProvision(e) \/ StartDestroy(e) \/ Step(e)
        \/ CallFails(e) \/ WorkerDies(e) \/ SandboxTimesOut(e)

Spec == Init /\ [][Next]_vars

\* Executions are delivered, and a live one goes on.
FairSpec ==
    /\ Spec
    /\ \A e \in Executions : WF_vars(StartProvision(e)) /\ WF_vars(Step(e))

-----------------------------------------------------------------------------
(* Properties *)

\* "The database password is generated and persisted in Vault before the
\* Management API call, closing the crash window between creation and retry":
\* whenever and wherever executions die, the next one finds the password of the
\* project that exists, under the project or under the operation.
StaysAdoptable ==
    \A p \in Projects :
        password[p] # 0 => IF connection[p] # 0 THEN connection[p] = password[p]
                           ELSE operation = password[p]

\* `finally` revokes the lease and terminates the sandbox: the connection is in
\* neither once its execution is over, unless the worker died, the very call that
\* takes it away failed, or the one that put it there was not heard of.
Excused(e, reasons) == excused[e] \intersect reasons # {}
NothingIsLeftBehind ==
    /\ \A e \in leases :
          Live(e) \/ Excused(e, {"died", "revoke failed", "lease unheard"})
    /\ \A e \in sandboxes :
          Live(e) \/ Excused(e, {"died", "terminate failed", "sandbox unheard"})

\* "The lease is revoked in `finally`" (phase-3-david-database-provisioning.md): by
\* every worker that lives on and whose revoke succeeds.  The try block begins
\* after createLease, which may store the lease and throw.
LeaseIsRevoked ==
    \A e \in leases : Live(e) \/ Excused(e, {"died", "revoke failed"})

\* A first execution that meets no failure ends with the database READY.
FirstProvisionSucceeds == <>(status = "READY")

\* Every project provision() creates has a name the inventory takes for one of
\* ours; a name that is cut after a hyphen has not.
ProjectsAreInventoried ==
    \A p \in Projects : password[p] # 0 => IsManagedProjectName(KeptName(slug))
=============================================================================
