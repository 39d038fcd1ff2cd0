---------------------------- MODULE OidcBootstrap ----------------------------
(***************************************************************************)
(* The bootstrap of the staging identity: a script an operator runs from   *)
(* a terminal, in plan or in apply mode, over Azure (a resource group, an  *)
(* application with its service principal, federated credential and role   *)
(* assignments) and GitHub (the subject template, environment secrets).    *)
(* Every step is a command of its own that may fail, before or after it    *)
(* took effect; there is no transaction and no lock.  Operators run it     *)
(* again when it stopped, and several may run it at a time.  What somebody *)
(* else made is there from the start: nothing foreign appears while the    *)
(* script runs, between one of its checks and the write that follows.      *)
(***************************************************************************)
EXTENDS Naturals, FiniteSets, Sequences

CONSTANTS
    Operators,   \* who runs the script, each with a machine of his own
    AppIds,      \* the ids Azure gives to applications of the dedicated name
    Roles,       \* AZURE_STAGING_ROLES
    SecretSeq,   \* AZURE_STAGING_SECRET_NAMES, in the order they are set
    ClientId,    \* the secret that holds the id of the application
    FailBound,   \* bound: commands that fail
    None         \* no value

Secrets == {SecretSeq[i] : i \in 1 .. Len(SecretSeq)}

(* What the constants satisfy; the modules that instantiate this one assume it. *)
OidcAssumption ==
    /\ ClientId \in Secrets /\ Secrets # {ClientId} /\ Len(SecretSeq) \in Nat
    /\ IsFiniteSet(AppIds) /\ FailBound \in Nat
    /\ None \notin AppIds \union Operators /\ AppIds \intersect Operators = {}

VARIABLES
    group,       \* the resource group: whose it is
    apps,        \* the applications of the dedicated name
    principals,  \* the applications that have a service principal
    credential,  \* the federated credential of the dedicated name
    roles,       \* the roles assigned at the scope of the group
    template,    \* the OIDC subject template of the repository
    immutable,   \* use_immutable_subject
    secrets,     \* the environment secrets
    keys,        \* the SSH key pair on the operator's machine
    op,          \* the attempt of each operator
    failures     \* how many commands failed

azure == <<group, apps, principals, credential, roles>>
github == <<template, immutable, secrets>>
cloud == <<azure, github>>
vars == <<cloud, keys, op, failures>>

Owners == {"absent", "ours", "foreign"}
Idle(outcome) == [at |-> "idle", mode |-> "none", group |-> FALSE, app |-> None,
                  todo |-> {}, n |-> 0, outcome |-> outcome]
Named == {a \in AppIds : apps[a] # "absent"}

TypeOK ==
    /\ group \in Owners /\ apps \in [AppIds -> Owners] /\ principals \subseteq Named
    /\ credential \in [AppIds -> Owners] /\ roles \in [AppIds -> SUBSET Roles]
    /\ template \in {"default", "custom"} /\ immutable \in BOOLEAN
    /\ secrets \in [Secrets -> AppIds \union Operators \union {None}]
    /\ keys \in [Operators -> {"none", "half", "pair"}] /\ failures \in 0 .. FailBound
    /\ op \in [Operators -> [at : {"idle", "identity", "key", "group", "app", "subject", "plan",
                                   "create_group", "create_app", "principal", "credential",
                                   "put_subject", "verify_subject", "list_roles", "assign",
                                   "secret", "verify"},
                             mode : {"none", "plan", "apply"}, group : BOOLEAN,
                             app : AppIds \union {None}, todo : SUBSET Roles, n : 0 .. Len(SecretSeq),
                             outcome : {"none", "failed", "refused", "planned", "applied"}]]

(* What the script may find: nothing, what an earlier hand set up with the dedicated names, *)
(* or one thing that is not the one it would create.                                        *)
Init ==
    \E a \in AppIds, found \in {"nothing", "group", "application", "credential", "template", "twice"} :
        \E owner \in {"ours", "foreign"} :
            /\ group = IF found = "group" THEN owner ELSE "absent"
            /\ apps = [b \in AppIds |-> IF found = "twice" THEN "ours"
                                        ELSE IF b # a THEN "absent"
                                        ELSE IF found = "application" THEN owner
                                        ELSE IF found = "credential" THEN "ours" ELSE "absent"]
            /\ principals = {}
            /\ credential = [b \in AppIds |-> IF b = a /\ found = "credential" THEN owner ELSE "absent"]
            /\ roles = [b \in AppIds |-> {}]
            /\ template = IF found = "template" /\ owner = "foreign" THEN "custom" ELSE "default"
            /\ immutable = FALSE /\ secrets = [s \in Secrets |-> None]
            /\ keys \in [Operators -> {"none", "pair"}]
            /\ op = [o \in Operators |-> Idle("none")] /\ failures = 0

-----------------------------------------------------------------------------
(* An attempt moves on after a command, or stops at it because the command failed: runProcess *)
(* throws when it could not be started or exits with another status than 0, and main reports  *)
(* that and ends.                                                                             *)
Stops(o) ==
    /\ failures < FailBound /\ failures' = failures + 1
    /\ op' = [op EXCEPT ![o] = Idle("failed")]
MovesTo(o, step) == op' = [op EXCEPT ![o] = step] /\ UNCHANGED failures
Goes(o, at) == MovesTo(o, [op[o] EXCEPT !.at = at])
Refuses(o) == MovesTo(o, Idle("refused"))

At(o, at) == op[o].at = at
Apply(o) == op[o].mode = "apply"

Start(o, mode) ==
    /\ At(o, "idle")
    /\ MovesTo(o, [Idle("none") EXCEPT !.at = "identity", !.mode = mode])
    /\ UNCHANGED <<cloud, keys>>

(* A command that only reads fails, or returns what is not JSON. *)
CommandFails(o) ==
    /\ ~At(o, "idle") /\ Stops(o)
    /\ UNCHANGED <<cloud, keys>>

(* The accounts and the repository are the pinned ones. *)
CheckIdentity(o) ==
    /\ At(o, "identity") /\ Goes(o, "key")
    /\ UNCHANGED <<cloud, keys>>

(* ssh-keygen may stop after it wrote the first of its two files. *)
ReadOrCreateSshPublicKey(o) ==
    /\ At(o, "key")
    /\ \/ keys[o] = "half" /\ Refuses(o) /\ UNCHANGED keys
       \/ (keys[o] = "pair" \/ ~Apply(o)) /\ keys[o] # "half" /\ Goes(o, "group") /\ UNCHANGED keys
       \/ keys[o] = "none" /\ Apply(o) /\ Goes(o, "group") /\ keys' = [keys EXCEPT ![o] = "pair"]
       \/ keys[o] = "none" /\ Apply(o) /\ Stops(o) /\ keys' = [keys EXCEPT ![o] = "half"]
    /\ UNCHANGED cloud

ValidGroup == group # "foreign"

ReadGroup(o) ==
    /\ At(o, "group")
    /\ IF ValidGroup THEN MovesTo(o, [op[o] EXCEPT !.at = "app", !.group = group # "absent"])
                     ELSE Refuses(o)
    /\ UNCHANGED <<cloud, keys>>

(* Several applications of the name are refused, and one with other settings. *)
GetExistingApplication(o) ==
    /\ At(o, "app")
    /\ IF Cardinality(Named) > 1 \/ \E a \in Named : apps[a] = "foreign"
       THEN Refuses(o)
       ELSE MovesTo(o, [op[o] EXCEPT !.at = "subject",
                                     !.app = IF Named = {} THEN None ELSE CHOOSE a \in Named : TRUE])
    /\ UNCHANGED <<cloud, keys>>

CheckSubject_Replaces(o) ==
    /\ At(o, "subject")
    /\ Goes(o, IF ~Apply(o) THEN "plan" ELSE IF op[o].group THEN "create_app" ELSE "create_group")
    /\ UNCHANGED <<cloud, keys>>

(* The check comes long before the PUT: a template that is customized between the two, *)
(* which this module leaves out, would be replaced.                                    *)
CheckSubject(o) ==
    /\ At(o, "subject")
    /\ IF template = "custom" THEN Refuses(o)
       ELSE Goes(o, IF ~Apply(o) THEN "plan" ELSE IF op[o].group THEN "create_app" ELSE "create_group")
    /\ UNCHANGED <<cloud, keys>>

ValidCredential(a) == credential[a] # "foreign"

(* Plan mode looks at the credential only when there is a service principal. *)
Plan(o) ==
    /\ At(o, "plan")
    /\ IF op[o].app \in principals /\ ~ValidCredential(op[o].app)
       THEN Refuses(o) ELSE MovesTo(o, Idle("planned"))
    /\ UNCHANGED <<cloud, keys>>

-----------------------------------------------------------------------------
(* Apply mode.  A command that writes takes effect, and the attempt goes on or sees it fail. *)

(* Azure creates the group, or updates the one a concurrent attempt created. *)
CreateGroup(o) ==
    /\ At(o, "create_group") /\ group' = "ours"
    /\ Goes(o, "create_app") \/ Stops(o)
    /\ UNCHANGED <<apps, principals, credential, roles, github, keys>>

Reuses(o) == op[o].app # None

CreateApplication(o) ==
    /\ At(o, "create_app")
    /\ \/ Reuses(o) /\ Goes(o, "principal") /\ UNCHANGED apps
       \/ \E a \in AppIds \ Named :
             /\ ~Reuses(o)
             /\ apps' = [apps EXCEPT ![a] = "ours"]
             /\ MovesTo(o, [op[o] EXCEPT !.at = "principal", !.app = a]) \/ Stops(o)
    /\ UNCHANGED <<group, principals, credential, roles, github, keys>>

(* The look-up and the creation of the service principal: Azure keeps one for an application. *)
EnsurePrincipal(o) ==
    /\ At(o, "principal") /\ principals' = principals \union {op[o].app}
    /\ Goes(o, "credential") \/ Stops(o)
    /\ UNCHANGED <<group, apps, credential, roles, github, keys>>

EnsureCredential(o) ==
    /\ At(o, "credential")
    /\ LET a == op[o].app
       IN  \/ credential[a] # "absent" /\ UNCHANGED credential
              /\ IF ValidCredential(a) THEN Goes(o, "put_subject") ELSE Refuses(o)
           \/ credential[a] = "absent" /\ credential' = [credential EXCEPT ![a] = "ours"]
              /\ (Goes(o, "put_subject") \/ Stops(o))
    /\ UNCHANGED <<group, apps, principals, roles, github, keys>>

PutSubject(o) ==
    /\ At(o, "put_subject") /\ template' = "default" /\ immutable' = TRUE
    /\ Goes(o, "verify_subject") \/ Stops(o)
    /\ UNCHANGED <<azure, secrets, keys>>

VerifySubject(o) ==
    /\ At(o, "verify_subject")
    /\ IF immutable THEN Goes(o, "list_roles") ELSE Refuses(o)
    /\ UNCHANGED <<cloud, keys>>

(* The assignments are listed once, before the loop. *)
Missing(a) == Roles \ roles[a]

ListRoles(o) ==
    /\ At(o, "list_roles")
    /\ MovesTo(o, [op[o] EXCEPT !.at = "assign", !.todo = Missing(op[o].app)])
    /\ UNCHANGED <<cloud, keys>>

(* The end of the loop starts the secrets. *)
AssignRole(o) ==
    /\ At(o, "assign")
    /\ \/ op[o].todo = {} /\ Goes(o, "secret") /\ UNCHANGED roles
       \/ \E r \in op[o].todo :
             /\ roles' = [roles EXCEPT ![op[o].app] = @ \union {r}]
             /\ MovesTo(o, [op[o] EXCEPT !.todo = @ \ {r}]) \/ Stops(o)
    /\ UNCHANGED <<group, apps, principals, credential, github, keys>>

ValueOf(o, s) == IF s = ClientId THEN op[o].app ELSE o

SetSecret(o) ==
    /\ At(o, "secret")
    /\ LET s == SecretSeq[op[o].n + 1]
       IN  secrets' = [secrets EXCEPT ![s] = ValueOf(o, s)]
    /\ \/ MovesTo(o, [op[o] EXCEPT !.n = @ + 1,
                                   !.at = IF op[o].n + 1 = Len(SecretSeq) THEN "verify" ELSE "secret"])
       \/ Stops(o)
    /\ UNCHANGED <<azure, template, immutable, keys>>

(* The names are verified; the values of secrets cannot be read. *)
VerifySecrets(o) ==
    /\ At(o, "verify")
    /\ MovesTo(o, Idle(IF \A s \in Secrets : secrets[s] # None THEN "applied" ELSE "refused"))
    /\ UNCHANGED <<cloud, keys>>

-----------------------------------------------------------------------------
Script(o) ==
    \/ CheckIdentity(o) \/ ReadOrCreateSshPublicKey(o) \/ ReadGroup(o) \/ GetExistingApplication(o)
    \/ CheckSubject(o) \/ Plan(o)
    \/ CreateGroup(o) \/ CreateApplication(o) \/ EnsurePrincipal(o) \/ EnsureCredential(o)
    \/ PutSubject(o) \/ VerifySubject(o) \/ ListRoles(o) \/ AssignRole(o)
    \/ SetSecret(o) \/ VerifySecrets(o)

Next ==
    \E o \in Operators :
        \/ \E mode \in {"plan", "apply"} : Start(o, mode)
        \/ Script(o) \/ CommandFails(o)

Spec == Init /\ [][Next]_vars

(* A started script ends, for its commands do, and an operator told to rerun it does. *)
FairSpec == Spec /\ \A o \in Operators : WF_vars(Script(o)) /\ SF_vars(Start(o, "apply"))

-----------------------------------------------------------------------------
Usable(a) ==
    /\ a \in AppIds /\ apps[a] = "ours" /\ a \in principals /\ credential[a] = "ours"
    /\ roles[a] = Roles /\ group = "ours" /\ template = "default" /\ immutable

(* Something of a dedicated name is not what the script would have created. *)
Mismatched ==
    \/ group = "foreign" \/ template = "custom"
    \/ \E a \in AppIds : "foreign" \in {apps[a], credential[a]}

(* All is as an apply of this operator leaves it. *)
InPlace(o) ==
    /\ Cardinality(Named) = 1 /\ \A a \in Named : Usable(a) /\ secrets[ClientId] = a
    /\ \A s \in Secrets \ {ClientId} : secrets[s] = o

(* configureGitHubSecrets comes last: whatever attempts failed, were repeated or overlapped, the client id *)
(* the workflow signs in with is that of an application with principal, credential and every role. *)
ClientIsUsable == secrets[ClientId] # None => Usable(secrets[ClientId])

(* The bootstrap "aborts rather than taking over mismatched existing state": nothing an attempt does repairs *)
(* or replaces what is not its own and was there when the first attempt began, and no secret is written *)
(* beside it. *)
NoTakeover == Mismatched => Mismatched' /\ secrets' = secrets

(* Apply is idempotent: when all of an operator's apply is in place, whatever that operator runs again, and *)
(* however it fails, changes nothing in Azure or GitHub. *)
RepeatChangesNothing ==
    \A o \in Operators : InPlace(o) /\ op'[o] # op[o] => cloud' = cloud

(* An apply that stopped half way can be completed by running it again, unless it is refused for what was *)
(* there: a mismatch, two applications or half a key pair. *)
Settled(o) ==
    Mismatched \/ Cardinality(Named) > 1 \/ keys[o] = "half" \/ op[o].outcome = "applied"
RerunCompletes == \A o \in Operators : <>Settled(o)
=============================================================================
